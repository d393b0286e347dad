---------------------------- MODULE UnitsProofs ----------------------------
(***************************************************************************)
(* The units that the guest programs at will, as MCUnits checks them: the  *)
(* timers, whose batches of any length are single cycles, for every width  *)
(* of the counters and every prescaler, while no timer cascades; and the   *)
(* DMA channels under any programming, for any number of lines, width of   *)
(* the addresses and size of a transfer.  And the register banks, which    *)
(* implement the register file, whatever the registers that are followed   *)
(* and the values and statuses that are written.  And the executors of the *)
(* CPU, of which Thumb does what ARM does, with the arithmetic of numbers. *)
(***************************************************************************)
EXTENDS Timers, Dma, Banks, Encodings, Numbers, FiniteSetTheorems

(* One timer. *)

(* A counter stays a counter. *)
LEMMA IncrementType ==
  ASSUME NEW t \in Timer, NEW ticks \in Nat
  PROVE  Increment(t, ticks).counter \in TimerWord /\ Increment(t, ticks).overflows \in Nat
<1> DEFINE past == t.counter + ticks - WRAP
           range == WRAP - t.reload
<1>1. t.counter \in 0..(WRAP - 1) /\ t.reload \in 0..(WRAP - 1) /\ WRAP \in Nat \ {0}
  BY TimerAssumption DEF Timer, TimerWord
<1>2. range \in Nat \ {0} /\ WRAP = t.reload + range
  BY <1>1
<1>3. CASE t.counter + ticks < WRAP
  BY <1>1, <1>3 DEF Increment, TimerWord
<1>4. CASE ~(t.counter + ticks < WRAP)
  <2>1. past \in Nat
    BY <1>1, <1>4
  <2>2. Increment(t, ticks) = [counter |-> t.reload + (past % range), overflows |-> 1 + (past \div range)]
    BY <1>1, <1>4 DEF Increment
  <2> HIDE DEF past, range
  <2>3. past \div range \in Nat /\ past % range \in 0..(range - 1)
    BY <1>2, <2>1, Division
  <2> QED
    BY <1>1, <1>2, <2>2, <2>3 DEF TimerWord
<1> QED
  BY <1>3, <1>4, SMTT(40)

(* No tick changes nothing; one more tick is one more. *)
LEMMA IncrementMore ==
  ASSUME NEW t \in Timer, NEW ticks \in Nat, NEW u \in Timer,
         u.reload = t.reload, u.counter = Increment(t, ticks).counter
  PROVE  /\ Increment(u, 0) = [counter |-> u.counter, overflows |-> 0]
         /\ Increment(t, ticks + 1).counter = Increment(u, 1).counter
         /\ Increment(t, ticks + 1).overflows = Increment(t, ticks).overflows + Increment(u, 1).overflows
<1> DEFINE past == t.counter + ticks - WRAP
           range == WRAP - t.reload
<1>1. /\ t.counter \in 0..(WRAP - 1) /\ t.reload \in 0..(WRAP - 1) /\ WRAP \in Nat \ {0}
      /\ u.counter \in 0..(WRAP - 1)
  BY TimerAssumption DEF Timer, TimerWord
<1>2. range \in Nat \ {0} /\ WRAP = t.reload + range
  BY <1>1
<1>3. Increment(u, 0) = [counter |-> u.counter, overflows |-> 0]
  BY <1>1 DEF Increment
<1>4. 0 \div range = 0 /\ 0 % range = 0
  <2> HIDE DEF range
  <2>1. range * 0 + 0 = 0 /\ 0 \in 0..(range - 1)
    BY <1>2
  <2> QED
    BY <1>2, <2>1, Quotient
<1>5. CASE t.counter + ticks + 1 < WRAP
  <2>1. u.counter = t.counter + ticks /\ Increment(t, ticks).overflows = 0
    BY <1>1, <1>5 DEF Increment
  <2> QED
    BY <1>1, <1>3, <1>5, <2>1 DEF Increment
<1>6. CASE t.counter + ticks + 1 = WRAP
  <2>1. u.counter = t.counter + ticks /\ Increment(t, ticks).overflows = 0
    BY <1>1, <1>6 DEF Increment
  <2>2. u.counter + 1 - WRAP = 0 /\ t.counter + (ticks + 1) - WRAP = 0 /\ u.counter + 1 = WRAP
        /\ ~(WRAP < WRAP) /\ t.counter + (ticks + 1) = WRAP
    BY <1>1, <1>6, <2>1
  <2>3. /\ Increment(u, 1) = [counter |-> t.reload + (0 % range), overflows |-> 1 + (0 \div range)]
        /\ Increment(t, ticks + 1) = [counter |-> t.reload + (0 % range), overflows |-> 1 + (0 \div range)]
    BY <1>1, <2>2 DEF Increment
  <2> QED
    BY <1>3, <1>4, <2>1, <2>3
<1>7. CASE t.counter + ticks >= WRAP
  <2>1. past \in Nat /\ t.counter + (ticks + 1) - WRAP = past + 1 /\ ~(t.counter + (ticks + 1) < WRAP)
        /\ ~(t.counter + ticks < WRAP)
    BY <1>1, <1>7
  <2>2. /\ Increment(t, ticks) = [counter |-> t.reload + (past % range), overflows |-> 1 + (past \div range)]
        /\ Increment(t, ticks + 1) = [counter |-> t.reload + ((past + 1) % range),
                                      overflows |-> 1 + ((past + 1) \div range)]
    BY <1>1, <2>1 DEF Increment
  <2>3. u.counter = t.reload + (past % range)
    BY <2>2
  <2> HIDE DEF past
  <2>4. past % range \in 0..(range - 1) /\ past \div range \in Nat
    <3> HIDE DEF range
    <3> QED
      BY <1>2, <2>1, Division
  <2>5. CASE (past % range) + 1 < range
    <3>1. (past + 1) \div range = past \div range /\ (past + 1) % range = (past % range) + 1
      <4> HIDE DEF range
      <4> QED
        BY ONLY <1>2, <2>1, <2>5, OneMore
    <3>2. u.counter + 1 < WRAP /\ u.counter + 1 = t.reload + ((past % range) + 1)
      BY <1>1, <1>2, <2>3, <2>4, <2>5
    <3>3. Increment(u, 1) = [counter |-> u.counter + 1, overflows |-> 0]
      BY <3>2 DEF Increment
    <3> QED
      BY <1>3, <2>2, <2>4, <3>1, <3>2, <3>3
  <2>6. CASE (past % range) + 1 = range
    <3>1. (past + 1) \div range = (past \div range) + 1 /\ (past + 1) % range = 0
      <4> HIDE DEF range
      <4> QED
        BY ONLY <1>2, <2>1, <2>6, OneMore
    <3>2. u.counter + 1 = WRAP /\ u.counter + 1 - WRAP = 0 /\ ~(WRAP < WRAP)
      BY <1>1, <1>2, <2>3, <2>4, <2>6
    <3>3. Increment(u, 1) = [counter |-> t.reload + (0 % range), overflows |-> 1 + (0 \div range)]
      BY <1>1, <3>2 DEF Increment
    <3>4. t.reload + 0 = t.reload
      BY <1>1
    <3> QED
      BY <1>3, <1>4, <2>2, <2>4, <3>1, <3>3, <3>4
  <2> QED
    BY <1>2, <2>4, <2>5, <2>6
<1> QED
  BY <1>1, <1>5, <1>6, <1>7

(* A timer after n cycles of its own. *)
Alone(t, n) == Advance(t, FALSE, n, 0)

(* It is a timer with the registers it had. *)
LEMMA AloneType ==
  ASSUME NEW t \in Timer, NEW n \in Nat
  PROVE  /\ Alone(t, n).timer \in Timer /\ Alone(t, n).overflows \in Nat
         /\ Alone(t, n).timer.control = t.control /\ Alone(t, n).timer.reload = t.reload
         /\ Alone(t, n).timer.prescaler_counter = (t.prescaler_counter + n) % t.control.prescaler
         /\ Alone(t, n).timer.prescaler_counter \in 0..(t.control.prescaler - 1)
         /\ (t.prescaler_counter + n) \div t.control.prescaler \in Nat
         /\ Alone(t, n).timer.counter
              = Increment(t, (t.prescaler_counter + n) \div t.control.prescaler).counter
         /\ Alone(t, n).overflows
              = Increment(t, (t.prescaler_counter + n) \div t.control.prescaler).overflows
<1> DEFINE p == t.control.prescaler
           total == t.prescaler_counter + n
           inc == Increment(t, total \div p)
           a == Alone(t, n)
<1>1. p \in Nat \ {0} /\ total \in Nat
  <2>1. t.control \in Control /\ t.prescaler_counter \in Nat
    BY DEF Timer
  <2>2. t.control.prescaler \in Dividers
    BY <2>1 DEF Control
  <2>3. \A d \in Dividers : d \in Nat \ {0}
    BY TimerAssumption
  <2>4. p \in Nat \ {0}
    BY <2>2, <2>3
  <2> QED
    BY <2>1, <2>4
<1>2. a = [timer |-> [t EXCEPT !.counter = inc.counter, !.prescaler_counter = total % p],
           overflows |-> inc.overflows]
  BY DEF Alone, Advance
<1> HIDE DEF p, total
<1>3. total \div p \in Nat /\ total % p \in 0..(p - 1) /\ total % p \in Nat
  <2>1. total \div p \in Nat /\ total % p \in 0..(p - 1)
    BY <1>1, Division
  <2> QED
    BY <1>1, <2>1
<1>4. inc.counter \in TimerWord /\ inc.overflows \in Nat
  BY <1>3, IncrementType
<1> HIDE DEF inc, a
<1>5. a.timer = [t EXCEPT !.counter = inc.counter, !.prescaler_counter = total % p]
      /\ a.overflows = inc.overflows
  BY <1>2
<1>6. /\ a.timer \in Timer /\ a.timer.control = t.control /\ a.timer.reload = t.reload
      /\ a.timer.counter = inc.counter /\ a.timer.prescaler_counter = total % p
  BY <1>3, <1>4, <1>5 DEF Timer
<1> QED
  BY <1>3, <1>4, <1>5, <1>6 DEF a, p, total, inc

(* One more cycle is one more. *)
LEMMA AloneMore ==
  ASSUME NEW t \in Timer, NEW n \in Nat
  PROVE  LET u == Alone(t, n).timer
         IN  /\ Alone(t, n + 1).timer = Alone(u, 1).timer
             /\ Alone(t, n + 1).overflows = Alone(t, n).overflows + Alone(u, 1).overflows
<1> DEFINE p == t.control.prescaler
           total == t.prescaler_counter + n
           q == total \div p
           r == total % p
           u == Alone(t, n).timer
           a == Alone(t, n + 1)
           b == Alone(u, 1)
<1>1. p \in Nat \ {0} /\ total \in Nat /\ t.prescaler_counter + (n + 1) = total + 1
  <2>1. t.control \in Control /\ t.prescaler_counter \in Nat
    BY DEF Timer
  <2>2. t.control.prescaler \in Dividers
    BY <2>1 DEF Control
  <2>3. \A d \in Dividers : d \in Nat \ {0}
    BY TimerAssumption
  <2>4. p \in Nat \ {0}
    BY <2>2, <2>3
  <2> QED
    BY <2>1, <2>4
<1>2. /\ u \in Timer /\ u.control = t.control /\ u.reload = t.reload
      /\ u.prescaler_counter = r /\ r \in 0..(p - 1) /\ q \in Nat
      /\ u.counter = Increment(t, q).counter /\ Alone(t, n).overflows = Increment(t, q).overflows
  BY AloneType
<1>3. /\ Increment(u, 0) = [counter |-> u.counter, overflows |-> 0]
      /\ Increment(t, q + 1).counter = Increment(u, 1).counter
      /\ Increment(t, q + 1).overflows = Increment(t, q).overflows + Increment(u, 1).overflows
      /\ Increment(t, q).overflows \in Nat
  BY <1>2, IncrementMore, IncrementType, SMTT(40)
<1>4. /\ a.timer \in Timer /\ a.timer.control = t.control /\ a.timer.reload = t.reload
      /\ a.timer.prescaler_counter = (total + 1) % p
      /\ a.timer.counter = Increment(t, (total + 1) \div p).counter
      /\ a.overflows = Increment(t, (total + 1) \div p).overflows
  <2>1. n + 1 \in Nat
    OBVIOUS
  <2> QED
    BY <1>1, <2>1, AloneType
<1> HIDE DEF a, u, q, r, p, total
<1>5. /\ b.timer \in Timer /\ b.timer.control = t.control /\ b.timer.reload = t.reload
      /\ b.timer.prescaler_counter = (r + 1) % p
      /\ b.timer.counter = Increment(u, (r + 1) \div p).counter
      /\ b.overflows = Increment(u, (r + 1) \div p).overflows
  <2>1. 1 \in Nat /\ u.control.prescaler = p
    BY <1>2 DEF p
  <2> QED
    BY <1>2, <2>1, AloneType, Zenon
<1> HIDE DEF b
<1>6. /\ a.timer.prescaler_counter = b.timer.prescaler_counter
      /\ a.timer.counter = b.timer.counter
      /\ a.overflows = Increment(t, q).overflows + b.overflows
  <2>1. CASE r + 1 < p
    <3>1. (total + 1) \div p = q /\ (total + 1) % p = r + 1
      BY <1>1, <2>1, OneMore DEF q, r
    <3>2. (r + 1) \div p = 0 /\ (r + 1) % p = r + 1
      <4>1. r + 1 \in 0..(p - 1) /\ r + 1 = p * 0 + (r + 1)
        BY <1>1, <1>2, <2>1
      <4> QED
        BY <1>1, <4>1, Quotient, SMTT(40)
    <3> QED
      BY <1>2, <1>3, <1>4, <1>5, <3>1, <3>2
  <2>2. CASE r + 1 = p
    <3>1. (total + 1) \div p = q + 1 /\ (total + 1) % p = 0
      BY <1>1, <2>2, OneMore DEF q, r
    <3>2. (r + 1) \div p = 1 /\ (r + 1) % p = 0
      <4>1. 0 \in 0..(p - 1) /\ r + 1 = p * 1 + 0
        BY <1>1, <2>2
      <4> QED
        BY <1>1, <4>1, Quotient
    <3> QED
      BY <1>3, <1>4, <1>5, <3>1, <3>2
  <2> QED
    BY <1>1, <1>2, <2>1, <2>2
<1>7. a.timer = b.timer
  BY <1>4, <1>5, <1>6 DEF Timer
<1> QED
  BY <1>2, <1>6, <1>7 DEF a, b, u
-----------------------------------------------------------------------------
(* All timers, none of which cascades: each runs alone. *)
Free(ts) == \A i \in TimerId : ~(i > 0 /\ ts[i].control.cascade)
Batch(ts, n) ==
  [i \in TimerId |-> IF ts[i].control.enabled THEN Alone(ts[i], n) ELSE Still(ts[i])]

(* What is carried from timer to timer plays no part. *)
LEMMA FreeBatch ==
  ASSUME NEW ts, Free(ts), NEW n, NEW carry
  PROVE  AdvanceAll(ts, n, carry) = Batch(ts, n)
<1> DEFINE Body(step) ==
             [i \in TimerId |->
                IF ~ts[i].control.enabled THEN Still(ts[i])
                ELSE Advance(ts[i], i > 0 /\ ts[i].control.cascade, n,
                             IF i = 0 THEN 0 ELSE carry[step[i - 1].overflows])]
<1>1. AdvanceAll(ts, n, carry) = CHOOSE step : step = Body(step)
  BY DEF AdvanceAll
<1>2. \A step : Body(step) = Batch(ts, n)
  <2>1. ASSUME NEW step, NEW i \in TimerId, NEW c
        PROVE  Advance(ts[i], i > 0 /\ ts[i].control.cascade, n, c) = Alone(ts[i], n)
    <3>1. (i > 0 /\ ts[i].control.cascade) = FALSE
      BY DEF Free
    <3> QED
      BY <3>1 DEF Advance, Alone
  <2> QED
    BY <2>1 DEF Batch
<1> HIDE DEF Body
<1>3. \E step : step = Body(step)
  BY <1>2
<1> QED
  BY <1>1, <1>2, <1>3

(* A batch leaves timers that have the registers they had. *)
LEMMA BatchType ==
  ASSUME NEW ts \in [TimerId -> Timer], NEW n \in Nat
  PROVE  /\ TimersAfter(Batch(ts, n)) \in [TimerId -> Timer]
         /\ \A i \in TimerId :
              /\ Batch(ts, n)[i].timer = TimersAfter(Batch(ts, n))[i]
              /\ Batch(ts, n)[i].timer.control = ts[i].control
              /\ Batch(ts, n)[i].overflows \in Nat
<1>1. ASSUME NEW i \in TimerId
      PROVE  /\ Batch(ts, n)[i].timer \in Timer
             /\ Batch(ts, n)[i].timer.control = ts[i].control
             /\ Batch(ts, n)[i].overflows \in Nat
  <2>1. CASE ts[i].control.enabled
    BY <2>1, AloneType DEF Batch
  <2>2. CASE ~ts[i].control.enabled
    BY <2>2 DEF Batch, Still
  <2> QED
    BY <2>1, <2>2
<1> QED
  BY <1>1 DEF TimersAfter

(* One more cycle for each of them. *)
LEMMA BatchMore ==
  ASSUME NEW ts \in [TimerId -> Timer], NEW n \in Nat
  PROVE  LET us == TimersAfter(Batch(ts, n))
         IN  /\ TimersAfter(Batch(ts, n + 1)) = TimersAfter(Batch(us, 1))
             /\ \A i \in TimerId :
                  Batch(ts, n + 1)[i].overflows = Batch(ts, n)[i].overflows + Batch(us, 1)[i].overflows
<1> DEFINE us == TimersAfter(Batch(ts, n))
<1>1. ASSUME NEW i \in TimerId
      PROVE  /\ Batch(ts, n + 1)[i].timer = Batch(us, 1)[i].timer
             /\ Batch(ts, n + 1)[i].overflows = Batch(ts, n)[i].overflows + Batch(us, 1)[i].overflows
  <2>1. us[i] = Batch(ts, n)[i].timer /\ us[i].control = ts[i].control
    BY BatchType
  <2>2. CASE ts[i].control.enabled
    <3>1. us[i] = Alone(ts[i], n).timer /\ Batch(ts, n)[i] = Alone(ts[i], n)
      BY <2>1, <2>2 DEF Batch
    <3>2. Batch(ts, n + 1)[i] = Alone(ts[i], n + 1)
      BY <2>2 DEF Batch
    <3> HIDE DEF us
    <3>3. Batch(us, 1)[i] = Alone(us[i], 1)
      BY <2>1, <2>2 DEF Batch
    <3> QED
      BY <3>1, <3>2, <3>3, AloneMore
  <2>3. CASE ~ts[i].control.enabled
    <3>1. us[i] = ts[i] /\ Batch(ts, n)[i] = Still(ts[i])
      BY <2>1, <2>3 DEF Batch, Still
    <3>2. Batch(ts, n + 1)[i] = Still(ts[i])
      BY <2>3 DEF Batch
    <3> HIDE DEF us
    <3>3. Batch(us, 1)[i] = Still(ts[i])
      BY <2>1, <2>3, <3>1 DEF Batch
    <3> QED
      BY <3>1, <3>2, <3>3 DEF Still
  <2> QED
    BY <2>2, <2>3
<1> QED
  BY <1>1 DEF TimersAfter

(* Timers that do not cascade go on not to. *)
LEMMA BatchFree ==
  ASSUME NEW ts \in [TimerId -> Timer], Free(ts), NEW n \in Nat
  PROVE  Free(TimersAfter(Batch(ts, n)))
  BY BatchType DEF Free

(* What single cycles have done after n of them. *)
Cycles(ts, n) ==
  IF n = 0 THEN [ts |-> ts, raised |-> {}, pops |-> [i \in TimerId |-> 0]]
  ELSE [ts |-> TimersAfter(Batch(ts, n)), raised |-> IrqsOf(Batch(ts, n)),
        pops |-> [i \in TimerId |-> Batch(ts, n)[i].overflows]]

(* One more of them. *)
CycleAfter(before) ==
  LET r == AdvanceAll(before.ts, 1, CarryCount)
  IN  [ts |-> TimersAfter(r), raised |-> before.raised \cup IrqsOf(r),
       pops |-> [i \in TimerId |-> before.pops[i] + r[i].overflows]]

LEMMA CyclesMore ==
  ASSUME NEW ts \in [TimerId -> Timer], Free(ts), NEW n \in Nat
  PROVE  Cycles(ts, n + 1) = CycleAfter(Cycles(ts, n))
<1>1. CASE n = 0
  <2> DEFINE r == Batch(ts, 1)
  <2>1. AdvanceAll(ts, 1, CarryCount) = r
    BY FreeBatch
  <2>2. \A i \in TimerId : r[i].overflows \in Nat
    BY BatchType
  <2>3. Cycles(ts, 0) = [ts |-> ts, raised |-> {}, pops |-> [i \in TimerId |-> 0]]
    BY DEF Cycles
  <2>4. Cycles(ts, 1) = [ts |-> TimersAfter(r), raised |-> IrqsOf(r),
                         pops |-> [i \in TimerId |-> r[i].overflows]]
    BY DEF Cycles
  <2> HIDE DEF r
  <2> DEFINE z == Cycles(ts, 0)
  <2>5. z.ts = ts /\ z.raised = {} /\ \A i \in TimerId : z.pops[i] = 0
    BY <2>3
  <2> HIDE DEF z
  <2>6. CycleAfter(z) = [ts |-> TimersAfter(r), raised |-> z.raised \cup IrqsOf(r),
                         pops |-> [i \in TimerId |-> z.pops[i] + r[i].overflows]]
    BY <2>1, <2>5 DEF CycleAfter
  <2>7. [i \in TimerId |-> z.pops[i] + r[i].overflows] = [i \in TimerId |-> r[i].overflows]
    BY <2>2, <2>5
  <2>8. z.raised \cup IrqsOf(r) = IrqsOf(r)
    BY <2>5
  <2>9. Cycles(ts, 1) = CycleAfter(z)
    BY <2>4, <2>6, <2>7, <2>8
  <2>10. Cycles(ts, 1) = CycleAfter(Cycles(ts, 0))
    BY <2>9 DEF z
  <2>11. n = 0 /\ n + 1 = 1
    BY <1>1
  <2> QED
    BY ONLY <2>10, <2>11
<1>2. CASE n # 0
  <2> DEFINE b == Batch(ts, n)
             us == TimersAfter(b)
             r == Batch(us, 1)
             c == Batch(ts, n + 1)
  <2>1. us \in [TimerId -> Timer] /\ Free(us)
    BY BatchType, BatchFree
  <2>2. AdvanceAll(us, 1, CarryCount) = r
    BY <2>1, FreeBatch
  <2>3. TimersAfter(c) = TimersAfter(r)
    BY BatchMore
  <2>4. \A i \in TimerId : /\ c[i].overflows = b[i].overflows + r[i].overflows
                           /\ b[i].overflows \in Nat /\ r[i].overflows \in Nat
                           /\ b[i].timer.control = ts[i].control
                           /\ r[i].timer.control = ts[i].control
                           /\ c[i].timer.control = ts[i].control
    <3>1. \A i \in TimerId : c[i].overflows = b[i].overflows + r[i].overflows
      BY BatchMore
    <3>2. \A i \in TimerId : us[i].control = ts[i].control /\ b[i].overflows \in Nat
                             /\ b[i].timer.control = ts[i].control
      BY BatchType
    <3>3. \A i \in TimerId : r[i].overflows \in Nat /\ r[i].timer.control = us[i].control
      <4> HIDE DEF us
      <4> QED
        BY <2>1, BatchType
    <3>4. n + 1 \in Nat
      OBVIOUS
    <3>5. \A i \in TimerId : c[i].timer.control = ts[i].control
      BY <3>4, BatchType
    <3> QED
      BY <3>1, <3>2, <3>3, <3>5
  <2>5. Cycles(ts, n) = [ts |-> us, raised |-> IrqsOf(b), pops |-> [i \in TimerId |-> b[i].overflows]]
    BY <1>2 DEF Cycles
  <2>6. Cycles(ts, n + 1) = [ts |-> TimersAfter(c), raised |-> IrqsOf(c),
                             pops |-> [i \in TimerId |-> c[i].overflows]]
    BY DEF Cycles
  <2> HIDE DEF b, us, r, c
  <2>7. IrqsOf(c) = IrqsOf(b) \cup IrqsOf(r)
    BY <2>4 DEF IrqsOf, Overflowed
  <2> DEFINE z == Cycles(ts, n)
  <2>8. z.ts = us /\ z.raised = IrqsOf(b) /\ \A i \in TimerId : z.pops[i] = b[i].overflows
    BY <2>5
  <2> HIDE DEF z
  <2>9. CycleAfter(z) = [ts |-> TimersAfter(r), raised |-> z.raised \cup IrqsOf(r),
                         pops |-> [i \in TimerId |-> z.pops[i] + r[i].overflows]]
    BY <2>2, <2>8 DEF CycleAfter
  <2>10. [i \in TimerId |-> z.pops[i] + r[i].overflows] = [i \in TimerId |-> c[i].overflows]
    BY <2>4, <2>8
  <2> QED
    BY <2>3, <2>6, <2>7, <2>8, <2>9, <2>10 DEF z
<1> QED
  BY <1>1, <1>2

(* The hardware's cycles, one by one, are a batch.  HwRun is what its      *)
(* equation makes of it: Cycles solves the equation, and by induction      *)
(* nothing else does.                                                      *)
LEMMA HwRunIsBatch ==
  ASSUME NEW ts \in [TimerId -> Timer], Free(ts), NEW n \in Nat
  PROVE  HwRun(ts, n) = Cycles(ts, n)
<1> DEFINE First == [ts |-> ts, raised |-> {}, pops |-> [i \in TimerId |-> 0]]
           Body(run) == [k \in 0..n |-> IF k = 0 THEN First ELSE CycleAfter(run[k - 1])]
           solution == [k \in 0..n |-> Cycles(ts, k)]
<1>1. HwRun(ts, n) = (CHOOSE run : run = Body(run))[n]
  BY DEF HwRun, CycleAfter
<1>2. \A k \in 1..n : Cycles(ts, k) = CycleAfter(Cycles(ts, k - 1))
  <2>1. ASSUME NEW k \in 1..n PROVE Cycles(ts, k) = CycleAfter(Cycles(ts, k - 1))
    <3>1. k - 1 \in Nat /\ (k - 1) + 1 = k
      OBVIOUS
    <3> QED
      BY <3>1, CyclesMore
  <2> QED
    BY <2>1
<1>3. Cycles(ts, 0) = First
  BY DEF Cycles
<1>4. solution = Body(solution)
  <2>1. ASSUME NEW k \in 0..n
        PROVE  Cycles(ts, k) = IF k = 0 THEN First ELSE CycleAfter(solution[k - 1])
    <3>1. CASE k = 0
      BY <1>3, <3>1
    <3>2. CASE k # 0
      <4>1. k \in 1..n /\ k - 1 \in 0..n
        BY <3>2
      <4>2. solution[k - 1] = Cycles(ts, k - 1)
        BY <4>1
      <4> QED
        BY <1>2, <3>2, <4>1, <4>2
    <3> QED
      BY <3>1, <3>2
  <2> QED
    BY <2>1
<1> HIDE DEF First
<1>5. ASSUME NEW run, run = Body(run) PROVE run[n] = Cycles(ts, n)
  <2> DEFINE S == {k \in 0..n : run[k] = Cycles(ts, k)}
  <2>1. \A k \in 0..n : run[k] = IF k = 0 THEN First ELSE CycleAfter(run[k - 1])
    BY <1>5
  <2>2. 0 \in S
    BY <1>3, <2>1
  <2>3. ASSUME NEW k \in 0..(n - 1), k \in S PROVE k + 1 \in S
    <3>1. k + 1 \in 1..n /\ k + 1 \in 0..n /\ (k + 1) - 1 = k /\ k + 1 # 0
      OBVIOUS
    <3>2. run[k + 1] = CycleAfter(run[k])
      BY <2>1, <3>1
    <3>3. run[k] = Cycles(ts, k)
      BY <2>3
    <3>4. Cycles(ts, k + 1) = CycleAfter(Cycles(ts, k))
      BY <1>2, <3>1
    <3> QED
      BY <3>1, <3>2, <3>3, <3>4
  <2> HIDE DEF S
  <2>4. n \in S
    BY <2>2, <2>3, InductionTo
  <2> QED
    BY <2>4 DEF S
<1> HIDE DEF Body
<1>6. \E run : run = Body(run)
  BY <1>4
<1> QED
  BY <1>1, <1>5, <1>6
-----------------------------------------------------------------------------
(* The guest runs no timer as a cascade. *)
Uncascaded == \A c \in Controls : ~c.cascade

(* The DMA of an event leaves the control registers alone. *)
OnlyReloads == \A w \in DmaWrites : w.to # "control"

(* The invariant behind BatchExact: the batched timers are the hardware's, *)
(* and none of them cascades.                                              *)
TimersInv ==
  /\ timers \in [TimerId -> Timer] /\ Free(timers)
  /\ hw = timers /\ hwRaised = raised
  /\ left \in Nat

(* What a batch and the hardware's cycles are, for timers that run alone. *)
LEMMA TickIsBatch ==
  ASSUME NEW ts \in [TimerId -> Timer], Free(ts), NEW n \in Nat \ {0}
  PROVE  /\ Tick(ts, n) = Batch(ts, n)
         /\ HwRun(ts, n).ts = TimersAfter(Batch(ts, n))
         /\ HwRun(ts, n).raised = IrqsOf(Batch(ts, n))
         /\ HwRun(ts, n).pops = [i \in TimerId |-> Batch(ts, n)[i].overflows]
<1>1. Tick(ts, n) = Batch(ts, n)
  BY FreeBatch DEF Tick
<1>2. HwRun(ts, n) = Cycles(ts, n)
  BY HwRunIsBatch
<1>3. Cycles(ts, n) = [ts |-> TimersAfter(Batch(ts, n)), raised |-> IrqsOf(Batch(ts, n)),
                       pops |-> [i \in TimerId |-> Batch(ts, n)[i].overflows]]
  BY DEF Cycles
<1> QED
  BY <1>1, <1>2, <1>3

(* A write leaves timers, none of which cascades. *)
LEMMA ApplyType ==
  ASSUME NEW ts \in [TimerId -> Timer], Free(ts), Uncascaded, NEW w \in Writes
  PROVE  Apply(ts, w) \in [TimerId -> Timer] /\ Free(Apply(ts, w))
<1>1. CASE w.to = "none"
  BY <1>1 DEF Apply
<1>2. CASE w.to = "reload"
  <2>1. w.id \in TimerId /\ w.value \in TimerWord
    BY <1>2, LoopAssumption DEF Writes
  <2>2. Apply(ts, w) = [ts EXCEPT ![w.id] = WithReload(@, w.value)]
    BY <1>2 DEF Apply
  <2>3. /\ WithReload(ts[w.id], w.value) \in Timer
        /\ WithReload(ts[w.id], w.value).control = ts[w.id].control
    BY <2>1 DEF WithReload, Timer
  <2> QED
    BY <2>1, <2>2, <2>3 DEF Free
<1>3. CASE w.to = "control"
  <2>1. w.id \in TimerId /\ w.value \in Control /\ ~w.value.cascade
    BY <1>3, LoopAssumption DEF Writes, Uncascaded
  <2>2. Apply(ts, w) = [ts EXCEPT ![w.id] = WithTimerControl(@, w.value)]
    BY <1>3 DEF Apply
  <2>3. /\ WithTimerControl(ts[w.id], w.value) \in Timer
        /\ WithTimerControl(ts[w.id], w.value).control = w.value
    BY <2>1 DEF WithTimerControl, Timer
  <2> QED
    BY <2>1, <2>2, <2>3 DEF Free
<1> QED
  BY <1>1, <1>2, <1>3 DEF Writes

(* Ticking both copies keeps them equal. *)
LEMMA TickKeeps ==
  ASSUME NEW ts \in [TimerId -> Timer], Free(ts), NEW n \in Nat \ {0},
         TickTimers(ts, ts, n), left' \in Nat
  PROVE  TimersInv'
<1>1. /\ timers' = TimersAfter(Batch(ts, n)) /\ raised' = IrqsOf(Batch(ts, n))
      /\ hw' = TimersAfter(Batch(ts, n)) /\ hwRaised' = IrqsOf(Batch(ts, n))
  BY TickIsBatch DEF TickTimers
<1>2. TimersAfter(Batch(ts, n)) \in [TimerId -> Timer] /\ Free(TimersAfter(Batch(ts, n)))
  BY BatchType, BatchFree
<1> QED
  BY <1>1, <1>2 DEF TimersInv

(* A chunk is at least a cycle long and no longer than the sleep. *)
LEMMA ChunkBounds ==
  ASSUME NEW l \in Nat \ {0}, left = l,
         CyclesToNextFifoOverflow(timers) \in Nat
  PROVE  /\ Chunk \in Nat \ {0} /\ Chunk <= l
         /\ Chunk <= CyclesToNextFifoOverflow(timers) \/ Chunk = 1
<1> DEFINE next == CyclesToNextFifoOverflow(timers)
<1>1. CHUNK_CAP \in Nat \ {0} /\ next \in Nat
  BY LoopAssumption
<1> HIDE DEF next
<1>2. Chunk = Least(Greatest(Least(l, next), 1), CHUNK_CAP)
  BY DEF Chunk, next
<1>3. /\ Least(Greatest(Least(l, next), 1), CHUNK_CAP) \in Nat \ {0}
      /\ Least(Greatest(Least(l, next), 1), CHUNK_CAP) <= l
      /\ Least(Greatest(Least(l, next), 1), CHUNK_CAP) <= next
           \/ Least(Greatest(Least(l, next), 1), CHUNK_CAP) = 1
  BY <1>1 DEF Least, Greatest
<1> QED
  BY <1>2, <1>3 DEF next
-----------------------------------------------------------------------------
(* The prediction. *)

(* What the prescaler has accumulated is less than a tick. *)
Settled(ts) ==
  \A i \in TimerId : ts[i].control.enabled => ts[i].prescaler_counter < ts[i].control.prescaler

(* A running timer first overflows in the cycle foretold, and once. *)
LEMMA Foretold ==
  ASSUME NEW t \in Timer, t.prescaler_counter < t.control.prescaler
  PROVE  /\ CyclesToOverflow(t) \in 1..(U32 - 1)
         /\ \A n \in Nat : Alone(t, n).overflows > 0 <=> n >= CyclesToOverflow(t)
         /\ Alone(t, CyclesToOverflow(t)).overflows = 1
<1> DEFINE p == t.control.prescaler
           pc == t.prescaler_counter
           g == WRAP - t.counter - 1
           k == (p - pc) + g * p
<1>1. /\ p \in Nat \ {0} /\ WRAP * p < U32 /\ U32 \in Nat
      /\ pc \in Nat /\ pc < p
  <2>1. t.control \in Control /\ t.prescaler_counter \in Nat
    BY DEF Timer
  <2>2. t.control.prescaler \in Dividers
    BY <2>1 DEF Control
  <2>3. \A d \in Dividers : d \in Nat \ {0} /\ WRAP * d < U32
    BY TimerAssumption
  <2>4. p \in Nat \ {0} /\ WRAP * p < U32
    BY <2>2, <2>3
  <2> QED
    BY <2>1, <2>4, TimerAssumption
<1>2. /\ g \in Nat /\ g + 1 <= WRAP /\ WRAP \in Nat \ {0}
      /\ t.counter \in Nat /\ t.counter + g + 1 = WRAP /\ t.reload \in 0..(WRAP - 1)
  <2>1. t.counter \in 0..(WRAP - 1) /\ WRAP \in Nat \ {0} /\ t.reload \in 0..(WRAP - 1)
    BY TimerAssumption DEF Timer, TimerWord
  <2> QED
    BY <2>1
<1>3. CyclesToOverflow(t) = k % U32
  BY DEF CyclesToOverflow
<1> HIDE DEF p, pc, g
<1>4. g * p \in Nat /\ (g + 1) * p = g * p + p /\ (g + 1) * p <= WRAP * p /\ WRAP * p \in Nat
  <2>1. g * p \in Nat /\ (g + 1) * p = g * p + p /\ WRAP * p \in Nat /\ g + 1 \in Nat
    BY <1>1, <1>2
  <2> QED
    BY <1>1, <1>2, <2>1, ProductMonotonic
<1>5. k \in 1..(U32 - 1) /\ pc + k = (g + 1) * p
  BY <1>1, <1>4
<1> HIDE DEF k
<1>6. k % U32 = k
  BY <1>1, <1>5
<1>7. ASSUME NEW n \in Nat
      PROVE  /\ (pc + n) \div p \in Nat
             /\ Alone(t, n).overflows = Increment(t, (pc + n) \div p).overflows
  BY AloneType DEF p, pc
<1>8. ASSUME NEW n \in Nat PROVE Alone(t, n).overflows > 0 <=> n >= k
  <2> DEFINE q == (pc + n) \div p
  <2>1. q \in Nat /\ Alone(t, n).overflows = Increment(t, q).overflows
    BY <1>7
  <2>2. q >= g + 1 <=> pc + n >= (g + 1) * p
    <3>1. pc + n \in Nat /\ g + 1 \in Nat
      BY <1>1, <1>2
    <3> QED
      BY <1>1, <3>1, QuotientReaches
  <2> HIDE DEF q
  <2>3. pc + n >= (g + 1) * p <=> n >= k
    BY <1>1, <1>5
  <2>4. Increment(t, q).overflows > 0 <=> q >= g + 1
    <3>1. CASE q >= g + 1
      <4> DEFINE left0 == t.counter + q - WRAP
                 range == WRAP - t.reload
      <4>1. ~(t.counter + q < WRAP) /\ left0 \in Nat /\ range \in Nat \ {0}
        BY <1>2, <2>1, <3>1
      <4>2. Increment(t, q) = [counter |-> t.reload + (left0 % range),
                               overflows |-> 1 + (left0 \div range)]
        BY <1>2, <2>1, <4>1 DEF Increment
      <4> HIDE DEF left0, range
      <4>3. left0 \div range \in Nat
        BY <4>1, Division
      <4> QED
        BY <3>1, <4>2, <4>3
    <3>2. CASE ~(q >= g + 1)
      <4>1. t.counter + q < WRAP
        BY <1>2, <2>1, <3>2
      <4> QED
        BY <3>2, <4>1 DEF Increment
    <3> QED
      BY <3>1, <3>2
  <2> QED
    BY <2>1, <2>2, <2>3, <2>4
<1>9. Alone(t, k).overflows = 1
  <2>1. k \in Nat
    BY <1>5
  <2>2. (pc + k) \div p = g + 1
    <3>1. g + 1 \in Nat /\ 0 \in 0..(p - 1) /\ pc + k = p * (g + 1) + 0
      BY <1>1, <1>2, <1>4, <1>5
    <3> DEFINE e == g + 1
    <3>2. e \in Nat /\ pc + k = p * e + 0
      BY <3>1
    <3> HIDE DEF e
    <3>3. (p * e + 0) \div p = e
      BY <1>1, <3>1, <3>2, Quotient
    <3> QED
      BY <3>2, <3>3 DEF e
  <2>3. Alone(t, k).overflows = Increment(t, g + 1).overflows
    BY <1>7, <2>1, <2>2
  <2>4. ~(t.counter + (g + 1) < WRAP) /\ t.counter + (g + 1) - WRAP = 0
    BY <1>2
  <2>5. Increment(t, g + 1) = [counter |-> t.reload + (0 % (WRAP - t.reload)),
                               overflows |-> 1 + (0 \div (WRAP - t.reload))]
    BY <1>2, <2>4 DEF Increment
  <2>6. 0 \div (WRAP - t.reload) = 0
    <3> DEFINE range == WRAP - t.reload
    <3>1. range \in Nat \ {0}
      BY <1>2
    <3> HIDE DEF range
    <3>2. range * 0 + 0 = 0 /\ 0 \in 0..(range - 1)
      BY <3>1
    <3>3. 0 \div range = 0
      BY <3>1, <3>2, Quotient
    <3> QED
      BY <3>3 DEF range
  <2> QED
    BY <2>3, <2>5, <2>6
<1> QED
  BY <1>3, <1>5, <1>6, <1>8, <1>9
(* A cycle count fits 32 bits. *)
LEMMA CyclesType ==
  ASSUME NEW t \in Timer
  PROVE  CyclesToOverflow(t) \in 0..(U32 - 1)
<1> DEFINE p == t.control.prescaler
           k == (p - t.prescaler_counter) + (WRAP - t.counter - 1) * p
<1>1. t.control.prescaler \in Dividers /\ t.prescaler_counter \in Nat /\ t.counter \in TimerWord
  BY DEF Timer, Control
<1>2. \A d \in Dividers : d \in Nat
  BY TimerAssumption
<1>3. p \in Nat /\ t.prescaler_counter \in Nat /\ t.counter \in Nat /\ WRAP \in Nat
      /\ U32 \in Nat \ {0}
  <2>1. WRAP \in Nat \ {0} /\ U32 \in Nat \ {0}
    BY TimerAssumption
  <2>2. t.counter \in 0..(WRAP - 1)
    BY <1>1 DEF TimerWord
  <2>3. p \in Nat
    BY <1>1, <1>2
  <2> QED
    BY <1>1, <2>1, <2>2, <2>3
<1>4. CyclesToOverflow(t) = k % U32
  BY DEF CyclesToOverflow
<1> HIDE DEF p
<1>5. k \in Int
  BY <1>3
<1> HIDE DEF k
<1> QED
  BY <1>3, <1>4, <1>5

(* With none of the two FIFO timers running the span is the largest number,*)
(* else it is the least of theirs.                                         *)
LEMMA NextOverflow ==
  ASSUME NEW ts \in [TimerId -> Timer]
  PROVE  LET next == CyclesToNextFifoOverflow(ts)
         IN  /\ next \in Nat
             /\ \A i \in Clocking(ts) : next <= CyclesToOverflow(ts[i])
             /\ Clocking(ts) # {} => \E i \in Clocking(ts) : next = CyclesToOverflow(ts[i])
<1> DEFINE next == CyclesToNextFifoOverflow(ts)
           times == {CyclesToOverflow(ts[i]) : i \in Clocking(ts)} \cup {U32 - 1}
<1>1. \A i \in Clocking(ts) : i \in TimerId /\ i \in {0, 1}
                              /\ CyclesToOverflow(ts[i]) \in 0..(U32 - 1)
  <2>1. ASSUME NEW i \in Clocking(ts)
        PROVE  i \in TimerId /\ i \in {0, 1} /\ CyclesToOverflow(ts[i]) \in 0..(U32 - 1)
    <3>1. i \in TimerId /\ i < 2 /\ ts[i].control.enabled
      BY DEF Clocking, FifoTimers
    <3>2. i \in {0, 1}
      BY <3>1, TimerAssumption DEF TimerId
    <3> QED
      BY <3>1, <3>2, CyclesType
  <2> QED
    BY <2>1
<1>2. U32 - 1 \in Nat
  BY TimerAssumption
<1>3. \E c \in times : \A d \in times : c <= d
  <2> DEFINE time(i) == CyclesToOverflow(ts[i])
  <2>1. \A i \in Clocking(ts) : i \in {0, 1} /\ time(i) \in 0..(U32 - 1)
    BY <1>1
  <2>2. times = {time(i) : i \in Clocking(ts)} \cup {U32 - 1}
    OBVIOUS
  <2> HIDE DEF time, times
  <2>3. CASE Clocking(ts) = {}
    BY <1>2, <2>2, <2>3
  <2>4. CASE 0 \in Clocking(ts) /\ 1 \notin Clocking(ts)
    <3>1. time(0) \in times /\ \A d \in times : time(0) <= d
      BY <1>2, <2>1, <2>2, <2>4
    <3> QED
      BY <3>1
  <2>5. CASE 0 \notin Clocking(ts) /\ 1 \in Clocking(ts)
    <3>1. time(1) \in times /\ \A d \in times : time(1) <= d
      BY <1>2, <2>1, <2>2, <2>5
    <3> QED
      BY <3>1
  <2>6. CASE 0 \in Clocking(ts) /\ 1 \in Clocking(ts)
    <3>1. CASE time(0) <= time(1)
      <4>1. time(0) \in times /\ \A d \in times : time(0) <= d
        BY <1>2, <2>1, <2>2, <2>6, <3>1
      <4> QED
        BY <4>1
    <3>2. CASE time(1) <= time(0)
      <4>1. time(1) \in times /\ \A d \in times : time(1) <= d
        BY <1>2, <2>1, <2>2, <2>6, <3>2
      <4> QED
        BY <4>1
    <3> QED
      BY <2>1, <2>6, <3>1, <3>2
  <2> QED
    BY <2>1, <2>3, <2>4, <2>5, <2>6
<1>4. next = CHOOSE c \in times : \A d \in times : c <= d
  BY DEF CyclesToNextFifoOverflow
<1> HIDE DEF next
<1>5. next \in times /\ \A d \in times : next <= d
  <2> HIDE DEF times
  <2> QED
    BY <1>3, <1>4
<1>6. next \in Nat /\ \A i \in Clocking(ts) : next <= CyclesToOverflow(ts[i])
  BY <1>1, <1>2, <1>5
<1>7. ASSUME Clocking(ts) # {} PROVE \E i \in Clocking(ts) : next = CyclesToOverflow(ts[i])
  <2>1. CASE next = U32 - 1
    <3>1. PICK i \in Clocking(ts) : TRUE
      BY <1>7
    <3>2. next <= CyclesToOverflow(ts[i]) /\ CyclesToOverflow(ts[i]) \in 0..(U32 - 1)
      BY <1>1, <1>6
    <3> QED
      BY <1>2, <2>1, <3>2
  <2>2. CASE next # U32 - 1
    BY <1>5, <2>2
  <2> QED
    BY <2>1, <2>2
<1> QED
  BY <1>6, <1>7 DEF next

(* A batch leaves less than a tick in the prescalers. *)
LEMMA BatchSettled ==
  ASSUME NEW ts \in [TimerId -> Timer], NEW n \in Nat
  PROVE  Settled(TimersAfter(Batch(ts, n)))
<1> DEFINE us == TimersAfter(Batch(ts, n))
<1>1. ASSUME NEW i \in TimerId, us[i].control.enabled
      PROVE  us[i].prescaler_counter < us[i].control.prescaler
  <2>1. us[i] = Batch(ts, n)[i].timer /\ us[i].control = ts[i].control
    BY BatchType
  <2>2. us[i] = Alone(ts[i], n).timer
    BY <1>1, <2>1 DEF Batch
  <2>3. us[i].prescaler_counter \in 0..(ts[i].control.prescaler - 1)
    BY <2>2, AloneType
  <2>4. ts[i].control.prescaler \in Dividers
    BY DEF Timer, Control
  <2>5. \A d \in Dividers : d \in Nat \ {0}
    BY TimerAssumption
  <2>6. ts[i].control.prescaler \in Nat
    BY <2>4, <2>5
  <2> HIDE DEF us
  <2> QED
    BY <2>1, <2>3, <2>6
<1> QED
  BY <1>1 DEF Settled

(* In a batch of n cycles, a FIFO timer that runs overflows as it would    *)
(* alone, and one that does not run does not.                              *)
LEMMA PopsOf ==
  ASSUME NEW ts \in [TimerId -> Timer], Free(ts), NEW n \in Nat \ {0}, NEW i \in FifoTimers
  PROVE  /\ i \in Clocking(ts) <=> ts[i].control.enabled
         /\ i \in Clocking(ts) => Batch(ts, n)[i].overflows = Alone(ts[i], n).overflows
         /\ i \notin Clocking(ts) => Batch(ts, n)[i].overflows = 0
<1>1. i \in TimerId
  BY DEF FifoTimers
<1>2. i \in Clocking(ts) <=> ts[i].control.enabled
  BY <1>1 DEF Clocking, Free
<1> QED
  BY <1>1, <1>2 DEF Batch, Still
-----------------------------------------------------------------------------
(* The steps. *)

LEMMA TimersStart == Init => TimersInv /\ Settled(timers)
<1> SUFFICES ASSUME Init PROVE TimersInv /\ Settled(timers)
  OBVIOUS
<1>1. PICK p \in Dividers : timers = [i \in TimerId |-> TimerOff(p)]
  BY DEF Init
<1>2. TimerOff(p) \in Timer /\ TimerOff(p).control.cascade = FALSE
      /\ TimerOff(p).control.enabled = FALSE
  <2>1. 0 \in TimerWord
    BY TimerAssumption DEF TimerWord
  <2> QED
    BY <2>1 DEF TimerOff, Timer, Control
<1>3. timers \in [TimerId -> Timer] /\ Free(timers) /\ Settled(timers)
  BY <1>1, <1>2 DEF Free, Settled
<1> QED
  BY <1>3 DEF Init, TimersInv

LEMMA TimersStep == Uncascaded /\ TimersInv /\ [Next]_vars => TimersInv'
<1> SUFFICES ASSUME Uncascaded, TimersInv, [Next]_vars PROVE TimersInv'
  OBVIOUS
<1>0. timers \in [TimerId -> Timer] /\ Free(timers) /\ hw = timers /\ hwRaised = raised
      /\ left \in Nat
  BY DEF TimersInv
<1>1. CASE Instruction
  <2>1. PICK w \in Writes, c \in 1..MaxCost : TickTimers(Apply(timers, w), Apply(hw, w), c)
    BY <1>1 DEF Instruction
  <2>2. Apply(timers, w) \in [TimerId -> Timer] /\ Free(Apply(timers, w))
    BY <1>0, ApplyType
  <2>3. c \in Nat \ {0} /\ left' \in Nat
    BY <1>0, <1>1, LoopAssumption DEF Instruction
  <2> DEFINE ts == Apply(timers, w)
  <2>4. ts \in [TimerId -> Timer] /\ Free(ts) /\ TickTimers(ts, ts, c)
    BY <1>0, <2>1, <2>2
  <2> HIDE DEF ts
  <2> QED
    BY <2>3, <2>4, TickKeeps
<1>2. CASE Sleep
  BY <1>0, <1>2, LoopAssumption DEF Sleep, TimersInv
<1>3. CASE HaltChunk
  <2>1. TickTimers(timers, timers, Chunk) /\ left \in Nat \ {0} /\ left' = left - Chunk
    BY <1>0, <1>3 DEF HaltChunk
  <2>2. CyclesToNextFifoOverflow(timers) \in Nat
    BY <1>0, NextOverflow
  <2>3. Chunk \in Nat \ {0} /\ Chunk <= left
    BY <2>1, <2>2, ChunkBounds
  <2> DEFINE c == Chunk
  <2>4. c \in Nat \ {0} /\ left' \in Nat /\ TickTimers(timers, timers, c)
    BY <2>1, <2>3
  <2> HIDE DEF c
  <2> QED
    BY <1>0, <2>4, TickKeeps
<1>4. CASE DmaWrite
  <2>1. PICK w \in DmaWrites : timers' = Apply(timers, w) /\ hw' = Apply(hw, w)
    BY <1>4 DEF DmaWrite
  <2>2. w \in Writes
    BY DmaWritesAssumption
  <2>3. Apply(timers, w) \in [TimerId -> Timer] /\ Free(Apply(timers, w))
    BY <1>0, <2>2, ApplyType
  <2> QED
    BY <1>0, <1>4, <2>1, <2>3 DEF DmaWrite, TimersInv
<1>5. CASE UNCHANGED vars
  BY <1>0, <1>5 DEF vars, TimersInv
<1> QED
  BY <1>1, <1>2, <1>3, <1>4, <1>5 DEF Next

(* However the cycles are cut into batches, the timers and the interrupts  *)
(* they request are those of hardware that advances cycle by cycle         *)
(* (Timers::tick).                                                         *)
THEOREM BatchesAreCycles ==
  ASSUME Uncascaded
  PROVE  Spec => []BatchExact
<1>1. Init => TimersInv
  BY TimersStart
<1>2. TimersInv /\ [Next]_vars => TimersInv'
  BY TimersStep
<1>3. TimersInv => BatchExact
  BY DEF TimersInv, BatchExact
<1> QED
  BY <1>1, <1>2, <1>3, PTL DEF Spec
(* The prescalers stay settled, as long as only reloads reach the timers   *)
(* between two ticks.                                                      *)
LEMMA SettledNext == Uncascaded /\ OnlyReloads /\ TimersInv /\ Settled(timers) /\ [Next]_vars => Settled(timers')
<1> SUFFICES ASSUME Uncascaded, OnlyReloads, TimersInv, Settled(timers), [Next]_vars
             PROVE  Settled(timers')
  OBVIOUS
<1>0. timers \in [TimerId -> Timer] /\ Free(timers) /\ hw = timers /\ left \in Nat
  BY DEF TimersInv
<1>1. ASSUME NEW ts \in [TimerId -> Timer], Free(ts), NEW c \in Nat \ {0}, TickTimers(ts, ts, c)
      PROVE  Settled(timers')
  <2>1. timers' = TimersAfter(Batch(ts, c))
    BY <1>1, TickIsBatch DEF TickTimers
  <2> QED
    BY <2>1, BatchSettled
<1>2. CASE Instruction
  <2>1. PICK w \in Writes, c \in 1..MaxCost : TickTimers(Apply(timers, w), Apply(hw, w), c)
    BY <1>2 DEF Instruction
  <2>2. Apply(timers, w) \in [TimerId -> Timer] /\ Free(Apply(timers, w))
    BY <1>0, ApplyType
  <2>3. c \in Nat \ {0}
    BY LoopAssumption
  <2> QED
    BY <1>0, <1>1, <2>1, <2>2, <2>3
<1>3. CASE HaltChunk
  <2>1. TickTimers(timers, timers, Chunk) /\ left \in Nat \ {0}
    BY <1>0, <1>3 DEF HaltChunk
  <2>2. CyclesToNextFifoOverflow(timers) \in Nat
    BY <1>0, NextOverflow
  <2>3. Chunk \in Nat \ {0}
    BY <2>1, <2>2, ChunkBounds
  <2> QED
    BY <1>0, <1>1, <2>1, <2>3
<1>4. CASE DmaWrite
  <2>1. PICK w \in DmaWrites : timers' = Apply(timers, w)
    BY <1>4 DEF DmaWrite
  <2>2. w \in Writes /\ w.to # "control"
    BY DmaWritesAssumption DEF OnlyReloads
  <2>3. CASE w.to = "none"
    BY <2>1, <2>3 DEF Apply
  <2>4. CASE w.to = "reload"
    <3>1. w.id \in TimerId
      BY <2>2, <2>4 DEF Writes
    <3>2. timers' = [timers EXCEPT ![w.id] = WithReload(@, w.value)]
      BY <2>1, <2>4 DEF Apply
    <3>3. \A i \in TimerId : /\ timers'[i].control = timers[i].control
                             /\ timers'[i].prescaler_counter = timers[i].prescaler_counter
      BY <1>0, <3>1, <3>2 DEF WithReload, Timer
    <3> QED
      BY <3>3 DEF Settled
  <2> QED
    BY <2>2, <2>3, <2>4 DEF Writes
<1>5. CASE Sleep \/ UNCHANGED vars
  BY <1>5 DEF Sleep, vars
<1> QED
  BY <1>2, <1>3, <1>4, <1>5 DEF Next

(* What is predicted for settled timers comes to pass. *)
LEMMA PredictionHolds == TimersInv /\ Settled(timers) => PredictionExact
<1> SUFFICES ASSUME TimersInv, Settled(timers), Clocking(timers) # {}
             PROVE  LET overflowsBy(n) == \E i \in FifoTimers : HwRun(timers, n).pops[i] > 0
                        next == CyclesToNextFifoOverflow(timers)
                    IN  overflowsBy(next) /\ ~overflowsBy(next - 1)
  BY DEF PredictionExact
<1> DEFINE ts == timers
           next == CyclesToNextFifoOverflow(ts)
           pops(n, i) == HwRun(ts, n).pops[i]
<1>0. ts \in [TimerId -> Timer] /\ Free(ts) /\ Settled(ts) /\ Clocking(ts) # {}
  BY DEF TimersInv
<1> SUFFICES /\ \E i \in FifoTimers : pops(next, i) > 0
             /\ ~\E i \in FifoTimers : pops(next - 1, i) > 0
  OBVIOUS
<1> HIDE DEF ts
<1>1. /\ next \in Nat
      /\ \A i \in Clocking(ts) : next <= CyclesToOverflow(ts[i])
      /\ \E i \in Clocking(ts) : next = CyclesToOverflow(ts[i])
  BY <1>0, NextOverflow
<1>2. ASSUME NEW i \in Clocking(ts)
      PROVE  /\ i \in FifoTimers
             /\ CyclesToOverflow(ts[i]) \in 1..(U32 - 1)
             /\ \A n \in Nat : Alone(ts[i], n).overflows > 0 <=> n >= CyclesToOverflow(ts[i])
  <2>1. i \in FifoTimers /\ i \in TimerId /\ ts[i].control.enabled
    BY DEF Clocking, FifoTimers
  <2>2. ts[i] \in Timer /\ ts[i].prescaler_counter < ts[i].control.prescaler
    BY <1>0, <2>1 DEF Settled
  <2> QED
    BY <2>1, <2>2, Foretold
<1>3. ASSUME NEW n \in Nat \ {0}, NEW i \in FifoTimers
      PROVE  /\ i \in Clocking(ts) => pops(n, i) = Alone(ts[i], n).overflows
             /\ i \notin Clocking(ts) => pops(n, i) = 0
  <2>1. i \in TimerId
    BY DEF FifoTimers
  <2>2. pops(n, i) = Batch(ts, n)[i].overflows
    <3>1. HwRun(ts, n).pops = [j \in TimerId |-> Batch(ts, n)[j].overflows]
      BY <1>0, TickIsBatch
    <3> QED
      BY <2>1, <3>1
  <2> QED
    BY <1>0, <2>2, PopsOf
<1>4. ASSUME NEW i \in FifoTimers PROVE pops(0, i) = 0
  <2>1. i \in TimerId /\ 0 \in Nat
    BY DEF FifoTimers
  <2>2. HwRun(ts, 0) = Cycles(ts, 0)
    BY <1>0, <2>1, HwRunIsBatch
  <2> QED
    BY <2>1, <2>2 DEF Cycles
<1> HIDE DEF pops, next
<1>5. \E i \in FifoTimers : pops(next, i) > 0
  <2>1. PICK i \in Clocking(ts) : next = CyclesToOverflow(ts[i])
    BY <1>1
  <2>2. next \in Nat \ {0} /\ i \in FifoTimers /\ next >= CyclesToOverflow(ts[i])
    BY <1>1, <1>2, <2>1
  <2> QED
    BY <1>1, <1>2, <1>3, <2>2
<1>6. ASSUME NEW i \in FifoTimers, pops(next - 1, i) > 0 PROVE FALSE
  <2>1. next # 0
    <3>1. PICK k \in Clocking(ts) : next = CyclesToOverflow(ts[k])
      BY <1>1
    <3> QED
      BY <1>2, <3>1
  <2>2. CASE next = 1
    <3>1. next - 1 = 0
      BY <2>2
    <3>2. pops(0, i) > 0
      BY <1>6, <3>1
    <3> QED
      BY <1>4, <3>2
  <2>3. CASE next # 1
    <3> DEFINE n == next - 1
    <3>1. n \in Nat \ {0} /\ n + 1 = next
      BY <1>1, <2>1, <2>3
    <3>2. pops(n, i) > 0
      BY <1>6
    <3> HIDE DEF n
    <3>3. i \in Clocking(ts)
      BY <1>3, <3>1, <3>2
    <3>4. Alone(ts[i], n).overflows > 0
      BY <1>3, <3>1, <3>2, <3>3
    <3>5. n >= CyclesToOverflow(ts[i]) /\ CyclesToOverflow(ts[i]) \in Nat
      BY <1>2, <3>1, <3>3, <3>4
    <3>6. next <= CyclesToOverflow(ts[i])
      BY <1>1, <3>3
    <3> QED
      BY <1>1, <3>1, <3>5, <3>6
  <2> QED
    BY <2>2, <2>3
<1> QED
  BY <1>5, <1>6

(* The span to the next overflow that the code computes ends with the      *)
(* first overflow of timer 0 or 1 (Timers::cycles_to_next_fifo_overflow).  *)
THEOREM PredictionsCome ==
  ASSUME Uncascaded, OnlyReloads
  PROVE  Spec => []PredictionExact
<1> DEFINE IInv == TimersInv /\ Settled(timers)
<1>1. Init => IInv
  BY TimersStart
<1>2. IInv /\ [Next]_vars => IInv'
  BY TimersStep, SettledNext
<1>3. IInv => PredictionExact
  BY PredictionHolds
<1> QED
  BY <1>1, <1>2, <1>3, PTL DEF Spec

(* A chunk of a sleep holds one overflow of a timer at the most. *)
LEMMA ChunkPops ==
  TimersInv /\ Settled(timers) /\ HaltChunk
    => \A i \in FifoTimers : hwPops'[i] = IF i \in popped' THEN 1 ELSE 0
<1> SUFFICES ASSUME TimersInv, Settled(timers), HaltChunk, NEW i \in FifoTimers
             PROVE  hwPops'[i] = IF i \in popped' THEN 1 ELSE 0
  OBVIOUS
<1> DEFINE ts == timers
           next == CyclesToNextFifoOverflow(ts)
           c == Chunk
           b == Batch(ts, c)
<1>1. ts \in [TimerId -> Timer] /\ Free(ts) /\ Settled(ts) /\ hw = ts /\ left \in Nat \ {0}
      /\ TickTimers(ts, ts, c)
  BY DEF TimersInv, HaltChunk
<1>2. next \in Nat /\ \A j \in Clocking(ts) : next <= CyclesToOverflow(ts[j])
  BY <1>1, NextOverflow
<1>3. c \in Nat \ {0} /\ (c <= next \/ c = 1)
  BY <1>1, <1>2, ChunkBounds
<1> HIDE DEF ts, next, c
<1>4. i \in TimerId
  BY DEF FifoTimers
<1>5. hwPops'[i] = b[i].overflows /\ popped' = Overflowed(b) \cap FifoTimers
  <2>1. Tick(ts, c) = b /\ HwRun(ts, c).pops = [j \in TimerId |-> b[j].overflows]
    BY <1>1, <1>3, TickIsBatch
  <2>2. hwPops' = HwRun(ts, c).pops /\ popped' = Overflowed(Tick(ts, c)) \cap FifoTimers
    BY <1>1 DEF TickTimers
  <2> QED
    BY <1>4, <2>1, <2>2
<1>6. i \in popped' <=> b[i].overflows > 0
  BY <1>4, <1>5 DEF Overflowed
<1>7. b[i].overflows \in {0, 1}
  <2>1. CASE i \notin Clocking(ts)
    BY <1>1, <1>3, <2>1, PopsOf
  <2>2. CASE i \in Clocking(ts)
    <3>1. ts[i] \in Timer /\ ts[i].prescaler_counter < ts[i].control.prescaler
      BY <1>1, <1>4, <2>2 DEF Settled, Clocking
    <3> DEFINE k == CyclesToOverflow(ts[i])
    <3>2. /\ k \in 1..(U32 - 1)
          /\ \A n \in Nat : Alone(ts[i], n).overflows > 0 <=> n >= k
          /\ Alone(ts[i], k).overflows = 1
      BY <3>1, Foretold
    <3>3. next <= k
      BY <1>2, <2>2
    <3>4. b[i].overflows = Alone(ts[i], c).overflows
      BY <1>1, <1>3, <2>2, PopsOf
    <3>5. Alone(ts[i], c).overflows \in Nat
      BY <1>3, <3>1, AloneType
    <3> HIDE DEF k
    <3>6. k \in Nat /\ k >= 1 /\ c <= k
      BY <1>2, <1>3, <3>2, <3>3
    <3>7. CASE c = k
      BY <3>2, <3>4, <3>7
    <3>8. CASE c # k
      <4>1. ~(c >= k) /\ c \in Nat
        BY <1>3, <3>6, <3>8
      <4>2. ~(Alone(ts[i], c).overflows > 0)
        BY <3>2, <4>1
      <4> QED
        BY <3>4, <3>5, <4>2
    <3> QED
      BY <3>7, <3>8
  <2> QED
    BY <2>1, <2>2
<1> QED
  BY <1>5, <1>6, <1>7

(* While the CPU sleeps, a FIFO is popped as often as its timer overflows  *)
(* (halt_chunk, tick_timers).                                              *)
THEOREM SleepLosesNoPop ==
  ASSUME Uncascaded, OnlyReloads
  PROVE  Spec => SleepPopsExact
<1> DEFINE IInv == TimersInv /\ Settled(timers)
<1>1. Init => IInv
  BY TimersStart
<1>2. IInv /\ [Next]_vars => IInv'
  BY TimersStep, SettledNext
<1>3. IInv /\ [Next]_vars
        => [left > 0 => \A i \in FifoTimers : hwPops'[i] = IF i \in popped' THEN 1 ELSE 0]_vars
  <2> SUFFICES ASSUME IInv, Next, left > 0
               PROVE  \A i \in FifoTimers : hwPops'[i] = IF i \in popped' THEN 1 ELSE 0
    OBVIOUS
  <2>1. left \in Nat
    BY DEF TimersInv
  <2>2. HaltChunk
    BY <2>1 DEF Next, Instruction, Sleep, DmaWrite
  <2> QED
    BY <2>2, ChunkPops
<1> QED
  BY <1>1, <1>2, <1>3, PTL DEF Spec, SleepPopsExact
-----------------------------------------------------------------------------
(* What an operation on a channel does to the fields that matter here. *)

(* The number of units that a channel is loaded with is never 0. *)
LEMMA LoadCountPositive ==
  ASSUME NEW ch \in Channel, NEW c \in DmaChannel
  PROVE  LoadCount(ch, c) \in Nat \ {0}
  BY DmaAssumption DEF LoadCount, DmaChannel

(* Consistent(c) is what ChannelsConsistent says of a channel. *)
Consistent(c) ==
  /\ c.active <=> c.control.enabled
  /\ c.control.enabled => c.internal_count > 0

(* A latched address is an address. *)
LEMMA LatchAddress ==
  ASSUME NEW ch \in Channel, NEW a \in Addr
  PROVE  a % ADDR_MASK[ch] \in Addr
<1>1. ADDR_MASK[ch] \in 1..ADDR_SPACE /\ a \in Int /\ ADDR_SPACE \in Nat
  BY DmaAssumption DEF Addr
<1>2. ASSUME NEW z \in 1..ADDR_SPACE PROVE a % z \in Addr
  <2>1. a % z \in 0..(z - 1)
    BY <1>1
  <2> QED
    BY <1>1, <2>1 DEF Addr
<1> QED
  BY <1>1, <1>2

(* Starting a channel latches its registers. *)
LEMMA LatchType ==
  ASSUME NEW ch \in Channel, NEW c \in DmaChannel
  PROVE  /\ Latch(ch, c) \in DmaChannel
         /\ Latch(ch, c).control = c.control /\ Latch(ch, c).active = c.active
         /\ Latch(ch, c).internal_count = LoadCount(ch, c)
<1>1. c.sad % ADDR_MASK[ch] \in Addr /\ c.dad % ADDR_MASK[ch] \in Addr
  BY LatchAddress DEF DmaChannel
<1>2. LoadCount(ch, c) \in Nat
  BY LoadCountPositive
<1> QED
  BY <1>1, <1>2 DEF Latch, DmaChannel

(* A store to the control register. *)
LEMMA WithControlType ==
  ASSUME NEW ch \in Channel, NEW c \in DmaChannel, Consistent(c), NEW v \in DmaControl
  PROVE  WithControl(ch, c, v) \in DmaChannel /\ Consistent(WithControl(ch, c, v))
<1>0. c.active \in BOOLEAN /\ v.enabled \in BOOLEAN /\ c.control \in DmaControl
  BY DEF DmaChannel, DmaControl
<1>1. CASE Starts(c, v)
  <2> DEFINE d == [c EXCEPT !.control = v]
             e == Latch(ch, d)
  <2>1. d \in DmaChannel /\ d.control = v
    BY DEF DmaChannel
  <2>2. e \in DmaChannel /\ e.control = v /\ e.internal_count \in Nat \ {0}
    BY <2>1, LatchType, LoadCountPositive, ZenonT(60)
  <2>3. WithControl(ch, c, v) = [e EXCEPT !.active = TRUE]
    BY <1>1 DEF WithControl
  <2> HIDE DEF d, e
  <2> DEFINE f == WithControl(ch, c, v)
  <2>4. f \in DmaChannel /\ f.active = TRUE /\ f.control = v /\ f.internal_count = e.internal_count
    BY <2>2, <2>3 DEF DmaChannel
  <2>5. v.enabled = TRUE
    BY <1>0, <1>1 DEF Starts
  <2> HIDE DEF f
  <2> QED
    BY <2>2, <2>4, <2>5 DEF Consistent, f
<1>2. CASE ~Starts(c, v)
  <2>1. WithControl(ch, c, v) = [c EXCEPT !.control = v, !.active = @ /\ v.enabled]
    BY <1>2 DEF WithControl
  <2> DEFINE d == WithControl(ch, c, v)
  <2>2. d \in DmaChannel /\ d.control = v /\ d.internal_count = c.internal_count
        /\ d.active = (c.active /\ v.enabled)
    BY <1>0, <2>1 DEF DmaChannel
  <2>3. v.enabled => c.control.enabled
    BY <1>2 DEF Starts
  <2> QED
    BY <1>0, <2>2, <2>3 DEF Consistent
<1> QED
  BY <1>1, <1>2
(* A moved address: as far as the units of the transfer take it. *)
LEMMA MovedType ==
  ASSUME NEW c \in DmaChannel, NEW mode \in AddrControl, NEW a \in Addr
  PROVE  /\ StepOf(mode, Unit(c)) \in Int
         /\ Moved(a, mode, c) \in Addr
         /\ Moved(a, mode, c) = (a + c.internal_count * StepOf(mode, Unit(c))) % ADDR_SPACE
<1>1. Unit(c) \in {2, 4}
  BY DEF Unit
<1>2. StepOf(mode, Unit(c)) \in Int
  BY <1>1 DEF StepOf, AddrControl
<1> DEFINE s == StepOf(mode, Unit(c))
           n == c.internal_count
<1>3. a \in Int /\ n \in Int /\ ADDR_SPACE \in Nat \ {0}
  BY DmaAssumption DEF Addr, DmaChannel
<1>4. Moved(a, mode, c) = (a + n * s) % ADDR_SPACE
  BY DEF Moved
<1> HIDE DEF s, n
<1>5. n * s \in Int
  BY <1>2, <1>3 DEF s
<1>6. (a + n * s) % ADDR_SPACE \in Addr
  BY <1>3, <1>5 DEF Addr
<1> QED
  BY <1>2, <1>4, <1>6 DEF s, n

(* A transfer moves both addresses; if it repeats, the channel is loaded   *)
(* again and goes on, otherwise it is switched off.                        *)
LEMMA BlockEffect ==
  ASSUME NEW ch \in Channel, NEW c \in DmaChannel
  PROVE  LET d == BlockTransfer(ch, c)
             again == c.control.repeat /\ c.control.timing # "Immediate"
         IN  /\ d \in DmaChannel
             /\ d.internal_sad = Moved(c.internal_sad, c.control.src, c)
             /\ again => /\ d.control = c.control /\ d.active = c.active
                         /\ d.internal_count = LoadCount(ch, c)
                         /\ d.dad = c.dad /\ d.count = c.count
                         /\ c.control.dest = "IncrementReload" => d.internal_dad = c.dad % ADDR_MASK[ch]
             /\ ~again => ~d.control.enabled /\ ~d.active
<1> DEFINE o == [c EXCEPT !.internal_sad = Moved(@, c.control.src, c),
                          !.internal_dad = Moved(@, c.control.dest, c)]
           again == c.control.repeat /\ c.control.timing # "Immediate"
           d == BlockTransfer(ch, c)
<1>0. c.control \in DmaControl /\ c.control.src \in AddrControl /\ c.control.dest \in AddrControl
  BY DEF DmaChannel, DmaControl
<1>1. /\ Moved(c.internal_sad, c.control.src, c) \in Addr
      /\ Moved(c.internal_dad, c.control.dest, c) \in Addr
  BY <1>0, MovedType DEF DmaChannel
<1>2. /\ o \in DmaChannel /\ o.control = c.control /\ o.active = c.active
      /\ o.dad = c.dad /\ o.count = c.count
      /\ o.internal_sad = Moved(c.internal_sad, c.control.src, c)
  BY <1>1 DEF DmaChannel
<1>3. LoadCount(ch, o) = LoadCount(ch, c) /\ LoadCount(ch, c) \in Nat
  BY <1>2, LoadCountPositive DEF LoadCount
<1>4. o.dad % ADDR_MASK[ch] \in Addr
  <2>1. c.dad \in Addr
    BY DEF DmaChannel
  <2>2. c.dad % ADDR_MASK[ch] \in Addr
    BY <2>1, LatchAddress
  <2> QED
    BY <1>2, <2>2
<1>5. d = IF again THEN ReloadForRepeat(ch, o) ELSE [o EXCEPT !.control.enabled = FALSE, !.active = FALSE]
  BY DEF BlockTransfer
<1> HIDE DEF o
<1>6. CASE again
  <2>1. d = [o EXCEPT !.internal_dad = IF o.control.dest = "IncrementReload"
                                       THEN o.dad % ADDR_MASK[ch] ELSE @,
                      !.internal_count = LoadCount(ch, o)]
    BY <1>5, <1>6 DEF ReloadForRepeat
  <2> HIDE DEF d
  <2>2. /\ d \in DmaChannel /\ d.control = o.control /\ d.active = o.active
        /\ d.internal_count = LoadCount(ch, o) /\ d.dad = o.dad /\ d.count = o.count
        /\ d.internal_sad = o.internal_sad
        /\ o.control.dest = "IncrementReload" => d.internal_dad = o.dad % ADDR_MASK[ch]
    BY <2>1, <1>2, <1>3, <1>4 DEF DmaChannel
  <2> QED
    BY <1>2, <1>3, <1>6, <2>2 DEF d
<1>7. CASE ~again
  <2>1. d = [o EXCEPT !.control.enabled = FALSE, !.active = FALSE]
    BY <1>5, <1>7
  <2> HIDE DEF d
  <2>2. [o.control EXCEPT !.enabled = FALSE] \in DmaControl
    BY <1>0, <1>2 DEF DmaControl
  <2>3. /\ d \in DmaChannel /\ d.control = [o.control EXCEPT !.enabled = FALSE]
        /\ d.active = FALSE /\ d.internal_sad = o.internal_sad
    BY <2>1, <2>2, <1>2 DEF DmaChannel
  <2>4. d.control.enabled = FALSE
    BY <2>3, <1>0, <1>2 DEF DmaControl
  <2> QED
    BY <1>2, <1>7, <2>3, <2>4 DEF d
<1> QED
  BY <1>6, <1>7

(* A transfer to a FIFO only moves the source. *)
LEMMA FifoEffect ==
  ASSUME NEW c \in DmaChannel
  PROVE  /\ FifoTransfer(c) \in DmaChannel
         /\ FifoTransfer(c).control = c.control /\ FifoTransfer(c).active = c.active
         /\ FifoTransfer(c).internal_count = c.internal_count
<1>1. (c.internal_sad + FIFO_BYTES) % ADDR_SPACE \in Addr
  BY DmaAssumption DEF DmaChannel, Addr
<1> QED
  BY <1>1 DEF FifoTransfer, DmaChannel

(* Whatever a channel is and whatever runs it, it stays consistent. *)
LEMMA RunDmaConsistent ==
  ASSUME NEW ch \in Channel, NEW c \in DmaChannel, Consistent(c)
  PROVE  RunDma(ch, c) \in DmaChannel /\ Consistent(RunDma(ch, c))
<1>1. CASE ~Live(c)
  BY <1>1 DEF RunDma
<1>2. CASE Live(c) /\ IsFifo(ch, c)
  BY <1>2, FifoEffect DEF RunDma, Consistent
<1>3. CASE Live(c) /\ ~IsFifo(ch, c)
  <2> DEFINE d == BlockTransfer(ch, c)
  <2>1. RunDma(ch, c) = d
    BY <1>3 DEF RunDma
  <2>2. LoadCount(ch, c) > 0
    BY LoadCountPositive
  <2>3. d \in DmaChannel
    BY BlockEffect
  <2>4. \/ d.control = c.control /\ d.active = c.active /\ d.internal_count = LoadCount(ch, c)
        \/ ~d.control.enabled /\ ~d.active
    BY BlockEffect
  <2> HIDE DEF d
  <2> QED
    BY <2>1, <2>2, <2>3, <2>4 DEF Consistent
<1> QED
  BY <1>1, <1>2, <1>3
-----------------------------------------------------------------------------
(* The registers hold values of their width, the display is on a line of   *)
(* the frame, and every channel is consistent.                             *)
DmaInv ==
  /\ channels \in [Channel -> DmaChannel]
  /\ vcount \in 0..(LINES_PER_FRAME - 1) /\ inHBlank \in BOOLEAN
  /\ untouched \subseteq Channel /\ frameSad \in [Channel -> Addr]
  /\ \A ch \in Channel : Consistent(channels[ch])

LEMMA InitInv == DmaInit => DmaInv
<1> SUFFICES ASSUME DmaInit PROVE DmaInv
  OBVIOUS
<1>1. 0 \in Addr /\ 0 \in 0..(COUNT_SPACE - 1) /\ 0 \in 0..(LINES_PER_FRAME - 1)
  BY DmaAssumption, DisplayAssumption DEF Addr
<1>2. NewChannel \in DmaChannel /\ Consistent(NewChannel)
  BY <1>1 DEF NewChannel, DmaChannel, DmaControl, Timing, AddrControl, Consistent
<1> QED
  BY <1>1, <1>2 DEF DmaInit, DmaInv

(* A store to a register of a channel. *)
LEMMA WriteInv ==
  ASSUME DmaInv, NEW ch \in Channel, NEW c \in DmaChannel, Consistent(c),
         channels' = [channels EXCEPT ![ch] = c], Touch(ch), UNCHANGED display
  PROVE  DmaInv'
  BY DEF DmaInv, Touch, display

(* An event that runs some of the channels. *)
LEMMA RunInv ==
  ASSUME DmaInv, NEW selected, Run(selected)
  PROVE  /\ channels' \in [Channel -> DmaChannel]
         /\ \A ch \in Channel : Consistent(channels'[ch])
<1>1. \A ch \in Channel : channels[ch] \in DmaChannel /\ Consistent(channels[ch])
  BY DEF DmaInv
<1>2. \A ch \in Channel : channels'[ch] = IF ch \in selected THEN RunDma(ch, channels[ch]) ELSE channels[ch]
  BY DEF Run
<1>3. \A ch \in Channel : channels'[ch] \in DmaChannel /\ Consistent(channels'[ch])
  BY <1>1, <1>2, RunDmaConsistent
<1> QED
  BY <1>3 DEF Run

(* Each operation of the guest and each event of the display. *)
LEMMA StepInv == DmaInv /\ [DmaNext]_dmaVars => DmaInv'
<1> SUFFICES ASSUME DmaInv, [DmaNext]_dmaVars PROVE DmaInv'
  OBVIOUS
<1>0. \A ch \in Channel : channels[ch] \in DmaChannel /\ Consistent(channels[ch])
  BY DEF DmaInv
<1>1. ASSUME NEW ch \in Channel, NEW v \in Addrs, WriteSad(ch, v) \/ WriteDad(ch, v) PROVE DmaInv'
  <2>1. v \in Addr
    BY DisplayAssumption
  <2>2. /\ [channels[ch] EXCEPT !.sad = v] \in DmaChannel /\ Consistent([channels[ch] EXCEPT !.sad = v])
        /\ [channels[ch] EXCEPT !.dad = v] \in DmaChannel /\ Consistent([channels[ch] EXCEPT !.dad = v])
    BY <1>0, <2>1 DEF DmaChannel, Consistent
  <2> QED
    BY <1>1, <2>2, WriteInv DEF WriteSad, WriteDad, WriteRegister
<1>2. ASSUME NEW ch \in Channel, NEW v \in Counts, WriteCount(ch, v) PROVE DmaInv'
  <2>1. v \in 0..(COUNT_SPACE - 1)
    BY DisplayAssumption
  <2>2. [channels[ch] EXCEPT !.count = v] \in DmaChannel /\ Consistent([channels[ch] EXCEPT !.count = v])
    BY <1>0, <2>1 DEF DmaChannel, Consistent
  <2> QED
    BY <1>2, <2>2, WriteInv DEF WriteCount, WriteRegister
<1>3. ASSUME NEW ch \in Channel, NEW v \in DmaControls, WriteControl(ch, v) PROVE DmaInv'
  <2> DEFINE c == WithControl(ch, channels[ch], v)
             d == IF RunsAtOnce(channels[ch], v) THEN RunDma(ch, c) ELSE c
  <2>1. v \in DmaControl
    BY DisplayAssumption
  <2>2. c \in DmaChannel /\ Consistent(c)
    BY <1>0, <2>1, WithControlType
  <2>3. channels' = [channels EXCEPT ![ch] = d] /\ Touch(ch) /\ UNCHANGED display
    BY <1>3 DEF WriteControl
  <2> HIDE DEF c
  <2>4. d \in DmaChannel /\ Consistent(d)
    BY <2>2, RunDmaConsistent
  <2> HIDE DEF d
  <2> QED
    BY <2>3, <2>4, WriteInv
<1>4. CASE HandleHBlank
  BY <1>4, RunInv DEF HandleHBlank, DmaInv, dmaHistory
<1>5. CASE HandleHBlankEnd
  <2>1. /\ channels' \in [Channel -> DmaChannel]
        /\ \A ch \in Channel : Consistent(channels'[ch])
    BY <1>5, RunInv DEF HandleHBlankEnd
  <2>2. vcount' \in 0..(LINES_PER_FRAME - 1) /\ inHBlank' \in BOOLEAN
    <3>1. LINES_PER_FRAME \in Nat \ {0} /\ vcount + 1 \in Int
      BY DisplayAssumption DEF DmaInv
    <3>2. (vcount + 1) % LINES_PER_FRAME \in 0..(LINES_PER_FRAME - 1)
      BY <3>1
    <3> QED
      BY <1>5, <3>2 DEF HandleHBlankEnd
  <2>3. untouched' \subseteq Channel /\ frameSad' \in [Channel -> Addr]
    BY <1>0, <1>5 DEF HandleHBlankEnd, DmaInv, dmaHistory, DmaChannel
  <2> QED
    BY <2>1, <2>2, <2>3 DEF DmaInv
<1>6. ASSUME NEW port \in FifoPorts, FifoRequest(port) PROVE DmaInv'
  BY <1>6, RunInv DEF FifoRequest, DmaInv, display
<1>7. CASE UNCHANGED dmaVars
  BY <1>7 DEF dmaVars, display, dmaHistory, DmaInv
<1> QED
  BY <1>1, <1>2, <1>3, <1>4, <1>5, <1>6, <1>7 DEF DmaNext

(* However its registers are rewritten and whatever ends its transfers,    *)
(* the enable bit and the active flag of a channel agree, and a channel    *)
(* that is on has something to move: dma.rs.                               *)
THEOREM FlagsAgree == DmaSpec => []ChannelsConsistent
<1>1. DmaInv => ChannelsConsistent
  BY DEF DmaInv, Consistent, ChannelsConsistent
<1> QED
  BY <1>1, InitInv, StepInv, PTL DEF DmaSpec
-----------------------------------------------------------------------------
(* The blocks a channel moves in a frame up to some point of a line. *)
DoneBy(c, line, blanked) ==
  CASE c.control.timing = "HBlank" ->
         IF line >= VISIBLE_LINES THEN VISIBLE_LINES
         ELSE IF blanked THEN line + 1 ELSE line
    [] c.control.timing = "VBlank" -> IF line >= VISIBLE_LINES THEN 1 ELSE 0
    [] OTHER -> 0

(* A steadily repeating channel that has next k blocks from base on. *)
Along(ch, c, base, k) ==
  /\ Live(c) /\ c.control.repeat /\ c.internal_count = LoadCount(ch, c)
  /\ c.internal_sad = (base + k * c.internal_count * StepOf(c.control.src, Unit(c))) % ADDR_SPACE
  /\ c.control.dest = "IncrementReload" /\ k > 0 => c.internal_dad = c.dad % ADDR_MASK[ch]

(* The channels left alone are as far as the display. *)
OnTrack ==
  \A ch \in untouched :
    Along(ch, channels[ch], frameSad[ch], DoneBy(channels[ch], vcount, inHBlank))

(* The step of an address is a number. *)
LEMMA StepType ==
  ASSUME NEW c \in DmaChannel
  PROVE  StepOf(c.control.src, Unit(c)) \in Int /\ c.internal_count \in Nat
<1>1. c.control.src \in AddrControl /\ c.internal_sad \in Addr /\ c.internal_count \in Nat
  BY DEF DmaChannel, DmaControl
<1> QED
  BY <1>1, MovedType

(* A channel begins at no blocks where it is. *)
LEMMA AlongStart ==
  ASSUME NEW ch \in Channel, NEW c \in DmaChannel,
         Live(c), c.control.repeat, c.internal_count = LoadCount(ch, c)
  PROVE  Along(ch, c, c.internal_sad, 0)
<1> DEFINE s == StepOf(c.control.src, Unit(c))
           n == c.internal_count
           a == c.internal_sad
<1>1. s \in Int /\ n \in Int
  BY StepType
<1>2. a \in 0..(ADDR_SPACE - 1) /\ ADDR_SPACE \in Nat \ {0}
  BY DmaAssumption DEF DmaChannel, Addr
<1> HIDE DEF s, n, a
<1>3. a + 0 * n * s = a
  BY <1>1, <1>2
<1>4. a % ADDR_SPACE = a
  BY <1>2, NoWrap
<1> QED
  BY <1>3, <1>4 DEF Along, s, n, a

(* One more transfer takes it one block further. *)
LEMMA AlongRun ==
  ASSUME NEW ch \in Channel, NEW c \in DmaChannel, NEW base \in Addr, NEW k \in Nat,
         Along(ch, c, base, k), c.control.timing \in {"HBlank", "VBlank"}
  PROVE  Along(ch, RunDma(ch, c), base, k + 1) /\ RunDma(ch, c).control = c.control
<1> DEFINE s == StepOf(c.control.src, Unit(c))
           n == c.internal_count
           a == c.internal_sad
           d == BlockTransfer(ch, c)
<1>1. RunDma(ch, c) = d
  BY DEF RunDma, IsFifo, Along
<1>2. s \in Int /\ n \in Int /\ base \in Int /\ ADDR_SPACE \in Nat \ {0}
  BY StepType, DmaAssumption DEF Addr
<1>3. c.control.src \in AddrControl /\ a \in Addr
  BY DEF DmaChannel, DmaControl
<1>4. d.internal_sad = Moved(a, c.control.src, c)
  BY BlockEffect
<1>5. d.internal_sad = (a + n * s) % ADDR_SPACE
  BY <1>3, <1>4, MovedType
<1>6. /\ d.control = c.control /\ d.active = c.active
      /\ d.internal_count = LoadCount(ch, c) /\ d.dad = c.dad /\ d.count = c.count
      /\ c.control.dest = "IncrementReload" => d.internal_dad = c.dad % ADDR_MASK[ch]
  BY BlockEffect DEF Along
<1>7. a = (base + k * n * s) % ADDR_SPACE /\ n = LoadCount(ch, c)
  BY DEF Along
<1>8. StepOf(d.control.src, Unit(d)) = s /\ LoadCount(ch, d) = LoadCount(ch, c)
  BY <1>6 DEF Unit, LoadCount
<1> HIDE DEF d
<1>9. Live(d) /\ d.control.repeat
  BY <1>6 DEF Along, Live
<1> HIDE DEF s, n, a
<1>10. k * n * s \in Int /\ n * s \in Int /\ (k + 1) * n * s = k * n * s + n * s
  BY <1>2
<1>11. (a + n * s) % ADDR_SPACE = (base + (k + 1) * n * s) % ADDR_SPACE
  <2> DEFINE x == base + k * n * s
             y == n * s
  <2>1. x \in Int /\ y \in Int
    BY <1>2, <1>10
  <2>2. base + (k + 1) * n * s = x + y
    BY <1>2, <1>10
  <2>3. a = x % ADDR_SPACE
    BY <1>7
  <2> HIDE DEF x, y
  <2>4. ((x % ADDR_SPACE) + y) % ADDR_SPACE = (x + y) % ADDR_SPACE
    BY <1>2, <2>1, WrapOnce
  <2>5. n * s = y
    BY DEF y
  <2> QED
    BY <2>2, <2>3, <2>4, <2>5
<1>12. d.internal_sad = (base + (k + 1) * d.internal_count * StepOf(d.control.src, Unit(d))) % ADDR_SPACE
  BY <1>5, <1>6, <1>7, <1>8, <1>11
<1> QED
  BY <1>1, <1>6, <1>7, <1>8, <1>9, <1>12 DEF Along

(* At first no channel is left alone. *)
LEMMA InitTrack == DmaInit => OnTrack
  BY DEF DmaInit, OnTrack

(* A store leaves the other channels alone. *)
LEMMA WriteTrack ==
  ASSUME DmaInv, OnTrack, NEW ch \in Channel, NEW c,
         channels' = [channels EXCEPT ![ch] = c], Touch(ch), UNCHANGED display
  PROVE  OnTrack'
<1>1. \A o \in untouched' : o \in untouched /\ channels'[o] = channels[o] /\ frameSad'[o] = frameSad[o]
  BY DEF DmaInv, Touch
<1> QED
  BY <1>1 DEF OnTrack, display

(* A channel the guest leaves alone keeps in step with the display when    *)
(* the channels the event selects run.                                     *)
LEMMA RunTrack ==
  ASSUME DmaInv, OnTrack, NEW selected, Run(selected), NEW ch \in untouched,
         frameSad' = frameSad,
         LET c == channels[ch]
             k == DoneBy(c, vcount, inHBlank)
             l == DoneBy(c, vcount', inHBlank')
         IN  \/ ch \notin selected /\ l = k
             \/ ch \in selected /\ l = k + 1 /\ c.control.timing \in {"HBlank", "VBlank"}
  PROVE  Along(ch, channels'[ch], frameSad'[ch], DoneBy(channels'[ch], vcount', inHBlank'))
<1> DEFINE c == channels[ch]
           k == DoneBy(c, vcount, inHBlank)
           l == DoneBy(c, vcount', inHBlank')
<1>1. ch \in Channel /\ c \in DmaChannel /\ frameSad[ch] \in Addr
  BY DEF DmaInv
<1>2. Along(ch, c, frameSad[ch], k)
  BY DEF OnTrack
<1>3. k \in Nat
  BY DisplayAssumption DEF DoneBy, DmaInv
<1>4. channels'[ch] = IF ch \in selected THEN RunDma(ch, c) ELSE c
  BY <1>1 DEF Run
<1>5. CASE ch \notin selected /\ l = k
  BY <1>2, <1>4, <1>5
<1>6. CASE ch \in selected /\ l = k + 1 /\ c.control.timing \in {"HBlank", "VBlank"}
  <2> DEFINE d == RunDma(ch, c)
  <2>1. Along(ch, d, frameSad[ch], k + 1) /\ d.control = c.control
    BY <1>1, <1>2, <1>3, <1>6, AlongRun
  <2>2. channels'[ch] = d
    BY <1>4, <1>6
  <2> HIDE DEF d
  <2>3. DoneBy(d, vcount', inHBlank') = l
    BY <2>1 DEF DoneBy
  <2> QED
    BY <1>6, <2>1, <2>2, <2>3
<1> QED
  BY <1>5, <1>6

(* Every step keeps them in step. *)
LEMMA StepTrack == DmaInv /\ OnTrack /\ [DmaNext]_dmaVars => OnTrack'
<1> SUFFICES ASSUME DmaInv, OnTrack, [DmaNext]_dmaVars PROVE OnTrack'
  OBVIOUS
<1>0. \A ch \in untouched : ch \in Channel /\ Live(channels[ch])
  BY DEF DmaInv, OnTrack, Along
<1>1. ASSUME NEW ch \in Channel, NEW v \in Addrs, WriteSad(ch, v) \/ WriteDad(ch, v) PROVE OnTrack'
  BY <1>1, WriteTrack DEF WriteSad, WriteDad, WriteRegister
<1>2. ASSUME NEW ch \in Channel, NEW v \in Counts, WriteCount(ch, v) PROVE OnTrack'
  BY <1>2, WriteTrack DEF WriteCount, WriteRegister
<1>3. ASSUME NEW ch \in Channel, NEW v \in DmaControls, WriteControl(ch, v) PROVE OnTrack'
  <2> DEFINE c == WithControl(ch, channels[ch], v)
             d == IF RunsAtOnce(channels[ch], v) THEN RunDma(ch, c) ELSE c
  <2>1. channels' = [channels EXCEPT ![ch] = d] /\ Touch(ch) /\ UNCHANGED display
    BY <1>3 DEF WriteControl
  <2> HIDE DEF d
  <2> QED
    BY <2>1, WriteTrack
<1>4. CASE HandleHBlank
  <2>1. Run(HBlankSelected) /\ vcount' = vcount /\ frameSad' = frameSad /\ untouched' = untouched
    BY <1>4 DEF HandleHBlank, dmaHistory
  <2>2. ASSUME NEW ch \in untouched
        PROVE  LET c == channels[ch]
                   k == DoneBy(c, vcount, inHBlank)
                   l == DoneBy(c, vcount', inHBlank')
               IN  \/ ch \notin HBlankSelected /\ l = k
                   \/ ch \in HBlankSelected /\ l = k + 1 /\ c.control.timing \in {"HBlank", "VBlank"}
    <3>1. ~inHBlank /\ inHBlank' /\ vcount' = vcount /\ vcount \in Int
      BY <1>4 DEF HandleHBlank, DmaInv
    <3>2. ch \in HBlankSelected <=> vcount < VISIBLE_LINES /\ channels[ch].control.timing = "HBlank"
      BY <1>0 DEF HBlankSelected, ChannelsForTiming
    <3>3. CASE channels[ch].control.timing = "HBlank"
      BY <3>1, <3>2, <3>3, DisplayAssumption DEF DoneBy
    <3>4. CASE channels[ch].control.timing # "HBlank"
      BY <3>1, <3>2, <3>4 DEF DoneBy
    <3> QED
      BY <3>3, <3>4
  <2>3. \A ch \in untouched :
          Along(ch, channels'[ch], frameSad'[ch], DoneBy(channels'[ch], vcount', inHBlank'))
    BY <2>1, <2>2, RunTrack
  <2> QED
    BY <2>1, <2>3 DEF OnTrack
<1>5. CASE HandleHBlankEnd
  <2> DEFINE selected == IF vcount' = VISIBLE_LINES THEN ChannelsForTiming("VBlank") ELSE {}
  <2>1. Run(selected) /\ inHBlank /\ ~inHBlank' /\ vcount' = (vcount + 1) % LINES_PER_FRAME
    BY <1>5 DEF HandleHBlankEnd
  <2>2. vcount \in 0..(LINES_PER_FRAME - 1) /\ LINES_PER_FRAME \in Nat \ {0}
    BY DisplayAssumption DEF DmaInv
  <2>3. CASE vcount + 1 = LINES_PER_FRAME
    <3>1. vcount' = 0 /\ selected = {}
      <4>1. LINES_PER_FRAME % LINES_PER_FRAME = 0
        BY <2>2
      <4> QED
        BY <2>1, <2>3, <4>1, DisplayAssumption
    <3>2. /\ untouched' = {ch \in Channel : Steady(ch)}
          /\ frameSad' = [ch \in Channel |-> channels[ch].internal_sad]
      BY <1>5, <3>1 DEF HandleHBlankEnd
    <3>3. \A ch \in Channel : channels'[ch] = channels[ch]
      BY <2>1, <3>1 DEF Run
    <3>4. ASSUME NEW ch \in untouched'
          PROVE  Along(ch, channels'[ch], frameSad'[ch], DoneBy(channels'[ch], vcount', inHBlank'))
      <4> DEFINE c == channels[ch]
      <4>1. ch \in Channel /\ c \in DmaChannel /\ Live(c) /\ c.control.repeat
            /\ c.internal_count = LoadCount(ch, c)
        BY <3>2, <3>4 DEF Steady, DmaInv
      <4>2. Along(ch, c, c.internal_sad, 0)
        BY <4>1, AlongStart
      <4>3. DoneBy(c, vcount', inHBlank') = 0
        BY <2>1, <3>1, DisplayAssumption DEF DoneBy
      <4> QED
        BY <3>2, <3>3, <4>1, <4>2, <4>3
    <3> QED
      BY <3>4 DEF OnTrack
  <2>4. CASE vcount + 1 # LINES_PER_FRAME
    <3>1. vcount' = vcount + 1 /\ vcount' # 0
      <4>1. vcount + 1 \in 0..(LINES_PER_FRAME - 1)
        BY <2>2, <2>4
      <4> QED
        BY <2>1, <2>2, <4>1, NoWrap
    <3>2. untouched' = untouched /\ frameSad' = frameSad
      BY <1>5, <3>1 DEF HandleHBlankEnd, dmaHistory
    <3>3. ASSUME NEW ch \in untouched
          PROVE  LET c == channels[ch]
                     k == DoneBy(c, vcount, inHBlank)
                     l == DoneBy(c, vcount', inHBlank')
                 IN  \/ ch \notin selected /\ l = k
                     \/ ch \in selected /\ l = k + 1 /\ c.control.timing \in {"HBlank", "VBlank"}
      <4>1. ch \in selected <=> vcount' = VISIBLE_LINES /\ channels[ch].control.timing = "VBlank"
        BY <1>0 DEF ChannelsForTiming
      <4> HIDE DEF selected
      <4>2. CASE channels[ch].control.timing = "HBlank"
        BY <2>1, <2>2, <3>1, <4>1, <4>2, DisplayAssumption DEF DoneBy
      <4>3. CASE channels[ch].control.timing = "VBlank"
        BY <2>1, <2>2, <3>1, <4>1, <4>3, DisplayAssumption DEF DoneBy
      <4>4. CASE channels[ch].control.timing \notin {"HBlank", "VBlank"}
        BY <4>1, <4>4 DEF DoneBy
      <4> QED
        BY <4>2, <4>3, <4>4
    <3>4. \A ch \in untouched :
            Along(ch, channels'[ch], frameSad'[ch], DoneBy(channels'[ch], vcount', inHBlank'))
      BY <2>1, <3>2, <3>3, RunTrack
    <3> QED
      BY <3>2, <3>4 DEF OnTrack
  <2> QED
    BY <2>3, <2>4
<1>6. ASSUME NEW port \in FifoPorts, FifoRequest(port) PROVE OnTrack'
  <2>1. /\ untouched' = untouched \ ChannelsForTiming("Special")
        /\ UNCHANGED <<vcount, inHBlank, frameSad>>
    BY <1>6 DEF FifoRequest, display
  <2>2. \A ch \in untouched' : ch \in untouched /\ channels'[ch] = channels[ch]
    BY <1>0, <1>6, <2>1 DEF FifoRequest, Run
  <2> QED
    BY <2>1, <2>2 DEF OnTrack
<1>7. CASE UNCHANGED dmaVars
  BY <1>7 DEF dmaVars, display, dmaHistory, OnTrack
<1> QED
  BY <1>1, <1>2, <1>3, <1>4, <1>5, <1>6, <1>7 DEF DmaNext

(* When a frame ends, the display has done all of its lines. *)
LEMMA FrameEnds ==
  ASSUME DmaInv, OnTrack, [DmaNext]_dmaVars, vcount' = 0, vcount # 0
  PROVE  \A ch \in untouched :
           Along(ch, channels[ch], frameSad[ch], BlocksPerFrame(channels[ch]))
<1>1. inHBlank /\ vcount' = (vcount + 1) % LINES_PER_FRAME
  BY DEF DmaNext, WriteSad, WriteDad, WriteCount, WriteControl, WriteRegister, HandleHBlank,
         HandleHBlankEnd, FifoRequest, display, dmaVars
<1>2. vcount \in 0..(LINES_PER_FRAME - 1) /\ LINES_PER_FRAME \in Nat \ {0}
  BY DisplayAssumption DEF DmaInv
<1>3. vcount + 1 = LINES_PER_FRAME
  <2>1. SUFFICES ASSUME vcount + 1 # LINES_PER_FRAME PROVE FALSE
    OBVIOUS
  <2>2. vcount + 1 \in 0..(LINES_PER_FRAME - 1)
    BY <1>2, <2>1
  <2>3. vcount' = vcount + 1
    BY <1>1, <1>2, <2>2, NoWrap
  <2> QED
    BY <1>2, <2>3
<1>4. vcount >= VISIBLE_LINES
  BY <1>2, <1>3, DisplayAssumption
<1>5. \A c : DoneBy(c, vcount, inHBlank) = BlocksPerFrame(c)
  BY <1>4 DEF DoneBy, BlocksPerFrame
<1> QED
  BY <1>5 DEF OnTrack

(* A repeating HBlank or VBlank transfer that is left alone for a frame    *)
(* has next one block for every visible line, or one block, when the next *)
(* frame begins, wherever its addresses wrap (dma.rs, Bus::run_dma and     *)
(* the display's handlers).                                                *)
THEOREM FramesTakeTheTable == DmaSpec => TableThrough
<1>1. DmaInv /\ OnTrack /\ [DmaNext]_dmaVars =>
        [vcount' = 0 /\ vcount # 0 =>
           \A ch \in untouched :
             LET c == channels[ch]
                 distance == BlocksPerFrame(c) * c.internal_count * StepOf(c.control.src, Unit(c))
             IN  /\ c.internal_sad = (frameSad[ch] + distance) % ADDR_SPACE
                 /\ c.control.dest = "IncrementReload" /\ BlocksPerFrame(c) > 0
                      => c.internal_dad = c.dad % ADDR_MASK[ch]]_dmaVars
  BY FrameEnds DEF Along
<1> QED
  BY <1>1, InitInv, StepInv, InitTrack, StepTrack, PTL DEF DmaSpec, TableThrough

(***************************************************************************)
(* The register banks.                                                     *)
(***************************************************************************)
High5 == Registers \cap 8..12

(* The shape of the machine. *)
Machine ==
  [regs : [Registers \cup {15} -> Int], cpsr : Statuses,
   sp : [0..5 -> Int], lr : [0..5 -> Int],
   fiq : [High5 -> Int], usr : [High5 -> Int],
   spsr : [1..5 -> Statuses], flushed : BOOLEAN]

(* What the register file sees of a machine. *)
FileOf(n) == [p \in Kept |-> Lies(n, p[1], p[2])]
OwnOf(n, r) == <<File!Owner(n.cpsr.mode, r), r>>
SavedOf(n) == [mode \in Modes \ {"User", "System"} |-> n.spsr[bank_index(mode)]]

(* User and System share bank 0; every other mode has a bank of its own. *)
LEMMA BankOf ==
  /\ \A a \in Modes : bank_index(a) \in 0..5
  /\ \A a \in Modes : bank_index(a) = 0 <=> ~has_spsr(a)
  /\ \A a, b \in Modes : bank_index(a) = bank_index(b) <=> a = b \/ ~(has_spsr(a) \/ has_spsr(b))
<1>1. /\ bank_index("User") = 0 /\ bank_index("System") = 0
      /\ bank_index("Fiq") = 1 /\ bank_index("Irq") = 2 /\ bank_index("Supervisor") = 3
      /\ bank_index("Abort") = 4 /\ bank_index("Undefined") = 5
  BY Zenon DEF bank_index
<1> QED
  BY <1>1 DEF Modes, has_spsr

(* A machine as it is after a switch of modes. *)
LEMMA SwitchShape ==
  ASSUME NEW n \in Machine, NEW new \in Modes
  PROVE  /\ switch_mode(n, new) \in Machine
         /\ switch_mode(n, new).cpsr = [n.cpsr EXCEPT !.mode = new]
         /\ switch_mode(n, new).spsr = n.spsr
<1>1. CASE n.cpsr.mode = new
  <2>1. n.cpsr = [n.cpsr EXCEPT !.mode = new]
    BY <1>1 DEF Machine, Statuses
  <2> QED
    BY <1>1, <2>1 DEF switch_mode
<1>2. CASE n.cpsr.mode # new
  <2>1. n.cpsr.mode \in Modes /\ [n.cpsr EXCEPT !.mode = new] \in Statuses
    BY DEF Machine, Statuses
  <2>2. High(n) \in [High5 -> Int] /\ Fetched(n, new) \in [High5 -> Int]
    BY DEF Machine, High, Fetched, High5
  <2>3. /\ bank_index(new) \in 0..5 /\ bank_index(n.cpsr.mode) \in 0..5
        /\ n.regs[13] \in Int /\ n.regs[14] \in Int
    BY <2>1, BankOf, BanksAssumption DEF Machine
  <2> DEFINE sp == [n.sp EXCEPT ![bank_index(n.cpsr.mode)] = n.regs[13]]
             lr == [n.lr EXCEPT ![bank_index(n.cpsr.mode)] = n.regs[14]]
             fiq == IF n.cpsr.mode = "Fiq" THEN High(n) ELSE n.fiq
             usr == IF n.cpsr.mode # "Fiq" /\ new = "Fiq" THEN High(n) ELSE n.usr
             regs == [r \in DOMAIN n.regs |->
                        IF r \in DOMAIN n.usr THEN Fetched(n, new)[r]
                        ELSE IF r = 13 THEN sp[bank_index(new)]
                        ELSE IF r = 14 THEN lr[bank_index(new)]
                        ELSE n.regs[r]]
             cpsr == [n.cpsr EXCEPT !.mode = new]
  <2>4. sp \in [0..5 -> Int] /\ lr \in [0..5 -> Int]
    BY <2>3 DEF Machine
  <2>5. fiq \in [High5 -> Int] /\ usr \in [High5 -> Int]
    BY <2>2 DEF Machine
  <2>6. regs \in [Registers \cup {15} -> Int]
    <3> HIDE DEF sp, lr
    <3> QED
      BY <2>2, <2>3, <2>4 DEF Machine
  <2>7. switch_mode(n, new) = [n EXCEPT !.sp = sp, !.lr = lr, !.fiq = fiq, !.usr = usr,
                                        !.regs = regs, !.cpsr = cpsr]
    <3>1. switch_mode(n, new) = [n EXCEPT !.sp = sp, !.lr = lr, !.fiq = fiq, !.usr = usr,
                                          !.regs = regs, !.cpsr.mode = new]
      BY <1>2, Zenon DEF switch_mode
    <3> HIDE DEF sp, lr, fiq, usr, regs
    <3> QED
      BY <3>1 DEF Machine
  <2>8. cpsr \in Statuses
    BY <2>1
  <2> HIDE DEF sp, lr, fiq, usr, regs, cpsr
  <2>9. /\ [n EXCEPT !.sp = sp, !.lr = lr, !.fiq = fiq, !.usr = usr,
                     !.regs = regs, !.cpsr = cpsr] \in Machine
        /\ [n EXCEPT !.sp = sp, !.lr = lr, !.fiq = fiq, !.usr = usr,
                     !.regs = regs, !.cpsr = cpsr].cpsr = cpsr
        /\ [n EXCEPT !.sp = sp, !.lr = lr, !.fiq = fiq, !.usr = usr,
                     !.regs = regs, !.cpsr = cpsr].spsr = n.spsr
    BY <2>4, <2>5, <2>6, <2>8 DEF Machine
  <2> QED
    BY <2>7, <2>9 DEF cpsr
<1> QED
  BY <1>1, <1>2

(* A switch of modes moves registers and changes none. *)
LEMMA SwitchKeeps ==
  ASSUME NEW n \in Machine, NEW new \in Modes
  PROVE  FileOf(switch_mode(n, new)) = FileOf(n)
<1> DEFINE s == switch_mode(n, new)
           old == n.cpsr.mode
<1>1. CASE old = new
  BY <1>1 DEF switch_mode
<1>2. CASE old # new
  <2>1. /\ old \in Modes /\ s \in Machine /\ s.cpsr.mode = new
        /\ DOMAIN s.usr = High5 /\ DOMAIN n.usr = High5 /\ DOMAIN n.regs = Registers \cup {15}
    <3>1. s \in Machine /\ s.cpsr = [n.cpsr EXCEPT !.mode = new]
      BY SwitchShape
    <3>2. n.cpsr \in Statuses
      BY DEF Machine
    <3> HIDE DEF s
    <3> QED
      BY <3>1, <3>2 DEF Machine, Statuses
  <2>2. /\ s.sp = [n.sp EXCEPT ![bank_index(old)] = n.regs[13]]
        /\ s.lr = [n.lr EXCEPT ![bank_index(old)] = n.regs[14]]
        /\ s.fiq = IF old = "Fiq" THEN High(n) ELSE n.fiq
        /\ s.usr = IF old # "Fiq" /\ new = "Fiq" THEN High(n) ELSE n.usr
        /\ s.regs = [r \in DOMAIN n.regs |->
                       IF r \in DOMAIN n.usr THEN Fetched(n, new)[r]
                       ELSE IF r = 13 THEN s.sp[bank_index(new)]
                       ELSE IF r = 14 THEN s.lr[bank_index(new)]
                       ELSE n.regs[r]]
    BY <1>2 DEF switch_mode, Machine
  <2>3. SUFFICES \A o \in Modes \ {"System"}, r \in Registers :
                   (o = "User" \/ r \in 13..14 \/ (o = "Fiq" /\ r \in 8..12))
                      => Lies(s, o, r) = Lies(n, o, r)
    <3>1. \A p \in Kept : p[1] \in Modes \ {"System"} /\ p[2] \in Registers
                         /\ (p[1] = "User" \/ p[2] \in 13..14 \/ (p[1] = "Fiq" /\ p[2] \in 8..12))
      BY DEF Kept
    <3>2. \A p \in Kept : Lies(s, p[1], p[2]) = Lies(n, p[1], p[2])
      BY <2>3, <3>1
    <3> QED
      BY <3>2, Zenon DEF FileOf
  <2> HIDE DEF s
  <2> SUFFICES ASSUME NEW o \in Modes \ {"System"}, NEW r \in Registers,
                      o = "User" \/ r \in 13..14 \/ (o = "Fiq" /\ r \in 8..12)
               PROVE  Lies(s, o, r) = Lies(n, o, r)
    OBVIOUS
  <2>4. /\ bank_index(o) \in 0..5 /\ bank_index(old) \in 0..5 /\ bank_index(new) \in 0..5
    BY <2>1, BankOf
  <2>5. CASE r = 13
    <3>1. /\ \A b \in 0..5 : s.sp[b] = IF b = bank_index(old) THEN n.regs[13] ELSE n.sp[b]
          /\ s.regs[13] = s.sp[bank_index(new)]
      BY <2>2, <2>1, <2>4, <2>5, BanksAssumption DEF Machine, High5
    <3> QED
      BY <2>1, <2>4, <2>5, <3>1 DEF Lies, Machine
  <2>6. CASE r = 14
    <3>1. /\ \A b \in 0..5 : s.lr[b] = IF b = bank_index(old) THEN n.regs[14] ELSE n.lr[b]
          /\ s.regs[14] = s.lr[bank_index(new)]
      BY <2>2, <2>1, <2>4, <2>6, BanksAssumption DEF Machine, High5
    <3> QED
      BY <2>1, <2>4, <2>6, <3>1 DEF Lies, Machine
  <2>7. CASE r \in High5
    <3>1. s.regs[r] = Fetched(n, new)[r]
      BY <2>2, <2>1, <2>7 DEF High5
    <3>2. High(n)[r] = n.regs[r]
      BY <2>1, <2>7 DEF High
    <3> QED
      BY <1>2, <2>2, <2>1, <2>7, <3>1, <3>2 DEF Lies, Fetched, High5
  <2>8. CASE r \notin {13, 14} \cup High5
    <3>1. s.regs[r] = n.regs[r]
      BY <2>2, <2>1, <2>8
    <3> QED
      BY <2>2, <2>1, <2>8, <3>1, BanksAssumption DEF Lies, High5
  <2> QED
    BY <2>5, <2>6, <2>7, <2>8
<1> QED
  BY <1>1, <1>2

(* The status that is put aside for the way back. *)
LEMMA SetSpsrEffect ==
  ASSUME NEW n \in Machine, NEW s \in Statuses
  PROVE  /\ set_spsr(n, s) \in Machine
         /\ set_spsr(n, s).cpsr = n.cpsr
         /\ FileOf(set_spsr(n, s)) = FileOf(n)
         /\ SavedOf(set_spsr(n, s)) =
              IF has_spsr(n.cpsr.mode) THEN [SavedOf(n) EXCEPT ![n.cpsr.mode] = s] ELSE SavedOf(n)
<1>1. CASE ~has_spsr(n.cpsr.mode)
  BY <1>1 DEF set_spsr
<1>2. CASE has_spsr(n.cpsr.mode)
  <2> DEFINE b == bank_index(n.cpsr.mode)
  <2>1. n.cpsr.mode \in Modes /\ b \in 1..5
    BY <1>2, BankOf DEF Machine, Statuses
  <2>2. set_spsr(n, s) = [n EXCEPT !.spsr[b] = s]
    BY <1>2 DEF set_spsr
  <2>3. /\ set_spsr(n, s) \in Machine
        /\ set_spsr(n, s).cpsr = n.cpsr
        /\ set_spsr(n, s).spsr = [n.spsr EXCEPT ![b] = s]
        /\ set_spsr(n, s).regs = n.regs /\ set_spsr(n, s).sp = n.sp /\ set_spsr(n, s).lr = n.lr
        /\ set_spsr(n, s).fiq = n.fiq /\ set_spsr(n, s).usr = n.usr
    BY <2>1, <2>2 DEF Machine
  <2>4. FileOf(set_spsr(n, s)) = FileOf(n)
    BY <2>3 DEF FileOf, Lies
  <2>5. ASSUME NEW mode \in Modes \ {"User", "System"}
        PROVE  SavedOf(set_spsr(n, s))[mode] =
                 IF mode = n.cpsr.mode THEN s ELSE SavedOf(n)[mode]
    <3>1. bank_index(mode) \in 1..5 /\ (bank_index(mode) = b <=> mode = n.cpsr.mode)
      BY <1>2, <2>1, BankOf DEF has_spsr
    <3> QED
      BY <2>1, <2>3, <3>1 DEF SavedOf, Machine
  <2>6. SavedOf(set_spsr(n, s)) = [SavedOf(n) EXCEPT ![n.cpsr.mode] = s]
    BY <2>5 DEF SavedOf
  <2> QED
    BY <1>2, <2>3, <2>4, <2>6
<1> QED
  BY <1>1, <1>2

(* From n to k one register at hand changes, perhaps flags, and no more. *)
Wrote(n, k, r, v) ==
  /\ k.regs = [n.regs EXCEPT ![r] = v] /\ k.cpsr.mode = n.cpsr.mode
  /\ k.sp = n.sp /\ k.lr = n.lr /\ k.fiq = n.fiq /\ k.usr = n.usr /\ k.spsr = n.spsr

(* A register at hand is the current mode's own one in the file. *)
LEMMA RegEffect ==
  ASSUME NEW n \in Machine, NEW k \in Machine, NEW r \in Registers, NEW v \in Int,
         Wrote(n, k, r, v)
  PROVE  /\ FileOf(k) = [FileOf(n) EXCEPT ![OwnOf(n, r)] = v]
         /\ SavedOf(k) = SavedOf(n)
<1> DEFINE mode == n.cpsr.mode
<1>1. SavedOf(k) = SavedOf(n)
  BY DEF SavedOf, Wrote
<1>2. /\ mode \in Modes /\ DOMAIN n.usr = High5 /\ DOMAIN n.regs = Registers \cup {15}
  BY DEF Machine, Statuses
<1>3. ASSUME NEW p \in Kept
      PROVE  Lies(k, p[1], p[2]) =
               IF p = <<File!Owner(mode, r), r>> THEN v ELSE Lies(n, p[1], p[2])
  <2> DEFINE o == p[1]
             q == p[2]
  <2>1. /\ o \in Modes \ {"System"} /\ q \in Registers /\ p = <<o, q>>
        /\ o = "User" \/ q \in 13..14 \/ (o = "Fiq" /\ q \in 8..12)
    BY DEF Kept
  <2> HIDE DEF o, q
  <2>2. k.regs[q] = IF q = r THEN v ELSE n.regs[q]
    BY <1>2, <2>1 DEF Wrote
  <2>3. p = <<File!Owner(mode, r), r>> <=> q = r /\ o = File!Owner(mode, q)
    BY <2>1
  <2>4. CASE q \in 13..14
    <3>1. bank_index(mode) = bank_index(o) <=> o = File!Owner(mode, q)
      BY <1>2, <2>1, <2>4, BankOf DEF File!Owner, has_spsr
    <3> QED
      BY <2>2, <2>3, <2>4, <3>1 DEF Lies, o, q, Wrote
  <2>5. CASE q \in High5
    BY <1>2, <2>1, <2>2, <2>3, <2>5 DEF Lies, High5, File!Owner, o, q, Wrote
  <2>6. CASE q \notin 13..14 /\ q \notin High5
    BY <1>2, <2>1, <2>2, <2>3, <2>6, BanksAssumption DEF Lies, High5, File!Owner, o, q, Wrote
  <2> QED
    BY <2>4, <2>5, <2>6
<1> DEFINE t == OwnOf(n, r)
<1>4. \A p \in Kept : Lies(k, p[1], p[2]) = IF p = t THEN v ELSE Lies(n, p[1], p[2])
  BY <1>3 DEF OwnOf
<1> HIDE DEF t
<1>5. FileOf(k) = [FileOf(n) EXCEPT ![t] = v]
  BY <1>4 DEF FileOf
<1> QED
  BY <1>1, <1>5 DEF t

(* The program counter is nobody's register. *)
LEMMA PcEffect ==
  ASSUME NEW n \in Machine, NEW v \in Int
  PROVE  /\ branch(n, v) \in Machine
         /\ branch(n, v).cpsr = n.cpsr
         /\ FileOf(branch(n, v)) = FileOf(n)
         /\ SavedOf(branch(n, v)) = SavedOf(n)
<1> DEFINE k == branch(n, v)
<1>1. /\ k \in Machine /\ k.cpsr = n.cpsr /\ k.sp = n.sp /\ k.lr = n.lr /\ k.fiq = n.fiq
      /\ k.usr = n.usr /\ k.spsr = n.spsr /\ k.regs = [n.regs EXCEPT ![15] = v]
  BY DEF branch, Machine
<1> HIDE DEF k
<1>2. \A p \in Kept : k.regs[p[2]] = n.regs[p[2]] /\ p[2] \in Registers
  BY <1>1, BanksAssumption DEF Kept, Machine
<1>3. \A p \in Kept : Lies(k, p[1], p[2]) = Lies(n, p[1], p[2])
  BY <1>1, <1>2 DEF Lies
<1> QED
  BY <1>1, <1>3 DEF FileOf, SavedOf, k

(* User mode's registers, read from any mode, are those of the file. *)
LEMMA UserRead ==
  ASSUME NEW n \in Machine, NEW r \in Registers
  PROVE  read_user_reg(n, r) = FileOf(n)[<<"User", r>>]
<1>1. /\ n.cpsr.mode \in Modes /\ DOMAIN n.usr = High5
      /\ bank_index("User") = 0
  BY BankOf DEF Machine, Statuses, Modes, has_spsr
<1>2. <<"User", r>> \in Kept
  BY DEF Kept, Modes
<1>3. read_user_reg(n, r) = Lies(n, "User", r)
  <2>1. CASE r \in High5
    BY <1>1, <2>1 DEF read_user_reg, Lies, High5
  <2>2. CASE r \notin High5
    BY <1>1, <2>2 DEF read_user_reg, Lies, High5
  <2> QED
    BY <2>1, <2>2
<1> QED
  BY <1>2, <1>3 DEF FileOf

(* ... and written. *)
LEMMA UserWritten ==
  ASSUME NEW n \in Machine, NEW r \in Registers, NEW v \in Int
  PROVE  /\ write_user_reg(n, r, v) \in Machine
         /\ write_user_reg(n, r, v).cpsr = n.cpsr
         /\ FileOf(write_user_reg(n, r, v)) = [FileOf(n) EXCEPT ![<<"User", r>>] = v]
         /\ SavedOf(write_user_reg(n, r, v)) = SavedOf(n)
<1> DEFINE k == write_user_reg(n, r, v)
           mode == n.cpsr.mode
<1>1. /\ mode \in Modes /\ DOMAIN n.usr = High5 /\ bank_index("User") = 0 /\ r \in 0..14
  BY BankOf, BanksAssumption DEF Machine, Statuses, Modes, has_spsr
<1>2. CASE r \in High5 /\ mode = "Fiq"
  <2>1. k = [n EXCEPT !.usr[r] = v]
    BY <1>1, <1>2 DEF write_user_reg
  <2> HIDE DEF k
  <2>2. /\ k \in Machine /\ k.cpsr = n.cpsr /\ k.regs = n.regs /\ k.sp = n.sp /\ k.lr = n.lr
        /\ k.fiq = n.fiq /\ k.spsr = n.spsr /\ k.usr = [n.usr EXCEPT ![r] = v]
    BY <1>2, <2>1 DEF Machine
  <2>3. ASSUME NEW p \in Kept
        PROVE  Lies(k, p[1], p[2]) = IF p = <<"User", r>> THEN v ELSE Lies(n, p[1], p[2])
    <3>1. /\ p = <<p[1], p[2]>> /\ p[1] \in Modes /\ p[2] \in Registers
          /\ p[1] = "User" \/ p[2] \in 13..14 \/ (p[1] = "Fiq" /\ p[2] \in 8..12)
      BY DEF Kept
    <3>2. DOMAIN k.usr = High5
      BY <2>2 DEF Machine
    <3> QED
      BY <1>1, <1>2, <2>2, <3>1, <3>2 DEF Lies, High5
  <2>4. FileOf(k) = [FileOf(n) EXCEPT ![<<"User", r>>] = v]
    BY <2>3 DEF FileOf
  <2> QED
    BY <2>2, <2>4 DEF SavedOf, k
<1>3. CASE r = 13 /\ bank_index(mode) # 0
  <2>1. k = [n EXCEPT !.sp[0] = v]
    BY <1>1, <1>3 DEF write_user_reg, High5
  <2> HIDE DEF k
  <2>2. /\ k \in Machine /\ k.cpsr = n.cpsr /\ k.regs = n.regs /\ k.usr = n.usr /\ k.lr = n.lr
        /\ k.fiq = n.fiq /\ k.spsr = n.spsr /\ k.sp = [n.sp EXCEPT ![0] = v]
    BY <1>3, <2>1 DEF Machine
  <2>3. ASSUME NEW p \in Kept
        PROVE  Lies(k, p[1], p[2]) = IF p = <<"User", r>> THEN v ELSE Lies(n, p[1], p[2])
    <3>1. /\ p = <<p[1], p[2]>> /\ p[1] \in Modes \ {"System"} /\ p[2] \in Registers
      BY DEF Kept
    <3>2. bank_index(p[1]) \in 0..5 /\ (bank_index(p[1]) = 0 <=> p[1] = "User")
      BY <3>1, BankOf DEF has_spsr
    <3>3. \A b \in 0..5 : k.sp[b] = IF b = 0 THEN v ELSE n.sp[b]
      BY <2>2 DEF Machine
    <3> QED
      BY <1>1, <1>3, <2>2, <3>1, <3>2, <3>3 DEF Lies
  <2>4. FileOf(k) = [FileOf(n) EXCEPT ![<<"User", r>>] = v]
    BY <2>3 DEF FileOf
  <2> QED
    BY <2>2, <2>4 DEF SavedOf, k
<1>4. CASE r = 14 /\ bank_index(mode) # 0
  <2>1. k = [n EXCEPT !.lr[0] = v]
    BY <1>1, <1>4 DEF write_user_reg, High5
  <2> HIDE DEF k
  <2>2. /\ k \in Machine /\ k.cpsr = n.cpsr /\ k.regs = n.regs /\ k.usr = n.usr /\ k.sp = n.sp
        /\ k.fiq = n.fiq /\ k.spsr = n.spsr /\ k.lr = [n.lr EXCEPT ![0] = v]
    BY <1>4, <2>1 DEF Machine
  <2>3. ASSUME NEW p \in Kept
        PROVE  Lies(k, p[1], p[2]) = IF p = <<"User", r>> THEN v ELSE Lies(n, p[1], p[2])
    <3>1. /\ p = <<p[1], p[2]>> /\ p[1] \in Modes \ {"System"} /\ p[2] \in Registers
      BY DEF Kept
    <3>2. bank_index(p[1]) \in 0..5 /\ (bank_index(p[1]) = 0 <=> p[1] = "User")
      BY <3>1, BankOf DEF has_spsr
    <3>3. \A b \in 0..5 : k.lr[b] = IF b = 0 THEN v ELSE n.lr[b]
      BY <2>2 DEF Machine
    <3> QED
      BY <1>1, <1>4, <2>2, <3>1, <3>2, <3>3 DEF Lies
  <2>4. FileOf(k) = [FileOf(n) EXCEPT ![<<"User", r>>] = v]
    BY <2>3 DEF FileOf
  <2> QED
    BY <2>2, <2>4 DEF SavedOf, k
<1>5. CASE /\ ~(r \in High5 /\ mode = "Fiq") /\ ~(r \in 13..14 /\ bank_index(mode) # 0)
  <2>1. k = [n EXCEPT !.regs[r] = v]
    BY <1>1, <1>5 DEF write_user_reg
  <2> HIDE DEF k
  <2>2. /\ k \in Machine /\ k.cpsr = n.cpsr /\ k.sp = n.sp /\ k.lr = n.lr /\ k.fiq = n.fiq
        /\ k.usr = n.usr /\ k.spsr = n.spsr /\ k.regs = [n.regs EXCEPT ![r] = v]
    BY <2>1 DEF Machine
  <2>3. File!Owner(mode, r) = "User"
    <3>1. r \in 13..14 => mode \in {"User", "System"}
      BY <1>1, <1>5, BankOf DEF has_spsr
    <3>2. r \in 8..12 => mode # "Fiq"
      BY <1>5 DEF High5
    <3> QED
      BY <3>1, <3>2 DEF File!Owner
  <2>4. FileOf(k) = [FileOf(n) EXCEPT ![OwnOf(n, r)] = v] /\ SavedOf(k) = SavedOf(n)
    <3>1. Wrote(n, k, r, v)
      BY <2>2 DEF Wrote
    <3> QED
      BY <2>2, <3>1, RegEffect
  <2> QED
    BY <2>2, <2>3, <2>4 DEF k, OwnOf
<1> QED
  BY <1>2, <1>3, <1>4, <1>5

(* The link register and the status of a handler. *)
Link(mode) == <<mode, 14>>
Entered(c, mode) == [c EXCEPT !.mode = mode, !.thumb = FALSE, !.irq_disabled = TRUE]
Taken(n, k, mode, v) ==
  /\ k.cpsr = Entered(n.cpsr, mode)
  /\ FileOf(k) = [FileOf(n) EXCEPT ![Link(mode)] = v]
  /\ SavedOf(k) = [SavedOf(n) EXCEPT ![mode] = n.cpsr]

(* An exception puts the status aside and its return address into the     *)
(* link register of the new mode.                                         *)
LEMMA EnterEffect ==
  ASSUME NEW n \in Machine, NEW mode \in {"Irq", "Supervisor"}, NEW v \in Int
  PROVE  Enter(n, mode, v, 0) \in Machine /\ Taken(n, Enter(n, mode, v, 0), mode, v)
<1> DEFINE s == switch_mode(n, mode)
           e == set_spsr(s, n.cpsr)
           k == [e EXCEPT !.regs[14] = v, !.cpsr.thumb = FALSE, !.cpsr.irq_disabled = TRUE]
<1>1. /\ mode \in Modes /\ n.cpsr \in Statuses /\ has_spsr(mode)
  BY DEF Modes, Machine, has_spsr
<1>2. /\ s \in Machine /\ s.cpsr = [n.cpsr EXCEPT !.mode = mode] /\ s.cpsr.mode = mode
      /\ s.spsr = n.spsr /\ FileOf(s) = FileOf(n) /\ SavedOf(s) = SavedOf(n)
  <2>1. /\ s \in Machine /\ s.cpsr = [n.cpsr EXCEPT !.mode = mode] /\ s.spsr = n.spsr
    BY <1>1, SwitchShape
  <2>2. FileOf(s) = FileOf(n)
    BY <1>1, SwitchKeeps
  <2> HIDE DEF s
  <2> QED
    BY <1>1, <2>1, <2>2 DEF Statuses, SavedOf
<1> HIDE DEF s
<1>3. /\ e \in Machine /\ e.cpsr = s.cpsr /\ FileOf(e) = FileOf(n)
      /\ SavedOf(e) = [SavedOf(n) EXCEPT ![mode] = n.cpsr]
  BY <1>1, <1>2, SetSpsrEffect, ZenonT(60)
<1> HIDE DEF e
<1>4. /\ k \in Machine /\ k.regs = [e.regs EXCEPT ![14] = v]
      /\ k.cpsr = [e.cpsr EXCEPT !.thumb = FALSE, !.irq_disabled = TRUE]
      /\ k.sp = e.sp /\ k.lr = e.lr /\ k.fiq = e.fiq /\ k.usr = e.usr /\ k.spsr = e.spsr
  <2>1. [e.cpsr EXCEPT !.thumb = FALSE, !.irq_disabled = TRUE] \in Statuses
    BY <1>3 DEF Machine, Statuses
  <2>2. [e.regs EXCEPT ![14] = v] \in [Registers \cup {15} -> Int]
    BY <1>3, BanksAssumption DEF Machine
  <2>3. k = [e EXCEPT !.regs = [e.regs EXCEPT ![14] = v],
                      !.cpsr = [e.cpsr EXCEPT !.thumb = FALSE, !.irq_disabled = TRUE]]
    BY <1>3 DEF Machine, Statuses
  <2> HIDE DEF k
  <2> QED
    BY <1>3, <2>1, <2>2, <2>3 DEF Machine
<1>5. Enter(n, mode, v, 0) = branch(k, 0)
  BY DEF Enter, k, e, s
<1> HIDE DEF k
<1>6. k.cpsr.mode = mode /\ e.cpsr.mode = mode
  <2>1. e.cpsr \in Statuses /\ e.cpsr.mode = mode
    BY <1>2, <1>3 DEF Machine
  <2> QED
    BY <1>4, <2>1 DEF Statuses
<1>7. /\ FileOf(k) = [FileOf(e) EXCEPT ![OwnOf(e, 14)] = v]
      /\ SavedOf(k) = SavedOf(e)
  <2>1. 14 \in Registers
    BY BanksAssumption
  <2>2. Wrote(e, k, 14, v)
    BY <1>4, <1>6 DEF Wrote
  <2> QED
    BY <1>3, <1>4, <2>1, <2>2, RegEffect
<1>8. OwnOf(e, 14) = Link(mode)
  BY <1>6 DEF OwnOf, Link, File!Owner
<1>9. k.cpsr = Entered(n.cpsr, mode)
  BY <1>1, <1>2, <1>3, <1>4 DEF Statuses, Entered
<1>10. /\ branch(k, 0) \in Machine /\ branch(k, 0).cpsr = k.cpsr
       /\ FileOf(branch(k, 0)) = FileOf(k) /\ SavedOf(branch(k, 0)) = SavedOf(k)
  BY <1>4, PcEffect
<1> QED
  <2>1. k \in Machine /\ Taken(n, k, mode, v)
    BY <1>3, <1>4, <1>7, <1>8, <1>9 DEF Taken
  <2> QED
    BY <2>1, <1>5, <1>10 DEF Taken

(* The way back takes the status that was put aside. *)
LEMMA ReturnEffect ==
  ASSUME NEW n \in Machine, NEW v \in Int
  PROVE  LET k == set_reg_with_flags(n, 15, v, TRUE)
         IN  /\ k \in Machine
             /\ k.cpsr = IF has_spsr(n.cpsr.mode) THEN SavedOf(n)[n.cpsr.mode] ELSE n.cpsr
             /\ FileOf(k) = FileOf(n) /\ SavedOf(k) = SavedOf(n)
<1> DEFINE t == spsr(n)
           s == switch_mode(n, t.mode)
           r == [s EXCEPT !.cpsr = t]
           a == v - (v % 2)
<1>1. /\ t \in Statuses
      /\ t = IF has_spsr(n.cpsr.mode) THEN SavedOf(n)[n.cpsr.mode] ELSE n.cpsr
  <2>1. n.cpsr.mode \in Modes /\ n.cpsr \in Statuses
    BY DEF Machine, Statuses
  <2>2. CASE has_spsr(n.cpsr.mode)
    <3>1. bank_index(n.cpsr.mode) \in 1..5
      BY <2>1, <2>2, BankOf
    <3>2. t = n.spsr[bank_index(n.cpsr.mode)]
      BY <2>2 DEF spsr
    <3> QED
      BY <2>1, <2>2, <3>1, <3>2 DEF SavedOf, has_spsr, Machine
  <2>3. CASE ~has_spsr(n.cpsr.mode)
    BY <2>1, <2>3 DEF spsr
  <2> QED
    BY <2>2, <2>3
<1> HIDE DEF t
<1>2. t.mode \in Modes
  BY <1>1 DEF Statuses
<1>3. /\ s \in Machine /\ s.cpsr = [n.cpsr EXCEPT !.mode = t.mode] /\ s.spsr = n.spsr
      /\ FileOf(s) = FileOf(n)
  BY <1>2, SwitchShape, SwitchKeeps
<1>4. s.cpsr.mode = t.mode
  <2> HIDE DEF s
  <2>1. n.cpsr \in Statuses
    BY DEF Machine
  <2> QED
    BY <1>3, <2>1 DEF Statuses
<1> HIDE DEF s
<1>5. /\ r \in Machine /\ r.cpsr = t /\ r.regs = s.regs /\ r.sp = s.sp /\ r.lr = s.lr
      /\ r.fiq = s.fiq /\ r.usr = s.usr /\ r.spsr = s.spsr
  BY <1>1, <1>3 DEF Machine
<1>6. set_reg_with_flags(n, 15, v, TRUE) = branch(r, a)
  <2>1. restore_psr(n) = r
    BY DEF restore_psr, r, s, t
  <2> HIDE DEF r, a
  <2>2. set_reg_with_flags(n, 15, v, TRUE) = branch(restore_psr(n), a)
    BY DEF set_reg_with_flags, a
  <2> QED
    BY <2>1, <2>2
<1> HIDE DEF r
<1>7. FileOf(r) = FileOf(n) /\ SavedOf(r) = SavedOf(n)
  BY <1>3, <1>4, <1>5 DEF FileOf, SavedOf, Lies
<1>8. a \in Int
  OBVIOUS
<1> HIDE DEF a
<1>9. /\ branch(r, a) \in Machine /\ branch(r, a).cpsr = r.cpsr
      /\ FileOf(branch(r, a)) = FileOf(r) /\ SavedOf(branch(r, a)) = SavedOf(r)
  BY <1>5, <1>8, PcEffect
<1> QED
  BY <1>1, <1>5, <1>6, <1>7, <1>9

(* The machine keeps its shape, and a step of it is one of the file. *)
LEMMA StepImplements ==
  ASSUME m \in Machine, [BanksNext]_banksVars
  PROVE  m' \in Machine /\ [File!Step]_(File!abstractVars)
<1>1. ASSUME NEW r \in Registers, NEW v \in Value, WriteReg(r, v)
      PROVE  m' \in Machine /\ File!Write(r, v)
  <2>1. m' = [m EXCEPT !.regs[r] = v] /\ v \in Int /\ r # 15 /\ UNCHANGED seen
    BY <1>1, BanksAssumption DEF WriteReg, Bounded, set_reg
  <2>2. /\ m' \in Machine /\ m'.regs = [m.regs EXCEPT ![r] = v] /\ m'.cpsr = m.cpsr
        /\ m'.sp = m.sp /\ m'.lr = m.lr /\ m'.fiq = m.fiq /\ m'.usr = m.usr /\ m'.spsr = m.spsr
    BY <2>1 DEF Machine
  <2>3. /\ FileOf(m') = [FileOf(m) EXCEPT ![OwnOf(m, r)] = v]
        /\ SavedOf(m') = SavedOf(m)
    <3>1. Wrote(m, m', r, v)
      BY <2>2 DEF Wrote
    <3> QED
      BY <2>1, <2>2, <3>1, RegEffect
  <2> QED
    BY <2>1, <2>2, <2>3 DEF File!Write, File!Own, OwnOf, FileOf, SavedOf
<1>2. ASSUME NEW r \in Registers, NEW v \in Value, WriteUserReg(r, v)
      PROVE  m' \in Machine /\ File!WriteUser(r, v)
  <2>1. v \in Int /\ m' = write_user_reg(m, r, v) /\ UNCHANGED seen
    BY <1>2, BanksAssumption DEF WriteUserReg, Bounded
  <2>2. /\ m' \in Machine /\ m'.cpsr = m.cpsr /\ SavedOf(m') = SavedOf(m)
        /\ FileOf(m') = [FileOf(m) EXCEPT ![<<"User", r>>] = v]
    BY <2>1, UserWritten, Zenon
  <2> QED
    BY <2>1, <2>2 DEF File!WriteUser, FileOf, SavedOf
<1>3. ASSUME NEW r \in Registers, ReadUserReg(r)
      PROVE  m' \in Machine /\ File!ReadUser(r)
  <2>1. m' = m /\ seen' = FileOf(m)[<<"User", r>>]
    BY <1>3, UserRead DEF ReadUserReg
  <2> QED
    BY <2>1 DEF File!ReadUser, FileOf
<1>4. ASSUME NEW mode \in Reached, SwitchMode(mode)
      PROVE  m' \in Machine /\ File!Switch(mode)
  <2>1. mode \in Modes /\ m' = switch_mode(m, mode) /\ UNCHANGED seen
    BY <1>4, BanksAssumption DEF SwitchMode
  <2>2. /\ m' \in Machine /\ m'.cpsr = [m.cpsr EXCEPT !.mode = mode] /\ m'.spsr = m.spsr
        /\ FileOf(m') = FileOf(m)
    BY <2>1, SwitchShape, SwitchKeeps
  <2> QED
    BY <2>1, <2>2 DEF File!Switch, FileOf
<1>5. ASSUME NEW mode \in {"Irq", "Supervisor"}, NEW v \in Value, Exception(mode, v)
      PROVE  m' \in Machine /\ File!Take(mode, v)
  <2>1. v \in Int /\ m' = Enter(m, mode, v, 0) /\ UNCHANGED seen
    BY <1>5, BanksAssumption DEF Exception, Bounded
  <2>2. m' \in Machine /\ Taken(m, m', mode, v)
    BY <2>1, EnterEffect
  <2> QED
    BY <2>1, <2>2 DEF File!Take, Taken, Entered, Link, FileOf, SavedOf
<1>6. ASSUME NEW s \in Status, SetSpsr(s)
      PROVE  m' \in Machine /\ File!Save(s)
  <2>1. s \in Statuses /\ m' = set_spsr(m, s) /\ UNCHANGED seen
    BY <1>6, BanksAssumption DEF SetSpsr, Bounded
  <2>2. /\ m' \in Machine /\ m'.cpsr = m.cpsr /\ FileOf(m') = FileOf(m)
        /\ SavedOf(m') = IF has_spsr(m.cpsr.mode) THEN [SavedOf(m) EXCEPT ![m.cpsr.mode] = s]
                         ELSE SavedOf(m)
    BY <2>1, SetSpsrEffect
  <2> QED
    BY <2>1, <2>2 DEF File!Save, File!HasSaved, has_spsr, FileOf, SavedOf
<1>7. ASSUME NEW v \in Value, ExceptionReturn(v)
      PROVE  m' \in Machine /\ File!Return
  <2>1. v \in Int /\ m' = set_reg_with_flags(m, 15, v, TRUE) /\ UNCHANGED seen
    BY <1>7, BanksAssumption DEF ExceptionReturn
  <2>2. /\ m' \in Machine /\ FileOf(m') = FileOf(m) /\ SavedOf(m') = SavedOf(m)
        /\ m'.cpsr = IF has_spsr(m.cpsr.mode) THEN SavedOf(m)[m.cpsr.mode] ELSE m.cpsr
    BY <2>1, ReturnEffect
  <2> QED
    BY <2>1, <2>2 DEF File!Return, File!Current, File!HasSaved, has_spsr, FileOf, SavedOf
<1>8. CASE UNCHANGED banksVars
  <2>1. m' = m /\ seen' = seen
    BY <1>8 DEF banksVars
  <2> QED
    BY <2>1 DEF File!abstractVars
<1>9. \A mode \in Reached : mode \in Modes
  BY BanksAssumption
<1> QED
  BY <1>1, <1>2, <1>3, <1>4, <1>5, <1>6, <1>7, <1>8, <1>9 DEF BanksNext, File!Step

(* The banks implement the register file: whatever modes a program goes   *)
(* through, a register is what was written to it last in a mode that has  *)
(* it, and the status that an exception put aside comes back (mod.rs:523). *)
THEOREM BanksAreRegisterFile == BanksSpec => ImplementsRegisterFile
<1>1. BanksInit => m \in Machine
  BY BanksAssumption DEF BanksInit, new_skip_bios, StatusOf, Statuses, Machine, High5, Modes
<1>2. m \in Machine /\ [BanksNext]_banksVars
        => (m \in Machine)' /\ [m' = m \/ File!Step]_(File!abstractVars)
  BY StepImplements
<1> QED
  BY <1>1, <1>2, PTL DEF BanksSpec, ImplementsRegisterFile

-----------------------------------------------------------------------------
(* The two executors of the CPU, for every width of a word.  A machine:    *)
(* its registers and its memory hold words, and its program counter is a   *)
(* multiple of four.                                                       *)
PsrRecords == [mode : Modes, thumb : BOOLEAN, irq_disabled : BOOLEAN,
               n : BOOLEAN, z : BOOLEAN, c : BOOLEAN, v : BOOLEAN]
CpuFields == {"regs", "cpsr", "sp", "lr", "fiq", "usr", "spsr", "flushed", "halted",
              "pending_swi", "pipeline", "mem"}
Cells == 0..(SIZE \div 4)-1
IsMachine(cpu) ==
  /\ DOMAIN cpu = CpuFields /\ cpu = [f \in CpuFields |-> cpu[f]]
  /\ cpu.regs \in [0..15 -> Word] /\ cpu.cpsr \in PsrRecords /\ cpu.mem \in [Cells -> Word]
  /\ cpu.regs[15] % 4 = 0 /\ DOMAIN cpu.usr = 8..12

(* Where a register goes through the shifter as it is, and a number. *)
LEMMA PlainOperand ==
  ASSUME NEW cpu, NEW r
  PROVE  Operand2(cpu, Plain(r)) = Out(cpu.regs[r], cpu.cpsr.c)
<1>1. Later(cpu, r, FALSE) = cpu.regs[r] /\ ~FALSE
  BY DEF Later
<1>2. \A x, c : barrel_shift(x, "LSL", 0, c, TRUE) = Out(x, c)
  <2>1. \A x, c : barrel_shift(x, "LSL", 0, c, TRUE) = shift_lsl(x, 0, c)
    BY DEF barrel_shift
  <2>2. \A x, c : shift_lsl(x, 0, c) = Out(x, c)
    <3>1. W \in Nat \ {0}
      BY WidthAssumption
    <3>2. 0 \notin 1..W-1 /\ ~(0 = W) /\ (0 = 0) = TRUE
      BY <3>1
    <3> QED
      BY <3>2, Zenon DEF shift_lsl
  <2> QED
    BY <2>1, <2>2
<1> DEFINE o == Plain(r)
<1>3. o.by = "amount" /\ o.rm = r /\ o.type = "LSL" /\ o.n = 0
  BY DEF Plain, Amount
<1>4. (o.by = "register") = FALSE /\ o.by # "value"
  BY <1>3
<1> HIDE DEF o
<1>5. Operand2(cpu, o) = barrel_shift(Later(cpu, r, FALSE), "LSL", 0, cpu.cpsr.c, TRUE)
  BY <1>3, <1>4 DEF Operand2
<1> QED
  BY <1>1, <1>2, <1>5 DEF o

(* A word is two halves and whole bytes. *)
LEMMA Words32 ==
  /\ W \in Nat \ {0} /\ WORD \in Nat \ {0} /\ TOP \in Nat \ {0} /\ WORD = 2 * TOP
  /\ WORD % 4 = 0
<1>1. W \in Nat \ {0} /\ W % 4 = 0
  BY WidthAssumption
<1>2. W >= 4
  BY <1>1
<1>3. W \in 0..W /\ W \in 1..W /\ W - 1 \in 0..W /\ W - 1 \in 1..W /\ W - 2 \in 0..W
  BY <1>1, <1>2
<1>4. WORD \in Nat \ {0} /\ TOP \in Nat \ {0} /\ WORD = 2 * TOP
  BY <1>3, WidthAssumption DEF WORD, TOP
<1>5. TOP = 2 * 2^(W - 2) /\ 2^(W - 2) \in Nat
  <2>1. 2^(W - 1) = 2 * 2^((W - 1) - 1)
    BY <1>3, WidthAssumption
  <2>2. (W - 1) - 1 = W - 2
    BY <1>1
  <2> QED
    BY <2>1, <2>2, <1>3, WidthAssumption DEF TOP
<1>6. WORD % 4 = 0
  BY <1>4, <1>5
<1> QED
  BY <1>1, <1>4, <1>6

(* A rotation by nothing. *)
LEMMA Unrotated ==
  ASSUME NEW v \in Nat
  PROVE  rotate_right(v, 0) = v
<1>1. WORD \in Nat \ {0} /\ W \in Nat
  BY Words32
<1>2. 2^0 = 1 /\ 2^(W - 0) = WORD
  BY <1>1 DEF WORD
<1>3. Wrap(v * WORD) = 0
  <2>1. (WORD * v + 0) % WORD = 0
    BY Remainder, <1>1
  <2> QED
    BY <2>1, <1>1 DEF Wrap
<1>4. v \div 1 = v
  OBVIOUS
<1> QED
  BY <1>2, <1>3, <1>4 DEF rotate_right

LEMMA NumberOperand ==
  ASSUME NEW cpu, NEW v \in Nat
  PROVE  Operand2(cpu, Number(v)) = Out(v, cpu.cpsr.c)
<1>1. rotate_right(v, 2 * 0) = v
  BY Unrotated
<1> QED
  BY <1>1 DEF Operand2, Number, Rotated

(* The data processing instructions, by their parts. *)
ArmPsr(psr, op, r) ==
  [set_nz(psr, r.value) EXCEPT !.c = r.carry, !.v = IF is_logical(op) THEN @ ELSE r.overflow]
Done(cpu, op, rd, r) ==
  LET flagged == [cpu EXCEPT !.cpsr = ArmPsr(cpu.cpsr, op, r)]
  IN  IF is_test(op) THEN flagged ELSE [flagged EXCEPT !.regs[rd] = r.value]

(* What the instruction computes. *)
Result(cpu, op, rn, o) ==
  Compute(op, cpu.regs[rn], Operand2(cpu, o).value, Operand2(cpu, o).carry, cpu.cpsr)

(* A data processing instruction, with the S bit and without. *)
LEMMA ArmData ==
  ASSUME NEW cpu, NEW op, NEW rd \in 0..15, NEW rn \in 0..15, NEW o,
         o.by # "register" \/ rn # 15
  PROVE  /\ rd # 15 =>
              execute_arm(cpu, Data(op, TRUE, rd, rn, o)) = Done(cpu, op, rd, Result(cpu, op, rn, o))
         /\ execute_arm(cpu, Data(op, FALSE, rd, rn, o))
              = IF is_test(op) THEN cpu ELSE set_reg(cpu, rd, Result(cpu, op, rn, o).value)
<1> DEFINE t == Data(op, TRUE, rd, rn, o)
           f == Data(op, FALSE, rd, rn, o)
           r == Result(cpu, op, rn, o)
<1>1. /\ t.op = op /\ t.s = TRUE /\ t.rd = rd /\ t.rn = rn /\ t.operand = o
      /\ f.op = op /\ f.s = FALSE /\ f.rd = rd /\ f.rn = rn /\ f.operand = o
      /\ t.kind = "data" /\ f.kind = "data"
  BY DEF Data
<1>2. Later(cpu, rn, o.by = "register") = cpu.regs[rn]
  BY DEF Later
<1> HIDE DEF t, f
<1>3. /\ Compute(t.op, Later(cpu, t.rn, t.operand.by = "register"), Operand2(cpu, t.operand).value,
                 Operand2(cpu, t.operand).carry, cpu.cpsr) = r
      /\ Compute(f.op, Later(cpu, f.rn, f.operand.by = "register"), Operand2(cpu, f.operand).value,
                 Operand2(cpu, f.operand).carry, cpu.cpsr) = r
  BY <1>1, <1>2 DEF Result
<1> HIDE DEF r
<1>4. rd # 15 => arm_data_processing(cpu, t) = Done(cpu, op, rd, r)
  <2> SUFFICES ASSUME rd # 15 PROVE arm_data_processing(cpu, t) = Done(cpu, op, rd, r)
    OBVIOUS
  <2>1. /\ ~(t.s /\ t.rd = 15 /\ is_test(t.op)) /\ ~(t.s /\ t.rd = 15 /\ ~is_test(t.op))
        /\ t.s /\ t.rd # 15
    BY <1>1
  <2> DEFINE psr == [set_nz(cpu.cpsr, r.value) EXCEPT
                       !.c = r.carry, !.v = IF is_logical(op) THEN @ ELSE r.overflow]
             flagged == [cpu EXCEPT !.cpsr = psr]
  <2>2. CASE is_test(op)
    <3>1. arm_data_processing(cpu, t) = flagged
      BY <1>1, <1>3, <2>1, <2>2, Zenon DEF arm_data_processing
    <3> QED
      BY <2>2, <3>1 DEF Done, ArmPsr
  <2>3. CASE ~is_test(op)
    <3>1. arm_data_processing(cpu, t) = [flagged EXCEPT !.regs[rd] = r.value]
      BY <1>1, <1>3, <2>1, <2>3, ZenonT(60) DEF arm_data_processing
    <3> QED
      BY <2>3, <3>1 DEF Done, ArmPsr
  <2> QED
    BY <2>2, <2>3
<1>5. arm_data_processing(cpu, f) = IF is_test(op) THEN cpu ELSE set_reg(cpu, rd, r.value)
  BY <1>1, <1>3 DEF arm_data_processing
<1>6. execute_arm(cpu, t)
        = arm_data_processing(cpu, t) /\ execute_arm(cpu, f) = arm_data_processing(cpu, f)
  BY <1>1 DEF execute_arm
<1> QED
  BY <1>4, <1>5, <1>6 DEF t, f, r

(* The flags that each kind of operation leaves. *)
LEMMA FlagsOfSums ==
  ASSUME NEW cpu, NEW op, NEW rd, NEW r, ~is_logical(op)
  PROVE  Done(cpu, op, rd, r) = IF is_test(op) THEN Flagged(cpu, r) ELSE Arith(cpu, rd, r)
  BY DEF Done, ArmPsr, WithFlags, Arith, Flagged, Put

LEMMA FlagsOfShifts ==
  ASSUME NEW cpu, NEW op, NEW rd, NEW o, IsMachine(cpu), is_logical(op), ~is_test(op)
  PROVE  Done(cpu, op, rd, Logical(o.value, o.carry, cpu.cpsr)) = Shift(cpu, rd, o)
<1> DEFINE r == Logical(o.value, o.carry, cpu.cpsr)
           s == set_nz(cpu.cpsr, o.value)
<1>1. r.value = o.value /\ r.carry = o.carry
  BY DEF Logical
<1>2. [s EXCEPT !.c = o.carry, !.v = s.v] = [s EXCEPT !.c = o.carry]
  BY DEF set_nz, IsMachine, PsrRecords
<1> HIDE DEF r
<1>3. ArmPsr(cpu.cpsr, op, r) = [s EXCEPT !.c = o.carry]
  BY <1>1, <1>2 DEF ArmPsr
<1> QED
  BY <1>1, <1>3 DEF Done, Shift, Put, r

LEMMA FlagsOfLogic ==
  ASSUME NEW cpu, NEW op, NEW rd, NEW v, IsMachine(cpu), is_logical(op)
  PROVE  Done(cpu, op, rd, Logical(v, cpu.cpsr.c, cpu.cpsr))
           = IF is_test(op) THEN TestNZ(cpu, v) ELSE Logic(cpu, rd, v)
<1> DEFINE c == cpu.cpsr.c
           r == Logical(v, c, cpu.cpsr)
           s == set_nz(cpu.cpsr, v)
<1>1. r.value = v /\ r.carry = c
  BY DEF Logical
<1>2. [s EXCEPT !.c = c, !.v = s.v] = s
  BY DEF set_nz, IsMachine, PsrRecords
<1> HIDE DEF r
<1>3. ArmPsr(cpu.cpsr, op, r) = s
  BY <1>1, <1>2 DEF ArmPsr
<1> QED
  BY <1>1, <1>3 DEF Done, Logic, TestNZ, Put, r

(* A move of what comes out of the shifter. *)
LEMMA MoveShifted ==
  ASSUME NEW cpu, IsMachine(cpu), NEW rd \in Low, NEW o
  PROVE  execute_arm(cpu, Data("MOV", TRUE, rd, 0, o)) = Shift(cpu, rd, Operand2(cpu, o))
<1>1. rd \in 0..15 /\ rd # 15 /\ 0 \in 0..15 /\ 0 # 15
  BY DEF Low
<1>2. is_logical("MOV") /\ ~is_test("MOV")
  BY DEF is_logical, is_test
<1> DEFINE b == Operand2(cpu, o)
<1>3. Result(cpu, "MOV", 0, o) = Logical(b.value, b.carry, cpu.cpsr)
  BY DEF Result, Compute
<1>4. execute_arm(cpu, Data("MOV", TRUE, rd, 0, o)) = Done(cpu, "MOV", rd, Result(cpu, "MOV", 0, o))
  BY <1>1, ArmData, ZenonT(60)
<1>5. Done(cpu, "MOV", rd, Logical(b.value, b.carry, cpu.cpsr)) = Shift(cpu, rd, b)
  BY <1>2, FlagsOfShifts
<1> QED
  BY <1>3, <1>4, <1>5

(* Sums and comparisons: with the flags of r, to a register or to none. *)
LEMMA Carried ==
  ASSUME NEW cpu, NEW op, NEW rd \in Low, NEW rn \in 0..15, NEW o, o.by # "register"
  PROVE  execute_arm(cpu, Data(op, TRUE, rd, rn, o)) = Done(cpu, op, rd, Result(cpu, op, rn, o))
<1>1. rd \in 0..15 /\ rd # 15
  BY DEF Low
<1> QED
  BY <1>1, ArmData, ZenonT(60)

LEMMA SumDone ==
  ASSUME NEW cpu, NEW op, ~is_logical(op), NEW rd \in Low, NEW rn \in 0..15, NEW o, o.by # "register"
  PROVE  execute_arm(cpu, Data(op, TRUE, rd, rn, o))
          
                   = IF is_test(op) THEN Flagged(cpu, Result(cpu, op, rn, o))
                     ELSE Arith(cpu, rd, Result(cpu, op, rn, o))
<1>1. execute_arm(cpu, Data(op, TRUE, rd, rn, o)) = Done(cpu, op, rd, Result(cpu, op, rn, o))
  BY Carried
<1> QED
  BY <1>1, FlagsOfSums

(* The operands that a Thumb instruction gives its ARM form. *)
LEMMA OperandResult ==
  ASSUME NEW cpu, NEW op, NEW rn, NEW r, NEW v \in Nat
  PROVE  /\ Result(cpu, op, rn, Plain(r)) = Compute(op, cpu.regs[rn], cpu.regs[r], cpu.cpsr.c, cpu.cpsr)
         /\ Result(cpu, op, rn, Number(v)) = Compute(op, cpu.regs[rn], v, cpu.cpsr.c, cpu.cpsr)
         /\ Plain(r).by # "register" /\ Number(v).by # "register"
<1>1. Operand2(cpu, Plain(r)) = Out(cpu.regs[r], cpu.cpsr.c)
  BY PlainOperand
<1>2. Operand2(cpu, Number(v)) = Out(v, cpu.cpsr.c)
  BY NumberOperand
<1>3. \A x, y : Out(x, y).value = x /\ Out(x, y).carry = y
  BY DEF Out
<1>4. /\ Operand2(cpu, Plain(r)).value = cpu.regs[r] /\ Operand2(cpu, Plain(r)).carry = cpu.cpsr.c
      /\ Operand2(cpu, Number(v)).value = v /\ Operand2(cpu, Number(v)).carry = cpu.cpsr.c
  BY <1>1, <1>2, <1>3
<1>5. Plain(r).by # "register" /\ Number(v).by # "register"
  BY DEF Plain, Amount, Number
<1> QED
  BY <1>4, <1>5 DEF Result

(* An instruction is the same in both encodings. *)
Same(cpu, i) == execute_thumb(cpu, i) = execute_arm(cpu, ArmOf(i))

(* The instructions, format by format: with a number or three registers    *)
(* (thumb.rs:89-199, and the ARM data processing, arm.rs:108).             *)
LEMMA ShiftImmSame ==
  ASSUME NEW cpu, IsMachine(cpu), NEW i, i.kind = "shift_imm", i.rd \in Low, i.rs \in Low
  PROVE  Same(cpu, i)
<1> DEFINE o == Amount(i.rs, i.type, i.offset)
           b == barrel_shift(cpu.regs[i.rs], i.type, i.offset, cpu.cpsr.c, TRUE)
<1>1. execute_thumb(cpu, i) = Shift(cpu, i.rd, b)
  BY DEF execute_thumb, thumb_shift_imm
<1>2. ArmOf(i) = Data("MOV", TRUE, i.rd, 0, o)
  BY DEF ArmOf
<1>3. o.by = "amount" /\ o.rm = i.rs /\ o.type = i.type /\ o.n = i.offset
  BY DEF Amount
<1>4. Operand2(cpu, o) = b
  <2>1. (o.by = "register") = FALSE /\ o.by # "value" /\ ~FALSE
    BY <1>3
  <2> HIDE DEF o
  <2>2. Later(cpu, i.rs, FALSE) = cpu.regs[i.rs]
    BY DEF Later
  <2> QED
    BY <1>3, <2>1, <2>2 DEF Operand2
<1> HIDE DEF o, b
<1> QED
  BY <1>1, <1>2, <1>4, MoveShifted DEF Same

LEMMA AddSubSame ==
  ASSUME NEW cpu, IsMachine(cpu), NEW i, i.rd \in Low, i.rs \in Low, i.sub \in BOOLEAN,
         \/ i.kind = "add_sub_reg" /\ i.rn \in Low
         \/ i.kind = "add_sub_imm" /\ i.imm \in Nat
  PROVE  Same(cpu, i)
<1> DEFINE op == AddOrSub(i.sub)
           b == IF i.kind = "add_sub_reg" THEN cpu.regs[i.rn] ELSE i.imm
           o == IF i.kind = "add_sub_reg" THEN Plain(i.rn) ELSE Number(i.imm)
           a == cpu.regs[i.rs]
<1>1. execute_thumb(cpu, i) = Arith(cpu, i.rd, Sum(cpu, i.sub, a, b))
  BY DEF execute_thumb, thumb_add_sub_reg, thumb_add_sub_imm
<1>2. ArmOf(i) = Data(op, TRUE, i.rd, i.rs, o)
  BY DEF ArmOf
<1>3. o.by # "register" /\ Result(cpu, op, i.rs, o) = Compute(op, a, b, cpu.cpsr.c, cpu.cpsr)
  BY OperandResult, Zenon
<1> HIDE DEF o, b
<1>4. Compute(op, a, b, cpu.cpsr.c, cpu.cpsr) = Sum(cpu, i.sub, a, b)
  BY DEF AddOrSub, Sum, Compute
<1>5. ~is_logical(op) /\ ~is_test(op)
  BY DEF AddOrSub, is_logical, is_test
<1>6. i.rs \in 0..15
  BY DEF Low
<1> HIDE DEF op
<1>7. execute_arm(cpu, Data(op, TRUE, i.rd, i.rs, o)) = Arith(cpu, i.rd, Result(cpu, op, i.rs, o))
  BY <1>3, <1>5, <1>6, SumDone, ZenonT(60)
<1> QED
  BY <1>1, <1>2, <1>3, <1>4, <1>7 DEF Same

LEMMA ImmediateSame ==
  ASSUME NEW cpu, IsMachine(cpu), NEW i, i.rd \in Low, i.imm \in Nat,
         i.kind \in {"mov_imm", "cmp_imm", "add_imm", "sub_imm"}
  PROVE  Same(cpu, i)
<1> DEFINE o == Number(i.imm)
           a == cpu.regs[i.rd]
<1>1. i.rd \in 0..15 /\ 0 \in 0..15 /\ 0 \in Low
  BY DEF Low
<1>2. \A op, rn : Result(cpu, op, rn, o) = Compute(op, cpu.regs[rn], i.imm, cpu.cpsr.c, cpu.cpsr)
  BY OperandResult
<1>7. o.by # "register"
  BY OperandResult
<1> HIDE DEF o
<1>3. CASE i.kind = "mov_imm"
  <2>1. execute_thumb(cpu, i) = Logic(cpu, i.rd, i.imm)
    BY <1>3 DEF execute_thumb, thumb_mov_imm
  <2>2. ArmOf(i) = Data("MOV", TRUE, i.rd, 0, o)
    BY <1>3 DEF ArmOf, o
  <2>3. Result(cpu, "MOV", 0, o) = Logical(i.imm, cpu.cpsr.c, cpu.cpsr)
    <3>1. Result(cpu, "MOV", 0, o) = Compute("MOV", cpu.regs[0], i.imm, cpu.cpsr.c, cpu.cpsr)
      BY <1>2
    <3> QED
      BY <3>1 DEF Compute
  <2>4. is_logical("MOV") /\ ~is_test("MOV")
    BY DEF is_logical, is_test
  <2>5. execute_arm(cpu, Data("MOV", TRUE, i.rd, 0, o)) = Logic(cpu, i.rd, i.imm)
    <3>1. execute_arm(cpu, Data("MOV", TRUE, i.rd, 0, o))
            = Done(cpu, "MOV", i.rd, Result(cpu, "MOV", 0, o))
      BY <1>1, <1>7, Carried, ZenonT(60)
    <3>2. Done(cpu, "MOV", i.rd, Logical(i.imm, cpu.cpsr.c, cpu.cpsr)) = Logic(cpu, i.rd, i.imm)
      BY <2>4, FlagsOfLogic
    <3> QED
      BY <2>3, <3>1, <3>2
  <2> QED
    BY <2>1, <2>2, <2>5 DEF Same
<1>4. CASE i.kind = "cmp_imm"
  <2>1. execute_thumb(cpu, i) = Flagged(cpu, sub_with_carry(a, i.imm, TRUE))
    BY <1>4 DEF execute_thumb, thumb_cmp_imm
  <2>2. ArmOf(i) = Data("CMP", TRUE, 0, i.rd, o)
    BY <1>4 DEF ArmOf, o
  <2>3. Result(cpu, "CMP", i.rd, o) = sub_with_carry(a, i.imm, TRUE)
    <3>1. Result(cpu, "CMP", i.rd, o) = Compute("CMP", cpu.regs[i.rd], i.imm, cpu.cpsr.c, cpu.cpsr)
      BY <1>2
    <3> QED
      BY <3>1 DEF Compute
  <2>4. ~is_logical("CMP") /\ is_test("CMP")
    BY DEF is_logical, is_test
  <2>5. execute_arm(cpu, Data("CMP", TRUE, 0, i.rd, o)) = Flagged(cpu, Result(cpu, "CMP", i.rd, o))
    BY <1>1, <1>7, <2>4, SumDone, ZenonT(60)
  <2> QED
    BY <2>1, <2>2, <2>3, <2>5 DEF Same
<1>5. CASE i.kind = "add_imm"
  <2>1. execute_thumb(cpu, i) = Arith(cpu, i.rd, add_with_carry(a, i.imm, FALSE))
    BY <1>5 DEF execute_thumb, thumb_add_imm
  <2>2. ArmOf(i) = Data("ADD", TRUE, i.rd, i.rd, o)
    BY <1>5 DEF ArmOf, o
  <2>3. Result(cpu, "ADD", i.rd, o) = add_with_carry(a, i.imm, FALSE)
    <3>1. Result(cpu, "ADD", i.rd, o) = Compute("ADD", cpu.regs[i.rd], i.imm, cpu.cpsr.c, cpu.cpsr)
      BY <1>2
    <3> QED
      BY <3>1 DEF Compute
  <2>4. ~is_logical("ADD") /\ ~is_test("ADD")
    BY DEF is_logical, is_test
  <2>5. execute_arm(cpu, Data("ADD", TRUE, i.rd, i.rd, o))
          = Arith(cpu, i.rd, Result(cpu, "ADD", i.rd, o))
    BY <1>1, <1>7, <2>4, SumDone, ZenonT(60)
  <2> QED
    BY <2>1, <2>2, <2>3, <2>5 DEF Same
<1>6. CASE i.kind = "sub_imm"
  <2>1. execute_thumb(cpu, i) = Arith(cpu, i.rd, sub_with_carry(a, i.imm, TRUE))
    BY <1>6 DEF execute_thumb, thumb_sub_imm
  <2>2. ArmOf(i) = Data("SUB", TRUE, i.rd, i.rd, o)
    BY <1>6 DEF ArmOf, o
  <2>3. Result(cpu, "SUB", i.rd, o) = sub_with_carry(a, i.imm, TRUE)
    <3>1. Result(cpu, "SUB", i.rd, o) = Compute("SUB", cpu.regs[i.rd], i.imm, cpu.cpsr.c, cpu.cpsr)
      BY <1>2
    <3> QED
      BY <3>1 DEF Compute
  <2>4. ~is_logical("SUB") /\ ~is_test("SUB")
    BY DEF is_logical, is_test
  <2>5. execute_arm(cpu, Data("SUB", TRUE, i.rd, i.rd, o))
          = Arith(cpu, i.rd, Result(cpu, "SUB", i.rd, o))
    BY <1>1, <1>7, <2>4, SumDone, ZenonT(60)
  <2> QED
    BY <2>1, <2>2, <2>3, <2>5 DEF Same
<1> QED
  BY <1>3, <1>4, <1>5, <1>6

(* The sixteen operations on two registers. *)
Sums == {"ADC", "SBC", "CMP", "CMN"}
Logics == {"AND", "EOR", "ORR", "BIC", "MVN", "TST"}

LEMMA AluShiftSame ==
  ASSUME NEW cpu, IsMachine(cpu), NEW i, i.kind = "alu", i.rd \in Low, i.rs \in Low, i.op \in ShiftTypes
  PROVE  Same(cpu, i)
<1> DEFINE o == ByRegister(i.rd, i.op, i.rs)
           b == barrel_shift(cpu.regs[i.rd], i.op, cpu.regs[i.rs] % 256, cpu.cpsr.c, FALSE)
<1>1. execute_thumb(cpu, i) = thumb_alu(cpu, i)
  BY DEF execute_thumb
<1>2. thumb_alu(cpu, i) = Shift(cpu, i.rd, b)
  BY ZenonT(60) DEF thumb_alu, ShiftTypes
<1>3. ArmOf(i) = ArmAlu(i)
  BY DEF ArmOf
<1>4. ArmAlu(i) = Data("MOV", TRUE, i.rd, 0, o)
  BY DEF ArmAlu, ShiftTypes
<1>5. o.by = "register" /\ o.rm = i.rd /\ o.type = i.op /\ o.n = i.rs
  BY DEF ByRegister
<1>6. Operand2(cpu, o) = b
  <2>1. (o.by = "register") = TRUE /\ o.by # "value" /\ ~TRUE = FALSE
    BY <1>5
  <2> HIDE DEF o
  <2>2. Later(cpu, i.rd, TRUE) = cpu.regs[i.rd] /\ Later(cpu, i.rs, TRUE) = cpu.regs[i.rs]
    BY DEF Later, Low
  <2> QED
    BY <1>5, <2>1, <2>2, Zenon DEF Operand2
<1> HIDE DEF o, b
<1> QED
  BY <1>1, <1>2, <1>3, <1>4, <1>6, MoveShifted DEF Same

LEMMA AluSumSame ==
  ASSUME NEW cpu, IsMachine(cpu), NEW i, i.kind = "alu", i.rd \in Low, i.rs \in Low, i.op \in Sums
  PROVE  Same(cpu, i)
<1> DEFINE o == Plain(i.rs)
           a == cpu.regs[i.rd]
           b == cpu.regs[i.rs]
           r == Compute(i.op, a, b, cpu.cpsr.c, cpu.cpsr)
<1>1. execute_thumb(cpu, i) = thumb_alu(cpu, i)
  BY DEF execute_thumb
<1>2. thumb_alu(cpu, i) = IF is_test(i.op) THEN Flagged(cpu, r) ELSE Arith(cpu, i.rd, r)
  <2>1. i.op = "ADC" => thumb_alu(cpu, i) = Arith(cpu, i.rd, add_with_carry(a, b, cpu.cpsr.c))
    BY DEF thumb_alu, ShiftTypes
  <2>2. i.op = "SBC" => thumb_alu(cpu, i) = Arith(cpu, i.rd, sub_with_carry(a, b, cpu.cpsr.c))
    BY DEF thumb_alu, ShiftTypes
  <2>3. i.op = "CMP" => thumb_alu(cpu, i) = Flagged(cpu, sub_with_carry(a, b, TRUE))
    BY DEF thumb_alu, ShiftTypes
  <2>4. i.op = "CMN" => thumb_alu(cpu, i) = Flagged(cpu, add_with_carry(a, b, FALSE))
    BY DEF thumb_alu, ShiftTypes
  <2> QED
    BY <2>1, <2>2, <2>3, <2>4 DEF Sums, is_test, Compute
<1>3. ArmOf(i) = ArmAlu(i)
  BY DEF ArmOf
<1>4. ArmAlu(i) = Data(i.op, TRUE, i.rd, i.rd, o)
  BY DEF ArmAlu, ShiftTypes, Sums
<1>5. i.rd \in 0..15 /\ ~is_logical(i.op)
  BY DEF Low, Sums, is_logical
<1>6. o.by # "register" /\ Result(cpu, i.op, i.rd, o) = r
  BY OperandResult
<1> HIDE DEF o, r
<1>7. execute_arm(cpu, Data(i.op, TRUE, i.rd, i.rd, o))
        = Done(cpu, i.op, i.rd, Result(cpu, i.op, i.rd, o))
  BY <1>5, <1>6, Carried, Zenon
<1>8. Done(cpu, i.op, i.rd, r) = IF is_test(i.op) THEN Flagged(cpu, r) ELSE Arith(cpu, i.rd, r)
  BY <1>5, FlagsOfSums
<1> QED
  BY <1>1, <1>2, <1>3, <1>4, <1>6, <1>7, <1>8 DEF Same

LEMMA AluLogicSame ==
  ASSUME NEW cpu, IsMachine(cpu), NEW i, i.kind = "alu", i.rd \in Low, i.rs \in Low, i.op \in Logics
  PROVE  Same(cpu, i)
<1> DEFINE o == Plain(i.rs)
           a == cpu.regs[i.rd]
           b == cpu.regs[i.rs]
           v == Compute(i.op, a, b, cpu.cpsr.c, cpu.cpsr).value
<1>1. execute_thumb(cpu, i) = thumb_alu(cpu, i)
  BY DEF execute_thumb
<1>2. /\ thumb_alu(cpu, i) = IF is_test(i.op) THEN TestNZ(cpu, v) ELSE Logic(cpu, i.rd, v)
      /\ Compute(i.op, a, b, cpu.cpsr.c, cpu.cpsr) = Logical(v, cpu.cpsr.c, cpu.cpsr)
  <2> DEFINE Is(x) == /\ v = x
                      /\ Compute(i.op, a, b, cpu.cpsr.c, cpu.cpsr) = Logical(x, cpu.cpsr.c, cpu.cpsr)
  <2>1. i.op = "AND" => thumb_alu(cpu, i) = Logic(cpu, i.rd, And(a, b)) /\ Is(And(a, b))
    BY DEF thumb_alu, ShiftTypes, Compute, Logical
  <2>2. i.op = "EOR" => thumb_alu(cpu, i) = Logic(cpu, i.rd, Xor(a, b)) /\ Is(Xor(a, b))
    BY DEF thumb_alu, ShiftTypes, Compute, Logical
  <2>3. i.op = "ORR" => thumb_alu(cpu, i) = Logic(cpu, i.rd, Or(a, b)) /\ Is(Or(a, b))
    BY DEF thumb_alu, ShiftTypes, Compute, Logical
  <2>4. i.op = "BIC" => /\ thumb_alu(cpu, i) = Logic(cpu, i.rd, And(a, Complement(b)))
                        /\ Is(And(a, Complement(b)))
    BY DEF thumb_alu, ShiftTypes, Compute, Logical
  <2>5. i.op = "MVN" => thumb_alu(cpu, i) = Logic(cpu, i.rd, Complement(b)) /\ Is(Complement(b))
    BY DEF thumb_alu, ShiftTypes, Compute, Logical
  <2>6. i.op = "TST" => thumb_alu(cpu, i) = TestNZ(cpu, And(a, b)) /\ Is(And(a, b))
    BY DEF thumb_alu, ShiftTypes, Compute, Logical
  <2>7. is_test(i.op) <=> i.op = "TST"
    BY DEF Logics, is_test
  <2> HIDE DEF v
  <2> QED
    BY <2>1, <2>2, <2>3, <2>4, <2>5, <2>6, <2>7 DEF Logics
<1>3. ArmOf(i) = ArmAlu(i)
  BY DEF ArmOf
<1>4. ArmAlu(i) = Data(i.op, TRUE, i.rd, i.rd, o)
  BY DEF ArmAlu, ShiftTypes, Logics
<1>5. i.rd \in 0..15 /\ is_logical(i.op)
  BY DEF Low, Logics, is_logical
<1>6. o.by # "register" /\ Result(cpu, i.op, i.rd, o) = Compute(i.op, a, b, cpu.cpsr.c, cpu.cpsr)
  BY OperandResult, ZenonT(60)
<1> HIDE DEF o, v
<1>7. execute_arm(cpu, Data(i.op, TRUE, i.rd, i.rd, o))
        = Done(cpu, i.op, i.rd, Result(cpu, i.op, i.rd, o))
  BY <1>5, <1>6, Carried, Zenon
<1>8. Done(cpu, i.op, i.rd, Logical(v, cpu.cpsr.c, cpu.cpsr))
        = IF is_test(i.op) THEN TestNZ(cpu, v) ELSE Logic(cpu, i.rd, v)
  BY <1>5, FlagsOfLogic
<1> QED
  BY <1>1, <1>2, <1>3, <1>4, <1>6, <1>7, <1>8 DEF Same

(* NEG is a subtraction from zero by RSB, MUL the multiplication of arm.rs. *)
LEMMA NegativeSame ==
  ASSUME NEW cpu, IsMachine(cpu), NEW i, i.kind = "alu", i.rd \in Low, i.rs \in Low, i.op = "NEG"
  PROVE  Same(cpu, i)
<1> DEFINE o == Number(0)
           b == cpu.regs[i.rs]
<1>1. execute_thumb(cpu, i) = thumb_alu(cpu, i)
  BY DEF execute_thumb
<1>2. thumb_alu(cpu, i) = Arith(cpu, i.rd, sub_with_carry(0, b, TRUE))
  BY DEF thumb_alu, ShiftTypes
<1>3. ArmOf(i) = ArmAlu(i)
  BY DEF ArmOf
<1>4. ArmAlu(i) = Data("RSB", TRUE, i.rd, i.rs, o)
  BY DEF ArmAlu, ShiftTypes
<1>5. i.rs \in 0..15 /\ ~is_logical("RSB") /\ ~is_test("RSB") /\ 0 \in Nat
  BY DEF Low, is_logical, is_test
<1>6. o.by # "register" /\ Result(cpu, "RSB", i.rs, o) = Compute("RSB", b, 0, cpu.cpsr.c, cpu.cpsr)
  BY <1>5, OperandResult
<1>7. Compute("RSB", b, 0, cpu.cpsr.c, cpu.cpsr) = sub_with_carry(0, b, TRUE)
  BY DEF Compute
<1> HIDE DEF o
<1>8. execute_arm(cpu, Data("RSB", TRUE, i.rd, i.rs, o)) = Arith(cpu, i.rd, Result(cpu, "RSB", i.rs, o))
  BY <1>5, <1>6, SumDone, Zenon
<1> QED
  BY <1>1, <1>2, <1>3, <1>4, <1>6, <1>7, <1>8 DEF Same

LEMMA ProductSame ==
  ASSUME NEW cpu, IsMachine(cpu), NEW i, i.kind = "alu", i.rd \in Low, i.rs \in Low, i.op = "MUL"
  PROVE  Same(cpu, i)
<1> DEFINE j == [kind |-> "multiply", a |-> FALSE, s |-> TRUE, rd |-> i.rd, rm |-> i.rd, rs |-> i.rs]
           p == cpu.regs[i.rd] * cpu.regs[i.rs]
<1>1. execute_thumb(cpu, i) = thumb_alu(cpu, i)
  BY DEF execute_thumb
<1>2. thumb_alu(cpu, i) = Logic(cpu, i.rd, Wrap(p))
  BY DEF thumb_alu, ShiftTypes
<1>3. ArmOf(i) = ArmAlu(i)
  BY DEF ArmOf
<1>4. ArmAlu(i) = j
  BY DEF ArmAlu, ShiftTypes
<1>5. execute_arm(cpu, j) = arm_multiply(cpu, j)
  BY DEF execute_arm
<1>6. p + 0 = p
  <2>1. cpu.regs[i.rd] \in Word /\ cpu.regs[i.rs] \in Word
    BY DEF IsMachine, Low
  <2>2. WORD \in Nat
    BY Words32
  <2>3. cpu.regs[i.rd] \in Int /\ cpu.regs[i.rs] \in Int
    BY <2>1, <2>2 DEF Word
  <2> QED
    BY <2>3
<1> HIDE DEF p
<1>7. arm_multiply(cpu, j) = Logic(cpu, i.rd, Wrap(p))
  BY <1>6 DEF arm_multiply, Logic, TestNZ, Put, p
<1> QED
  BY <1>1, <1>2, <1>3, <1>4, <1>5, <1>7 DEF Same

(* The sixteen operations together. *)
LEMMA AluSame ==
  ASSUME NEW cpu, IsMachine(cpu), NEW i, i.kind = "alu", i.rd \in Low, i.rs \in Low,
         i.op \in ShiftTypes \cup {"AND", "EOR", "ORR", "BIC", "MVN", "MUL", "TST",
                                   "ADC", "SBC", "NEG", "CMP", "CMN"}
  PROVE  Same(cpu, i)
<1>1. i.op \in ShiftTypes \/ i.op \in Sums \/ i.op \in Logics \/ i.op = "NEG" \/ i.op = "MUL"
  BY DEF Sums, Logics
<1> QED
  BY <1>1, AluShiftSame, AluSumSame, AluLogicSame, NegativeSame, ProductSame

(* Without the S bit: the high registers and the addresses. *)
LEMMA Unflagged ==
  ASSUME NEW cpu, NEW op, ~is_test(op), NEW rd \in 0..15, NEW rn \in 0..15, NEW o, o.by # "register"
  PROVE  execute_arm(cpu, Data(op, FALSE, rd, rn, o)) = set_reg(cpu, rd, Result(cpu, op, rn, o).value)
<1>1. execute_arm(cpu, Data(op, FALSE, rd, rn, o))
        = IF is_test(op) THEN cpu ELSE set_reg(cpu, rd, Result(cpu, op, rn, o).value)
  BY ArmData, ZenonT(60)
<1> QED
  BY <1>1

(* What the adder's value is. *)
LEMMA Added ==
  ASSUME NEW a \in Int, NEW b \in Int
  PROVE  /\ add_with_carry(a, b, FALSE).value = Wrap(a + b)
         /\ sub_with_carry(a, b, TRUE).value = Wrap(a - b)
<1>1. WORD \in Nat \ {0}
  BY Words32
<1>2. \A x, y, c : add_with_carry(x, y, c).value = Wrap(x + y + One(c))
  BY DEF add_with_carry
<1>7. One(FALSE) = 0 /\ One(TRUE) = 1 /\ a + b + 0 = a + b
  BY DEF One
<1>3. add_with_carry(a, b, FALSE).value = Wrap(a + b)
  BY <1>2, <1>7
<1>4. sub_with_carry(a, b, TRUE).value = Wrap(a + (WORD - 1 - b) + 1)
  <2> DEFINE x == WORD - 1 - b
  <2>1. sub_with_carry(a, b, TRUE) = add_with_carry(a, x, TRUE)
    BY DEF sub_with_carry, Complement
  <2>2. add_with_carry(a, x, TRUE).value = Wrap(a + x + One(TRUE))
    BY <1>2
  <2> QED
    BY <1>7, <2>1, <2>2
<1>5. a + (WORD - 1 - b) + 1 = (a - b) + WORD
  BY <1>1
<1>6. ((a - b) + WORD) % WORD = (a - b) % WORD
  <2>1. a - b \in Int /\ WORD \in Int
    BY <1>1
  <2>2. PICK q \in Int, t \in 0..(WORD - 1) : a - b = WORD * q + t
    BY Divided, <1>1, <2>1
  <2>3. (a - b) + WORD = WORD * (q + 1) + t /\ q + 1 \in Int
    BY <1>1, <2>2
  <2>4. (WORD * (q + 1) + t) % WORD = t /\ (WORD * q + t) % WORD = t
    BY Remainder, <1>1, <2>2, <2>3
  <2> QED
    BY <2>2, <2>3, <2>4
<1> QED
  BY <1>3, <1>4, <1>5, <1>6 DEF Wrap

(* What a register holds. *)
LEMMA RegistersAre ==
  ASSUME NEW cpu, IsMachine(cpu), NEW r \in 0..15
  PROVE  cpu.regs[r] \in Word /\ cpu.regs[r] \in Nat /\ cpu.regs[r] < WORD
<1>1. cpu.regs[r] \in Word
  BY DEF IsMachine
<1>2. WORD \in Nat
  BY Words32
<1> QED
  BY <1>1, <1>2 DEF Word

(* The high registers and BX (thumb.rs:309). *)
LEMMA HighSame ==
  ASSUME NEW cpu, IsMachine(cpu), NEW i, i.kind = "hi_reg_bx", i.rd \in 0..15, i.rs \in 0..15,
         i.op \in {"ADD", "CMP", "MOV", "BX"}
  PROVE  Same(cpu, i)
<1> DEFINE o == Plain(i.rs)
           a == cpu.regs[i.rd]
           b == cpu.regs[i.rs]
<1>1. execute_thumb(cpu, i) = thumb_hi_reg_bx(cpu, i)
  BY DEF execute_thumb
<1>2. ArmOf(i) = ArmHigh(i)
  BY DEF ArmOf
<1>3. o.by # "register"
  BY OperandResult, 0 \in Nat
<1>4. \A op, rn : Result(cpu, op, rn, o) = Compute(op, cpu.regs[rn], b, cpu.cpsr.c, cpu.cpsr)
  <2>1. 0 \in Nat
    OBVIOUS
  <2> QED
    BY OperandResult, <2>1, ZenonT(60)
<1>5. a \in Int /\ b \in Int
  BY RegistersAre
<1>6. CASE i.op = "BX"
  <2>1. thumb_hi_reg_bx(cpu, i) = branch_exchange(cpu, b)
    BY <1>6 DEF thumb_hi_reg_bx
  <2>2. ArmHigh(i) = [kind |-> "exchange", rm |-> i.rs]
    BY <1>6 DEF ArmHigh
  <2>3. execute_arm(cpu, [kind |-> "exchange", rm |-> i.rs])
          = arm_branch_exchange(cpu, [kind |-> "exchange", rm |-> i.rs])
    BY DEF execute_arm
  <2>4. arm_branch_exchange(cpu, [kind |-> "exchange", rm |-> i.rs]) = branch_exchange(cpu, b)
    BY DEF arm_branch_exchange
  <2> QED
    BY <1>1, <1>2, <2>1, <2>2, <2>3, <2>4 DEF Same
<1> HIDE DEF o
<1>7. CASE i.op = "CMP"
  <2>1. thumb_hi_reg_bx(cpu, i) = Flagged(cpu, sub_with_carry(a, b, TRUE))
    BY <1>7 DEF thumb_hi_reg_bx
  <2>2. ArmHigh(i) = Data("CMP", TRUE, 0, i.rd, o)
    BY <1>7 DEF ArmHigh, o
  <2>3. Result(cpu, "CMP", i.rd, o) = sub_with_carry(a, b, TRUE)
    <3>1. Result(cpu, "CMP", i.rd, o) = Compute("CMP", a, b, cpu.cpsr.c, cpu.cpsr)
      BY <1>4
    <3> QED
      BY <3>1 DEF Compute
  <2>4. ~is_logical("CMP") /\ is_test("CMP") /\ 0 \in Low
    BY DEF is_logical, is_test, Low
  <2>5. execute_arm(cpu, Data("CMP", TRUE, 0, i.rd, o)) = Flagged(cpu, Result(cpu, "CMP", i.rd, o))
    BY <1>3, <2>4, SumDone, Zenon
  <2> QED
    BY <1>1, <1>2, <2>1, <2>2, <2>3, <2>5 DEF Same
<1>8. CASE i.op = "ADD"
  <2>1. thumb_hi_reg_bx(cpu, i) = set_reg(cpu, i.rd, Wrap(a + b))
    BY <1>8 DEF thumb_hi_reg_bx
  <2>2. ArmHigh(i) = Data("ADD", FALSE, i.rd, i.rd, o)
    BY <1>8 DEF ArmHigh, o
  <2>3. Result(cpu, "ADD", i.rd, o).value = Wrap(a + b)
    <3>1. Result(cpu, "ADD", i.rd, o) = Compute("ADD", a, b, cpu.cpsr.c, cpu.cpsr)
      BY <1>4
    <3>2. Compute("ADD", a, b, cpu.cpsr.c, cpu.cpsr) = add_with_carry(a, b, FALSE)
      BY DEF Compute
    <3>3. add_with_carry(a, b, FALSE).value = Wrap(a + b)
      BY <1>5, Added
    <3> QED
      BY <3>1, <3>2, <3>3
  <2>4. ~is_test("ADD")
    BY DEF is_test
  <2>5. execute_arm(cpu, Data("ADD", FALSE, i.rd, i.rd, o))
          = set_reg(cpu, i.rd, Result(cpu, "ADD", i.rd, o).value)
    BY <1>3, <2>4, Unflagged, ZenonT(60)
  <2> QED
    BY <1>1, <1>2, <2>1, <2>2, <2>3, <2>5 DEF Same
<1>9. CASE i.op = "MOV"
  <2>1. thumb_hi_reg_bx(cpu, i) = set_reg(cpu, i.rd, b)
    BY <1>9 DEF thumb_hi_reg_bx
  <2>2. ArmHigh(i) = Data("MOV", FALSE, i.rd, i.rd, o)
    BY <1>9 DEF ArmHigh, o
  <2>3. Result(cpu, "MOV", i.rd, o).value = b
    <3>1. Result(cpu, "MOV", i.rd, o) = Compute("MOV", a, b, cpu.cpsr.c, cpu.cpsr)
      BY <1>4
    <3>2. Compute("MOV", a, b, cpu.cpsr.c, cpu.cpsr) = Logical(b, cpu.cpsr.c, cpu.cpsr)
      BY DEF Compute
    <3> QED
      BY <3>1, <3>2 DEF Logical
  <2>4. ~is_test("MOV")
    BY DEF is_test
  <2>5. execute_arm(cpu, Data("MOV", FALSE, i.rd, i.rd, o))
          = set_reg(cpu, i.rd, Result(cpu, "MOV", i.rd, o).value)
    BY <1>3, <2>4, Unflagged, ZenonT(60)
  <2> QED
    BY <1>1, <1>2, <2>1, <2>2, <2>3, <2>5 DEF Same
<1> QED
  BY <1>6, <1>7, <1>8, <1>9

(* Addresses: of the stack, or of the program counter, which is aligned. *)
LEMMA AddressSame ==
  ASSUME NEW cpu, IsMachine(cpu), NEW i,
         \/ i.kind = "load_address" /\ i.sp \in BOOLEAN /\ i.rd \in Low /\ i.offset \in Nat
         \/ i.kind = "add_sp" /\ i.negative \in BOOLEAN /\ i.offset \in Nat
  PROVE  Same(cpu, i)
<1> DEFINE o == Number(4 * i.offset)
           n == 4 * i.offset
<1>1. n \in Nat
  OBVIOUS
<1>2. o.by # "register"
  BY OperandResult, <1>1
<1>3. \A op, rn : Result(cpu, op, rn, o) = Compute(op, cpu.regs[rn], n, cpu.cpsr.c, cpu.cpsr)
  BY OperandResult, <1>1
<1>4. cpu.regs[13] \in Int /\ cpu.regs[15] \in Int
  BY RegistersAre
<1>5. n \in Int
  BY <1>1
<1> HIDE DEF o
<1>6. CASE i.kind = "load_address"
  <2> DEFINE rn == IF i.sp THEN 13 ELSE 15
             a == cpu.regs[rn]
  <2>1. execute_thumb(cpu, i) = thumb_load_address(cpu, i)
    BY <1>6 DEF execute_thumb
  <2>2. Aligned(cpu.regs[15], 4) = cpu.regs[15]
    BY <1>4 DEF Aligned, IsMachine
  <2>3. thumb_load_address(cpu, i) = Put(cpu, i.rd, Wrap(a + n))
    BY <2>2 DEF thumb_load_address
  <2>4. ArmOf(i) = Data("ADD", FALSE, i.rd, rn, o)
    BY <1>6 DEF ArmOf, o
  <2>5. Result(cpu, "ADD", rn, o) = Compute("ADD", a, n, cpu.cpsr.c, cpu.cpsr)
    BY <1>3
  <2>6. a \in Int /\ rn \in 0..15 /\ i.rd \in 0..15 /\ i.rd # 15
    BY <1>4, <1>6 DEF Low
  <2> HIDE DEF a, n, rn
  <2>7. Compute("ADD", a, n, cpu.cpsr.c, cpu.cpsr) = add_with_carry(a, n, FALSE)
    BY DEF Compute
  <2>8. Result(cpu, "ADD", rn, o).value = Wrap(a + n)
    BY <1>5, <2>5, <2>6, <2>7, Added, ZenonT(60)
  <2>9. ~is_test("ADD")
    BY DEF is_test
  <2>10. execute_arm(cpu, Data("ADD", FALSE, i.rd, rn, o))
          = set_reg(cpu, i.rd, Result(cpu, "ADD", rn, o).value)
    BY <1>2, <2>6, <2>9, Unflagged, ZenonT(60)
  <2>11. set_reg(cpu, i.rd, Wrap(a + n)) = Put(cpu, i.rd, Wrap(a + n))
    BY <2>6 DEF set_reg, Put
  <2> QED
    BY <2>1, <2>3, <2>4, <2>8, <2>10, <2>11 DEF Same
<1>7. CASE i.kind = "add_sp"
  <2> DEFINE a == cpu.regs[13]
             op == AddOrSub(i.negative)
             v == Wrap(IF i.negative THEN a - n ELSE a + n)
  <2>1. execute_thumb(cpu, i) = thumb_add_sp(cpu, i)
    BY <1>7 DEF execute_thumb
  <2>2. thumb_add_sp(cpu, i) = Put(cpu, 13, v)
    BY <1>7 DEF thumb_add_sp, Offset
  <2>3. ArmOf(i) = Data(op, FALSE, 13, 13, o)
    BY <1>7 DEF ArmOf, o
  <2>4. Result(cpu, op, 13, o) = Compute(op, a, n, cpu.cpsr.c, cpu.cpsr)
    BY <1>3
  <2>5. Compute(op, a, n, cpu.cpsr.c, cpu.cpsr)
          = IF i.negative THEN sub_with_carry(a, n, TRUE) ELSE add_with_carry(a, n, FALSE)
    BY <1>7 DEF Compute, AddOrSub
  <2> HIDE DEF n
  <2>6. Result(cpu, op, 13, o).value = v
    <3>1. /\ add_with_carry(a, n, FALSE).value = Wrap(a + n)
          /\ sub_with_carry(a, n, TRUE).value = Wrap(a - n)
      BY <1>4, <1>5, Added
    <3> QED
      BY <1>7, <2>4, <2>5, <3>1
  <2>7. ~is_test(op) /\ 13 \in 0..15 /\ 13 # 15
    BY DEF is_test, AddOrSub
  <2> HIDE DEF op, v
  <2>8. execute_arm(cpu, Data(op, FALSE, 13, 13, o)) = set_reg(cpu, 13, Result(cpu, op, 13, o).value)
    BY <1>2, <2>7, Unflagged, ZenonT(60)
  <2>9. set_reg(cpu, 13, v) = Put(cpu, 13, v)
    BY DEF set_reg, Put
  <2> QED
    BY <2>1, <2>2, <2>3, <2>6, <2>8, <2>9 DEF Same
<1> QED
  BY <1>6, <1>7

(* Branches and software interrupts. *)
LEMMA BranchSame ==
  ASSUME NEW cpu, IsMachine(cpu), NEW i,
         \/ i.kind = "branch" \/ i.kind = "swi"
         \/ i.kind = "cond_branch" /\ check_condition(cpu.cpsr, i.cond)
  PROVE  Same(cpu, i)
<1>1. CASE i.kind = "swi"
  <2>1. execute_thumb(cpu, i) = thumb_swi(cpu, i)
    BY <1>1 DEF execute_thumb
  <2>2. ArmOf(i) = [kind |-> "swi", comment |-> i.comment]
    BY <1>1 DEF ArmOf
  <2>3. execute_arm(cpu, [kind |-> "swi", comment |-> i.comment])
          = arm_swi(cpu, [kind |-> "swi", comment |-> i.comment])
    BY DEF execute_arm
  <2> QED
    BY <2>1, <2>2, <2>3 DEF Same, thumb_swi, arm_swi
<1>2. CASE i.kind \in {"branch", "cond_branch"}
  <2> DEFINE j == [kind |-> "branch", link |-> FALSE, offset |-> i.offset]
             a == Wrap(cpu.regs[15] + i.offset)
  <2>1. execute_thumb(cpu, i) = branch(cpu, a)
    BY <1>2 DEF execute_thumb, thumb_branch, thumb_cond_branch
  <2>2. ArmOf(i) = j
    BY <1>2 DEF ArmOf
  <2>3. execute_arm(cpu, j) = arm_branch(cpu, j)
    BY DEF execute_arm
  <2>4. [cpu EXCEPT !.regs[14] = cpu.regs[14]] = cpu
    BY DEF IsMachine, CpuFields
  <2>5. arm_branch(cpu, j) = branch(cpu, a)
    BY <2>4 DEF arm_branch
  <2> QED
    BY <2>1, <2>2, <2>3, <2>5 DEF Same
<1> QED
  BY <1>1, <1>2

(* Loads and stores of one register. *)
Indexed(cpu, rn, n) == Wrap(cpu.regs[rn] + n)

(* A load or store with its offset added before, and its base left alone. *)
LEMMA SingleIs ==
  ASSUME NEW cpu, IsMachine(cpu), NEW kind \in {"single", "halfword"}, NEW j, j.rd \in Low, NEW rn,
         NEW o, NEW n,
         \/ o.by = "value" /\ o.value = n
         \/ o.by # "value" /\ Operand2(cpu, o).value = n /\ cpu.regs[o.rm] = n
  PROVE  execute_arm(cpu, Single(kind, j, rn, o)) = Move(cpu, j, j.size, Indexed(cpu, rn, n))
<1> DEFINE i == Single(kind, j, rn, o)
           a == Wrap(cpu.regs[rn] + n)
           x == IF j.l THEN set_reg(cpu, j.rd, Loaded(cpu, j.size, a))
                ELSE Stored(cpu, j.size, a, cpu.regs[j.rd])
<1>1. /\ i.kind = kind /\ i.size = j.size /\ i.l = j.l /\ i.p = TRUE /\ i.u = TRUE /\ i.w = FALSE
      /\ i.rn = rn /\ i.rd = j.rd /\ i.operand = o
  BY DEF Single
<1>2. j.rd # 15
  BY DEF Low
<1> HIDE DEF i
<1>3. \A y : KeepBase(y, i, a) = y
  BY <1>1 DEF KeepBase
<1>4. Offset(cpu.regs[rn], TRUE, n) = a
  BY DEF Offset
<1> HIDE DEF a
<1>5. Transfer(cpu, i, n, cpu.regs[j.rd]) = x
  <2>1. Offset(cpu.regs[i.rn], i.u, n) = a
    BY <1>1, <1>4
  <2>2. (IF i.p THEN a ELSE cpu.regs[i.rn]) = a
    BY <1>1
  <2>3. (IF i.l THEN set_reg(cpu, i.rd, Loaded(cpu, i.size, a))
         ELSE Stored(cpu, i.size, a, cpu.regs[j.rd])) = x
    BY <1>1
  <2> HIDE DEF x
  <2> QED
    BY <1>3, <2>1, <2>2, <2>3 DEF Transfer
<1>6. execute_arm(cpu, i) = Transfer(cpu, i, n, cpu.regs[j.rd])
  <2>1. CASE kind = "single"
    <3>1. execute_arm(cpu, i) = arm_single_transfer(cpu, i)
      BY <1>1, <2>1 DEF execute_arm
    <3> QED
      BY <1>1, <1>2, <3>1 DEF arm_single_transfer
  <2>2. CASE kind = "halfword"
    <3>1. execute_arm(cpu, i) = arm_halfword_transfer(cpu, i)
      BY <1>1, <2>2 DEF execute_arm
    <3> QED
      BY <1>1, <3>1 DEF arm_halfword_transfer
  <2> QED
    BY <2>1, <2>2
<1>7. x = Move(cpu, j, j.size, a)
  BY <1>2 DEF Move, set_reg, Put
<1> QED
  BY <1>5, <1>6, <1>7 DEF a, i, Indexed

LEMMA SingleNumber ==
  ASSUME NEW cpu, IsMachine(cpu), NEW kind \in {"single", "halfword"}, NEW j, j.rd \in Low, NEW rn,
         NEW v \in Nat
  PROVE  execute_arm(cpu, Single(kind, j, rn, Number(v))) = Move(cpu, j, j.size, Wrap(cpu.regs[rn] + v))
<1>1. Number(v).by = "value" /\ Number(v).value = v
  BY DEF Number
<1>2. execute_arm(cpu, Single(kind, j, rn, Number(v))) = Move(cpu, j, j.size, Indexed(cpu, rn, v))
  BY <1>1, SingleIs
<1> QED
  BY <1>2 DEF Indexed

LEMMA SinglePlain ==
  ASSUME NEW cpu, IsMachine(cpu), NEW kind \in {"single", "halfword"}, NEW j, j.rd \in Low, NEW rn,
         NEW r
  PROVE  execute_arm(cpu, Single(kind, j, rn, Plain(r)))
          = Move(cpu, j, j.size, Wrap(cpu.regs[rn] + cpu.regs[r]))
<1> DEFINE o == Plain(r)
           n == cpu.regs[r]
<1>1. o.by # "value" /\ o.rm = r
  BY DEF Plain, Amount
<1>2. Operand2(cpu, o).value = n
  BY PlainOperand DEF Out
<1>3. cpu.regs[o.rm] = n
  BY <1>1
<1> HIDE DEF o, n
<1>4. execute_arm(cpu, Single(kind, j, rn, o)) = Move(cpu, j, j.size, Indexed(cpu, rn, n))
  BY <1>1, <1>2, <1>3, SingleIs
<1> QED
  BY <1>4 DEF o, n, Indexed

(* The loads and stores of one register. *)
LEMMA MoveSame ==
  ASSUME NEW cpu, IsMachine(cpu), NEW i, i.rd \in Low,
         \/ i.kind = "load_store_reg"
         \/ i.kind \in {"load_store_imm", "load_store_half", "load_store_sp"} /\ i.offset \in Nat
  PROVE  Same(cpu, i)
<1>1. CASE i.kind = "load_store_reg"
  <2> DEFINE kind == IF i.size \in {"W", "B"} THEN "single" ELSE "halfword"
  <2>1. execute_thumb(cpu, i) = thumb_load_store_reg(cpu, i)
    BY <1>1 DEF execute_thumb
  <2>2. ArmOf(i) = Single(kind, i, i.rb, Plain(i.ro))
    BY <1>1 DEF ArmOf
  <2>3. kind \in {"single", "halfword"} /\ 0 \in Nat
    OBVIOUS
  <2> HIDE DEF kind
  <2>4. execute_arm(cpu, Single(kind, i, i.rb, Plain(i.ro)))
          = Move(cpu, i, i.size, Wrap(cpu.regs[i.rb] + cpu.regs[i.ro]))
    BY <2>3, SinglePlain
  <2> QED
    BY <2>1, <2>2, <2>4 DEF Same, thumb_load_store_reg
<1>2. CASE i.kind = "load_store_imm" /\ i.offset \in Nat
  <2> DEFINE v == (IF i.size = "B" THEN 1 ELSE 4) * i.offset
  <2>1. execute_thumb(cpu, i) = Move(cpu, i, i.size, Wrap(cpu.regs[i.rb] + v))
    BY <1>2 DEF execute_thumb, thumb_load_store_imm
  <2>2. ArmOf(i) = Single("single", i, i.rb, Number(v))
    BY <1>2 DEF ArmOf
  <2>3. v \in Nat
    BY <1>2
  <2> HIDE DEF v
  <2>4. execute_arm(cpu, Single("single", i, i.rb, Number(v)))
          = Move(cpu, i, i.size, Wrap(cpu.regs[i.rb] + v))
    BY <2>3, SingleNumber
  <2> QED
    BY <2>1, <2>2, <2>4 DEF Same
<1>3. CASE i.kind \in {"load_store_half", "load_store_sp"} /\ i.offset \in Nat
  <2> DEFINE size == IF i.kind = "load_store_half" THEN "H" ELSE "W"
             kind == IF i.kind = "load_store_half" THEN "halfword" ELSE "single"
             rn == IF i.kind = "load_store_half" THEN i.rb ELSE 13
             v == IF i.kind = "load_store_half" THEN 2 * i.offset ELSE 4 * i.offset
             j == Sized(i, size, i.l)
  <2>1. execute_thumb(cpu, i) = Move(cpu, i, size, Wrap(cpu.regs[rn] + v))
    BY <1>3 DEF execute_thumb, thumb_load_store_half, thumb_load_store_sp
  <2>2. ArmOf(i) = Single(kind, j, rn, Number(v))
    BY <1>3 DEF ArmOf
  <2>3. v \in Nat /\ kind \in {"single", "halfword"}
    BY <1>3
  <2>4. j.rd = i.rd /\ j.l = i.l /\ j.size = size
    BY DEF Sized
  <2> HIDE DEF v, j, size, kind, rn
  <2>5. execute_arm(cpu, Single(kind, j, rn, Number(v))) = Move(cpu, j, j.size, Wrap(cpu.regs[rn] + v))
    BY <2>3, <2>4, SingleNumber
  <2>6. \A a : Move(cpu, j, size, a) = Move(cpu, i, size, a)
    BY <2>4 DEF Move
  <2> QED
    BY <2>1, <2>2, <2>4, <2>5, <2>6 DEF Same
<1> QED
  BY <1>1, <1>2, <1>3

(* A word read from memory, and an address that is aligned. *)
LEMMA CellIs ==
  ASSUME NEW a \in Int
  PROVE  Cell(a) \in Cells
<1>1. SIZE \in Nat \ {0} /\ SIZE % 4 = 0
  BY EncodingsAssumption
<1>2. a % SIZE \in 0..SIZE-1
  BY <1>1
<1> DEFINE x == a % SIZE
<1>3. x \in Nat /\ x < SIZE
  BY <1>1, <1>2
<1> HIDE DEF x
<1>4. x \div 4 \in 0..(SIZE \div 4)-1
  BY <1>1, <1>3
<1> QED
  BY <1>4 DEF Cell, Cells, x

(* What is read, and a load from beside the program counter. *)
LEMMA WordsRead ==
  ASSUME NEW cpu, IsMachine(cpu), NEW a \in Int
  PROVE  read32(cpu, a) \in Word /\ read32(cpu, a) \in Nat
<1>1. Cell(a) \in Cells
  BY CellIs
<1>2. WORD \in Nat
  BY Words32
<1> QED
  BY <1>1, <1>2 DEF IsMachine, read32, Word

LEMMA LoadPcSame ==
  ASSUME NEW cpu, IsMachine(cpu), NEW i, i.kind = "ldr_pc", i.rd \in Low, i.offset \in Nat
  PROVE  Same(cpu, i)
<1> DEFINE v == 4 * i.offset
           j == Sized(i, "W", TRUE)
           p == cpu.regs[15]
           a == Wrap(p + v)
<1>1. v \in Nat /\ p \in Nat /\ p % 4 = 0 /\ v % 4 = 0
  BY RegistersAre, SMTT(40) DEF IsMachine
<1>2. execute_thumb(cpu, i) = thumb_ldr_pc(cpu, i)
  BY DEF execute_thumb
<1>3. Aligned(cpu.regs[15], 4) = p
  BY <1>1 DEF Aligned
<1>4. thumb_ldr_pc(cpu, i) = Put(cpu, i.rd, read32(cpu, a))
  BY <1>3 DEF thumb_ldr_pc
<1>5. ArmOf(i) = Single("single", j, 15, Number(v))
  BY DEF ArmOf
<1>6. j.rd = i.rd /\ j.l = TRUE /\ j.size = "W"
  BY DEF Sized
<1> HIDE DEF j, v, p
<1>7. execute_arm(cpu, Single("single", j, 15, Number(v)))
        = Move(cpu, j, j.size, Wrap(cpu.regs[15] + v))
  BY <1>1, <1>6, SingleNumber
<1>8. a \in Int /\ a % 4 = 0
  <2>1. WORD \in Nat \ {0} /\ WORD % 4 = 0
    BY Words32
  <2>2. PICK k \in Nat : WORD = 4 * k
    <3>1. WORD = 4 * (WORD \div 4) /\ WORD \div 4 \in Nat
      BY <2>1
    <3> QED
      BY <3>1
  <2>3. p + v \in Nat /\ (p + v) % 4 = 0
    BY <1>1
  <2>4. PICK q \in Nat, r \in 0..(WORD - 1) : p + v = WORD * q + r /\ (p + v) % WORD = r
    <3>1. /\ (p + v) \div WORD \in Nat /\ (p + v) % WORD \in 0..(WORD - 1)
          /\ p + v = WORD * ((p + v) \div WORD) + ((p + v) % WORD)
      BY <2>1, <2>3, Division
    <3> QED
      BY <3>1
  <2>5. r % 4 = 0
    <3> DEFINE z == k * q
    <3>1. z \in Nat /\ WORD * q = 4 * z
      BY <2>2
    <3> HIDE DEF z
    <3>2. p + v = 4 * z + r
      BY <2>4, <3>1
    <3> QED
      BY <2>1, <2>3, <3>1, <3>2
  <2> QED
    BY <2>1, <2>4, <2>5 DEF Wrap
<1> HIDE DEF a
<1>9. Loaded(cpu, "W", a) = read32(cpu, a)
  <2>1. Loaded(cpu, "W", a) = rotate_right(read32(cpu, a), (a % 4) * B8)
    BY DEF Loaded
  <2>2. (a % 4) * B8 = 0
    <3>1. B8 \in Int
      BY Words32 DEF B8
    <3> QED
      BY <1>8, <3>1
  <2> QED
    BY <1>8, <2>1, <2>2, Unrotated, WordsRead
<1>10. Move(cpu, j, "W", a) = Put(cpu, i.rd, read32(cpu, a))
  BY <1>6, <1>9 DEF Move
<1> QED
  BY <1>2, <1>4, <1>5, <1>6, <1>7, <1>10 DEF Same, a, p

(* Stores and loads of several registers, the base kept at the next word. *)
LEMMA Counted ==
  ASSUME NEW list \in SUBSET (0..15)
  PROVE  IsFiniteSet(list) /\ Cardinality(list) \in Nat
<1>1. IsFiniteSet(0..15)
  <2> DEFINE n == 15
  <2>1. n \in Int
    OBVIOUS
  <2> HIDE DEF n
  <2>2. IsFiniteSet(0..n)
    BY <2>1, FS_Interval
  <2> QED
    BY <2>2 DEF n
<1> QED
  BY <1>1, FS_Subset, FS_CardinalityType

(* A store of several registers. *)
LEMMA WordsWrap ==
  ASSUME NEW x \in Word
  PROVE  Wrap(x) = x
<1>1. WORD \in Nat \ {0}
  BY Words32
<1>2. x \in 0..(WORD - 1)
  BY DEF Word
<1> QED
  BY <1>1, <1>2, NoWrap DEF Wrap

LEMMA PutSame ==
  ASSUME NEW cpu, NEW list, NEW a, NEW v, NEW w, \A r \in list : v[r] = w[r]
  PROVE  PutList(cpu, list, a, v) = PutList(cpu, list, a, w)
<1> DEFINE here(c) == {r \in list : Cell(Wrap(a + 4 * Below(list, r))) = c}
<1>1. \A c : here(c) # {} => (CHOOSE r \in here(c) : TRUE) \in list
  OBVIOUS
<1>2. PutList(cpu, list, a, v)
        = [cpu EXCEPT !.mem = [c \in DOMAIN @ |->
             IF here(c) = {} THEN @[c] ELSE v[CHOOSE r \in here(c) : TRUE]]]
  BY DEF PutList
<1>3. PutList(cpu, list, a, w)
        = [cpu EXCEPT !.mem = [c \in DOMAIN @ |->
             IF here(c) = {} THEN @[c] ELSE w[CHOOSE r \in here(c) : TRUE]]]
  BY DEF PutList
<1> HIDE DEF here
<1>4. \A c : here(c) # {} => v[CHOOSE r \in here(c) : TRUE] = w[CHOOSE r \in here(c) : TRUE]
  BY <1>1
<1>5. [c \in DOMAIN cpu.mem |-> IF here(c) = {} THEN cpu.mem[c] ELSE v[CHOOSE r \in here(c) : TRUE]]
        = [c \in DOMAIN cpu.mem |-> IF here(c) = {} THEN cpu.mem[c] ELSE w[CHOOSE r \in here(c) : TRUE]]
  BY <1>4
<1> QED
  BY <1>2, <1>3, <1>5

(* The registers as a store puts them. *)
ToStore(cpu, i, final) ==
  [r \in 0..15 |-> IF r = i.rn /\ r \in i.list /\ Below(i.list, r) > 0 THEN final ELSE cpu.regs[r]]

LEMMA StoresAre ==
  ASSUME NEW cpu, NEW i, NEW a, NEW final, i.s = FALSE, i.w = TRUE, i.list \in SUBSET (0..15),
         15 \notin i.list
  PROVE  StoreList(cpu, i, a, final) = PutList(cpu, i.list, a, ToStore(cpu, i, final))
<1> DEFINE value == ToStore(cpu, i, final)
<1>7. \A r \in i.list : value[r]
        = IF r = i.rn /\ i.w /\ Below(i.list, r) > 0 THEN final ELSE cpu.regs[r]
  BY DEF ToStore
<1> HIDE DEF value
<1> DEFINE V(r) == CASE r = 15 -> Wrap(cpu.regs[15] + 4)
                     [] r # 15 /\ r = i.rn /\ i.w /\ Below(i.list, r) > 0 -> final
                     [] OTHER -> IF i.s THEN read_user_reg(cpu, r) ELSE cpu.regs[r]
           Place(r) == Cell(Wrap(a + 4 * Below(i.list, r)))
           here(c) == {r \in i.list : Place(r) = c}
<1>1. \A r \in i.list : V(r) = value[r]
  <2> SUFFICES ASSUME NEW r \in i.list PROVE V(r) = value[r]
    OBVIOUS
  <2>1. r # 15
    OBVIOUS
  <2>2. CASE r = i.rn /\ i.w /\ Below(i.list, r) > 0
    <3>1. value[r] = final
      BY <1>7, <2>2
    <3>2. V(r) = final
      BY <2>1, <2>2
    <3> QED
      BY <3>1, <3>2
  <2>3. CASE ~(r = i.rn /\ i.w /\ Below(i.list, r) > 0)
    <3>1. value[r] = cpu.regs[r]
      BY <1>7, <2>3
    <3>2. V(r) = cpu.regs[r]
      BY <2>1, <2>3
    <3> QED
      BY <3>1, <3>2
  <2> QED
    BY <2>2, <2>3
<1>2. \A c : here(c) # {} => (CHOOSE r \in here(c) : TRUE) \in i.list
  OBVIOUS
<1>3. \A c : here(c) # {} => V(CHOOSE r \in here(c) : TRUE) = value[CHOOSE r \in here(c) : TRUE]
  <2> HIDE DEF V, here
  <2> QED
    BY <1>1, <1>2
<1>4. StoreList(cpu, i, a, final)
        = [cpu EXCEPT !.mem = [c \in DOMAIN @ |->
             IF here(c) = {} THEN @[c] ELSE V(CHOOSE r \in here(c) : TRUE)]]
  BY DEF StoreList
<1>5. PutList(cpu, i.list, a, value)
        = [cpu EXCEPT !.mem = [c \in DOMAIN @ |->
             IF here(c) = {} THEN @[c] ELSE value[CHOOSE r \in here(c) : TRUE]]]
  BY DEF PutList
<1> HIDE DEF V, here
<1>6. [c \in DOMAIN cpu.mem |-> IF here(c) = {} THEN cpu.mem[c] ELSE V(CHOOSE r \in here(c) : TRUE)]
       
                = [c \in DOMAIN cpu.mem |->
                     IF here(c) = {} THEN cpu.mem[c] ELSE value[CHOOSE r \in here(c) : TRUE]]
  BY <1>3
<1> QED
  BY <1>4, <1>5, <1>6 DEF value

(* Where a block begins, and where its base goes. *)
First(cpu, i) == Start(cpu.regs[i.rn], i, 4 * Cardinality(i.list))
After(cpu, i) == Offset(cpu.regs[i.rn], i.u, 4 * Cardinality(i.list))

(* The ARM block transfer, by its first address and its last. *)
LEMMA BlockExecuted ==
  ASSUME NEW cpu, NEW i, i.kind = "block", i.w = TRUE, i.list # {}, i.l \in BOOLEAN
  PROVE  execute_arm(cpu, i)
           = IF ~i.l THEN Put(StoreList(cpu, i, First(cpu, i), After(cpu, i)), i.rn, After(cpu, i))
             ELSE IF i.rn \in i.list THEN LoadList(cpu, i, First(cpu, i))
             ELSE Put(LoadList(cpu, i, First(cpu, i)), i.rn, After(cpu, i))
<1> DEFINE a == First(cpu, i)
           final == After(cpu, i)
           moved == IF i.l THEN LoadList(cpu, i, a) ELSE StoreList(cpu, i, a, final)
<1>1. execute_arm(cpu, i) = arm_block_transfer(cpu, i)
  BY DEF execute_arm
<1>2. arm_block_transfer(cpu, i)
        = IF ~(i.l /\ i.rn \in i.list) THEN [moved EXCEPT !.regs[i.rn] = final] ELSE moved
  BY DEF arm_block_transfer, First, After
<1> HIDE DEF a, final
<1>3. CASE i.l = FALSE
  BY <1>1, <1>2, <1>3 DEF Put, a, final
<1>4. CASE i.l = TRUE
  BY <1>1, <1>2, <1>4 DEF Put, a, final
<1> QED
  BY <1>3, <1>4

(* PUSH and STMIA. *)
LEMMA PushSame ==
  ASSUME NEW cpu, IsMachine(cpu), NEW i, i.kind = "push", i.list \in SUBSET Low, i.lr \in BOOLEAN,
         i.lr \/ i.list # {}
  PROVE  Same(cpu, i)
<1> DEFINE list == i.list \cup (IF i.lr THEN {14} ELSE {})
           n == 4 * Cardinality(list)
           base == cpu.regs[13]
           a == Wrap(base - n)
           j == Block(FALSE, TRUE, FALSE, 13, list)
<1>1. list \in SUBSET (0..15) /\ list # {} /\ 15 \notin list /\ 13 \notin list
  BY DEF Low
<1>2. execute_thumb(cpu, i) = thumb_push(cpu, i)
  BY DEF execute_thumb
<1>3. thumb_push(cpu, i) = Put(PutList(cpu, list, a, cpu.regs), 13, a)
  BY DEF thumb_push
<1>4. ArmOf(i) = j
  BY DEF ArmOf
<1> HIDE DEF list
<1>5. n \in Int /\ base \in Int /\ n = 4 * Cardinality(list)
  BY <1>1, Counted, RegistersAre
<1>6. /\ j.kind = "block" /\ j.l = FALSE /\ j.p = TRUE /\ j.u = FALSE /\ j.s = FALSE /\ j.w = TRUE
      /\ j.rn = 13 /\ j.list = list
  BY DEF Block
<1> HIDE DEF n
<1>7. a = First(cpu, j) /\ a = After(cpu, j)
  <2>1. base - n + 0 = base - n
    BY <1>5
  <2> HIDE DEF j
  <2> QED
    BY <1>5, <1>6, <2>1 DEF Start, Offset, First, After
<1> HIDE DEF j, a
<1>9. execute_arm(cpu, j) = Put(StoreList(cpu, j, a, a), 13, a)
  <2>1. execute_arm(cpu, j) = Put(StoreList(cpu, j, First(cpu, j), After(cpu, j)), j.rn, After(cpu, j))
    BY <1>1, <1>6, BlockExecuted
  <2> QED
    BY <1>6, <1>7, <2>1
<1>10. StoreList(cpu, j, a, a) = PutList(cpu, j.list, a, cpu.regs)
  <2>1. StoreList(cpu, j, a, a) = PutList(cpu, j.list, a, ToStore(cpu, j, a))
    BY <1>1, <1>6, StoresAre
  <2>2. ToStore(cpu, j, a) = cpu.regs
    <3>1. cpu.regs = [r \in 0..15 |-> cpu.regs[r]]
      BY DEF IsMachine
    <3>2. \A r \in 0..15 : ~(r = j.rn /\ r \in j.list)
      BY <1>1, <1>6
    <3> QED
      BY <3>1, <3>2 DEF ToStore
  <2> QED
    BY <2>1, <2>2
<1> QED
  BY <1>2, <1>3, <1>4, <1>6, <1>9, <1>10 DEF Same

LEMMA StoreManySame ==
  ASSUME NEW cpu, IsMachine(cpu), NEW i, i.kind = "stmia", i.list \in SUBSET Low, i.list # {},
         i.rb \in Low
  PROVE  Same(cpu, i)
<1> DEFINE list == i.list
           n == 4 * Cardinality(list)
           a == cpu.regs[i.rb]
           final == Wrap(a + n)
           value == IF Below(list, i.rb) > 0 THEN [cpu.regs EXCEPT ![i.rb] = final] ELSE cpu.regs
           j == Block(FALSE, FALSE, TRUE, i.rb, list)
<1>1. list \in SUBSET (0..15) /\ list # {} /\ 15 \notin list /\ i.rb \in 0..15
  BY DEF Low
<1>2. execute_thumb(cpu, i) = thumb_stmia(cpu, i)
  BY DEF execute_thumb
<1>3. thumb_stmia(cpu, i) = Put(PutList(cpu, list, a, value), i.rb, final)
  BY DEF thumb_stmia
<1>4. ArmOf(i) = j
  BY DEF ArmOf
<1>5. n \in Int /\ a \in Int /\ a \in Word /\ n = 4 * Cardinality(list)
  BY <1>1, Counted, RegistersAre
<1>6. /\ j.kind = "block" /\ j.l = FALSE /\ j.p = FALSE /\ j.u = TRUE /\ j.s = FALSE /\ j.w = TRUE
      /\ j.rn = i.rb /\ j.list = list
  BY DEF Block
<1>7. \A r \in list : value[r] = IF r = i.rb /\ Below(list, r) > 0 THEN final ELSE cpu.regs[r]
  <2>1. DOMAIN cpu.regs = 0..15
    BY DEF IsMachine
  <2> HIDE DEF final, list
  <2> QED
    BY <1>1, <2>1
<1> HIDE DEF list, n, value
<1> HIDE DEF j
<1>8. a = First(cpu, j) /\ final = After(cpu, j)
  <2>1. a + 0 = a /\ Wrap(a) = a
    BY <1>5, WordsWrap
  <2> QED
    BY <1>5, <1>6, <2>1 DEF Start, Offset, First, After
<1> HIDE DEF final
<1>10. execute_arm(cpu, j) = Put(StoreList(cpu, j, a, final), i.rb, final)
  <2>1. execute_arm(cpu, j) = Put(StoreList(cpu, j, First(cpu, j), After(cpu, j)), j.rn, After(cpu, j))
    BY <1>1, <1>6, BlockExecuted
  <2> QED
    BY <1>6, <1>8, <2>1
<1>11. StoreList(cpu, j, a, final) = PutList(cpu, j.list, a, value)
  <2>1. StoreList(cpu, j, a, final) = PutList(cpu, j.list, a, ToStore(cpu, j, final))
    BY <1>1, <1>6, StoresAre
  <2>2. \A r \in list : ToStore(cpu, j, final)[r] = value[r]
    BY <1>1, <1>6, <1>7 DEF ToStore
  <2> QED
    BY <1>6, <2>1, <2>2, PutSame
<1> QED
  BY <1>2, <1>3, <1>4, <1>6, <1>10, <1>11 DEF Same

(* The machine when the registers below k are loaded. *)
Loading(cpu, list, a, k) ==
  [cpu EXCEPT !.regs = [r \in DOMAIN @ |->
     IF r \in list /\ r < k THEN read32(cpu, Wrap(a + 4 * Below(list, r))) ELSE @[r]]]

(* A load of several registers, one after the other, is one of all of them. *)
LEMMA LoadsAre ==
  ASSUME NEW cpu, IsMachine(cpu), NEW i, i.s = FALSE, i.list \in SUBSET (0..15), NEW a
  PROVE  LoadList(cpu, i, a)
           = IF 15 \in i.list
             THEN set_reg(Loading(cpu, i.list, a, 15), 15, read32(cpu, Wrap(a + 4 * Below(i.list, 15))))
             ELSE Loading(cpu, i.list, a, 15)
<1> DEFINE list == i.list
           V(r) == read32(cpu, Wrap(a + 4 * Below(i.list, r)))
           Load(r, n) ==
             CASE r \notin i.list -> n
               [] r = 15 /\ r \in i.list ->
                    branch(IF i.s THEN restore_psr(n) ELSE n, V(r) - (V(r) % 2))
               [] r # 15 /\ r \in i.list /\ i.s /\ 15 \notin i.list -> write_user_reg(n, r, V(r))
               [] OTHER -> [n EXCEPT !.regs[r] = V(r)]
           Part(k) == Loading(cpu, list, a, k)
           All == IF 15 \in list THEN branch(Part(15), V(15) - (V(15) % 2)) ELSE Part(15)
           Body(g) == [r \in 0..16 |-> IF r = 0 THEN cpu ELSE Load(r - 1, g[r - 1])]
           h == CHOOSE g : g = Body(g)
<1>1. LoadList(cpu, i, a) = h[16]
  BY DEF LoadList
<1>2. Part(0) = cpu
  <2>1. \A r \in 0..15 : ~(r \in list /\ r < 0)
    OBVIOUS
  <2>2. cpu.regs = [r \in 0..15 |-> cpu.regs[r]] /\ DOMAIN cpu.regs = 0..15
    BY DEF IsMachine
  <2> DEFINE regs == [r \in DOMAIN cpu.regs |->
                        IF r \in list /\ r < 0 THEN read32(cpu, Wrap(a + 4 * Below(list, r)))
                        ELSE cpu.regs[r]]
  <2>3. regs = cpu.regs
    BY <2>1, <2>2
  <2>4. Part(0) = [cpu EXCEPT !.regs = regs]
    BY DEF Loading
  <2> HIDE DEF regs
  <2>5. [cpu EXCEPT !.regs = cpu.regs] = cpu
    BY DEF IsMachine, CpuFields
  <2> QED
    BY <2>3, <2>4, <2>5
<1>3. ASSUME NEW k \in 0..14 PROVE Load(k, Part(k)) = Part(k + 1)
  <2> DEFINE Regs(j) == [r \in DOMAIN cpu.regs |-> IF r \in list /\ r < j THEN V(r) ELSE cpu.regs[r]]
  <2>1. \A j : Part(j) = [cpu EXCEPT !.regs = Regs(j)]
    BY DEF Loading
  <2>2. DOMAIN cpu.regs = 0..15
    BY DEF IsMachine
  <2>3. CASE k \notin list
    <3>1. Load(k, Part(k)) = Part(k)
      BY <2>3
    <3>2. Regs(k) = Regs(k + 1)
      <4> HIDE DEF V, list
      <4> QED
        BY <2>2, <2>3
    <3>3. Part(k) = [cpu EXCEPT !.regs = Regs(k)] /\ Part(k + 1) = [cpu EXCEPT !.regs = Regs(k + 1)]
      BY <2>1
    <3> HIDE DEF Part, Regs, Load
    <3> QED
      BY <3>1, <3>2, <3>3
  <2>4. CASE k \in list
    <3>1. Load(k, Part(k)) = [Part(k) EXCEPT !.regs[k] = V(k)]
      BY <2>4
    <3>2. [Regs(k) EXCEPT ![k] = V(k)] = Regs(k + 1)
      <4> DEFINE R == DOMAIN cpu.regs
      <4>1. k \in R /\ \A r \in R : r < k + 1 <=> (r < k \/ r = k)
        BY <2>2
      <4> HIDE DEF V, list, R
      <4> DEFINE x == [r \in R |-> IF r \in list /\ r < k THEN V(r) ELSE cpu.regs[r]]
                 y == [r \in R |-> IF r \in list /\ r < k + 1 THEN V(r) ELSE cpu.regs[r]]
      <4>2. \A r \in R : [x EXCEPT ![k] = V(k)][r] = y[r]
        <5>1. ASSUME NEW r \in R, r = k PROVE [x EXCEPT ![k] = V(k)][r] = y[r]
          BY <2>4, <4>1, <5>1
        <5>2. ASSUME NEW r \in R, r # k PROVE [x EXCEPT ![k] = V(k)][r] = y[r]
          BY <4>1, <5>2
        <5> QED
          BY <5>1, <5>2
      <4>3. [x EXCEPT ![k] = V(k)] = y
        BY <4>2
      <4> QED
        BY <4>3 DEF R
    <3> HIDE DEF V, Regs
    <3>3. [[cpu EXCEPT !.regs = Regs(k)] EXCEPT !.regs[k] = V(k)]
            = [cpu EXCEPT !.regs = [Regs(k) EXCEPT ![k] = V(k)]]
      BY DEF IsMachine, CpuFields
    <3> QED
      BY <2>1, <3>1, <3>2, <3>3
  <2> QED
    BY <2>3, <2>4
<1>4. Load(15, Part(15)) = All
  <2>1. CASE 15 \in list
    <3>1. 15 \in i.list /\ ~i.s
      BY <2>1
    <3>2. Load(15, Part(15)) = branch(Part(15), V(15) - (V(15) % 2))
      BY <3>1
    <3> QED
      BY <2>1, <3>2
  <2>2. CASE 15 \notin list
    BY <2>2
  <2> QED
    BY <2>1, <2>2
<1> HIDE DEF Part, All, V, Load, list
<1>5. h = Body(h)
  <2> DEFINE g == [k \in 0..16 |-> IF k = 16 THEN All ELSE Part(k)]
  <2>1. g[0] = cpu /\ \A k \in 0..15 : g[k] = Part(k)
    BY <1>2
  <2>2. ASSUME NEW k \in 0..16, k # 0 PROVE g[k] = Load(k - 1, g[k - 1])
    <3>1. CASE k = 16
      <4>1. g[16] = All
        OBVIOUS
      <4>2. k - 1 = 15 /\ g[15] = Part(15)
        BY <2>1, <3>1
      <4> HIDE DEF g
      <4> QED
        BY <1>4, <3>1, <4>1, <4>2
    <3>2. CASE k # 16
      <4>1. k - 1 \in 0..14 /\ k \in 0..15 /\ k - 1 \in 0..15 /\ (k - 1) + 1 = k
        BY <2>2, <3>2
      <4> HIDE DEF g
      <4>2. Load(k - 1, Part(k - 1)) = Part((k - 1) + 1)
        BY <1>3, <4>1
      <4> QED
        BY <2>1, <4>1, <4>2
    <3> QED
      BY <3>1, <3>2
  <2>3. g = [k \in 0..16 |-> g[k]]
    OBVIOUS
  <2> HIDE DEF g
  <2>4. \A k \in 0..16 : g[k] = IF k = 0 THEN cpu ELSE Load(k - 1, g[k - 1])
    BY <2>1, <2>2
  <2>5. g = Body(g)
    BY <2>3, <2>4
  <2> HIDE DEF Body
  <2> QED
    BY <2>5
<1>6. h[0] = cpu /\ \A k \in 1..16 : h[k] = Load(k - 1, h[k - 1])
  <2> HIDE DEF h
  <2>1. \A k \in 0..16 : Body(h)[k] = IF k = 0 THEN cpu ELSE Load(k - 1, h[k - 1])
    OBVIOUS
  <2> HIDE DEF Body
  <2>2. \A k \in 0..16 : h[k] = IF k = 0 THEN cpu ELSE Load(k - 1, h[k - 1])
    BY <1>5, <2>1
  <2> QED
    BY <2>2
<1> HIDE DEF h, Body
<1>7. h[15] = Part(15)
  <2> DEFINE S == {k \in 0..15 : h[k] = Part(k)}
             n == 15
  <2>1. 0 \in S
    BY <1>2, <1>6
  <2>2. ASSUME NEW k \in 0..(n - 1), k \in S PROVE k + 1 \in S
    <3>1. k \in 0..14 /\ k + 1 \in 1..16 /\ (k + 1) - 1 = k /\ k + 1 \in 0..15
      BY <2>2
    <3>2. h[k + 1] = Load((k + 1) - 1, h[(k + 1) - 1])
      BY <1>6, <3>1
    <3>3. Load(k, Part(k)) = Part(k + 1)
      BY <1>3, <3>1
    <3> QED
      BY <2>2, <3>1, <3>2, <3>3
  <2>3. n \in Nat
    OBVIOUS
  <2> HIDE DEF S, n
  <2>4. n \in S
    BY <2>1, <2>2, <2>3, InductionTo
  <2> QED
    BY <2>4 DEF S, n
<1>8. h[16] = Load(15, h[15])
  <2>1. 16 \in 1..16 /\ 16 - 1 = 15
    OBVIOUS
  <2>2. h[16] = Load(16 - 1, h[16 - 1])
    BY <1>6, <2>1
  <2> QED
    BY <2>1, <2>2
<1>9. LoadList(cpu, i, a) = All
  BY <1>1, <1>4, <1>7, <1>8
<1> QED
  BY <1>9 DEF All, Part, V, list, set_reg

(* The low registers of a list, whether R15 is in it or not. *)
LEMMA LowLoaded ==
  ASSUME NEW cpu, IsMachine(cpu), NEW list \in SUBSET Low, NEW all, all \in {list, list \cup {15}},
         NEW a
  PROVE  Loading(cpu, all, a, 15) = GetList(cpu, list, a) /\ Below(all, 15) = Cardinality(list)
<1>1. \A r \in 0..15 : (r \in all /\ r < 15) <=> r \in list
  BY DEF Low
<1>2. \A r \in list : Below(all, r) = Below(list, r)
  <2> SUFFICES ASSUME NEW r \in list PROVE Below(all, r) = Below(list, r)
    OBVIOUS
  <2>1. {q \in all : q < r} = {q \in list : q < r}
    BY DEF Low
  <2> QED
    BY <2>1 DEF Below
<1>3. {q \in all : q < 15} = list
  <2>1. all \in SUBSET (0..15) /\ list \in SUBSET (0..15)
    BY DEF Low
  <2> DEFINE R == 0..15
  <2>2. all \in SUBSET R /\ list \in SUBSET R /\ \A r \in R : (r \in all /\ r < 15) <=> r \in list
    BY <1>1, <2>1
  <2> HIDE DEF R
  <2> QED
    BY <2>2
<1>4. DOMAIN cpu.regs = 0..15
  BY DEF IsMachine
<1>5. [r \in DOMAIN cpu.regs |->
         IF r \in all /\ r < 15 THEN read32(cpu, Wrap(a + 4 * Below(all, r))) ELSE cpu.regs[r]]
       
                = [r \in DOMAIN cpu.regs |->
                     IF r \in list THEN read32(cpu, Wrap(a + 4 * Below(list, r))) ELSE cpu.regs[r]]
  <2> DEFINE R == DOMAIN cpu.regs
  <2>1. \A r \in R : (r \in all /\ r < 15) <=> r \in list
    BY <1>1, <1>4
  <2> HIDE DEF R
  <2>2. \A r \in R :
          (IF r \in all /\ r < 15 THEN read32(cpu, Wrap(a + 4 * Below(all, r))) ELSE cpu.regs[r])
                     = (IF r \in list THEN read32(cpu, Wrap(a + 4 * Below(list, r))) ELSE cpu.regs[r])
    BY <1>2, <2>1
  <2>3. [r \in R |->
           IF r \in all /\ r < 15 THEN read32(cpu, Wrap(a + 4 * Below(all, r))) ELSE cpu.regs[r]]
          = [r \in R |-> IF r \in list THEN read32(cpu, Wrap(a + 4 * Below(list, r))) ELSE cpu.regs[r]]
    BY <2>2
  <2> QED
    BY <2>3 DEF R
<1> QED
  BY <1>3, <1>5 DEF Loading, GetList, Below

(* POP, and LDMIA with its base in its list or not. *)
LEMMA PopSame ==
  ASSUME NEW cpu, IsMachine(cpu), NEW i, i.kind = "pop", i.list \in SUBSET Low, i.pc \in BOOLEAN,
         i.pc \/ i.list # {}
  PROVE  Same(cpu, i)
<1> DEFINE list == i.list
           all == list \cup (IF i.pc THEN {15} ELSE {})
           a == cpu.regs[13]
           n == Cardinality(list)
           top == Wrap(a + 4 * n)
           taken == GetList(cpu, list, a)
           j == Block(TRUE, FALSE, TRUE, 13, all)
<1>1. /\ all \in SUBSET (0..15) /\ all # {} /\ (15 \in all <=> i.pc) /\ 13 \notin all
      /\ list \in SUBSET (0..15) /\ 15 \notin list /\ all \in {list, list \cup {15}}
  BY DEF Low
<1>2. execute_thumb(cpu, i) = thumb_pop(cpu, i)
  BY DEF execute_thumb
<1>3. thumb_pop(cpu, i) = IF i.pc THEN Put(set_reg(taken, 15, read32(cpu, top)), 13, Wrap(top + 4))
                        ELSE Put(taken, 13, top)
  BY DEF thumb_pop
<1>4. ArmOf(i) = j
  BY DEF ArmOf
<1>5. n \in Int /\ a \in Int /\ a \in Word
  BY <1>1, Counted, RegistersAre
<1>6. Cardinality(all) = IF i.pc THEN n + 1 ELSE n
  <2>1. CASE i.pc
    <3>1. all = list \cup {15} /\ IsFiniteSet(list)
      BY <1>1, <2>1, Counted
    <3> HIDE DEF list
    <3>2. Cardinality(list \cup {15}) = Cardinality(list) + 1
      BY <1>1, <3>1, FS_AddElement
    <3> QED
      BY <2>1, <3>1, <3>2
  <2>2. CASE ~i.pc
    BY <2>2
  <2> QED
    BY <2>1, <2>2
<1>7. /\ j.kind = "block" /\ j.l = TRUE /\ j.p = FALSE /\ j.u = TRUE /\ j.s = FALSE /\ j.w = TRUE
      /\ j.rn = 13 /\ j.list = all
  BY DEF Block
<1> HIDE DEF list, all, n, j
<1>8. First(cpu, j) = a
  <2>1. a + 0 = a /\ Wrap(a) = a
    BY <1>5, WordsWrap
  <2> QED
    BY <1>7, <2>1 DEF Start, First
<1>9. After(cpu, j) = IF i.pc THEN Wrap(top + 4) ELSE top
  <2>1. After(cpu, j) = Wrap(a + 4 * Cardinality(all))
    BY <1>7 DEF After, Offset
  <2>2. ASSUME i.pc PROVE Wrap(a + 4 * Cardinality(all)) = Wrap(top + 4)
    <3>1. WORD \in Nat \ {0} /\ a + 4 * n \in Int
      BY <1>5, Words32
    <3>2. a + 4 * Cardinality(all) = (a + 4 * n) + 4
      BY <1>5, <1>6, <2>2
    <3> DEFINE x == a + 4 * n
    <3> HIDE DEF x
    <3>3. ((x % WORD) + 4) % WORD = (x + 4) % WORD
      BY <3>1, WrapOnce DEF x
    <3> QED
      BY <3>2, <3>3 DEF Wrap, x
  <2>3. ASSUME ~i.pc PROVE Wrap(a + 4 * Cardinality(all)) = top
    BY <1>6, <2>3
  <2> HIDE DEF top
  <2> QED
    BY <2>1, <2>2, <2>3
<1>10. Loading(cpu, all, a, 15) = taken /\ Below(all, 15) = n
  BY <1>1, LowLoaded DEF list, n
<1> HIDE DEF a, taken
<1>11. LoadList(cpu, j, a) = IF i.pc THEN set_reg(taken, 15, read32(cpu, top)) ELSE taken
  <2>1. LoadList(cpu, j, a)
          = IF 15 \in j.list
            THEN set_reg(Loading(cpu, j.list, a, 15), 15, read32(cpu, Wrap(a + 4 * Below(j.list, 15))))
            ELSE Loading(cpu, j.list, a, 15)
    BY <1>1, <1>7, LoadsAre, ZenonT(60)
  <2> QED
    BY <1>1, <1>7, <1>10, <2>1
<1> HIDE DEF top
<1>12. execute_arm(cpu, j) = Put(LoadList(cpu, j, First(cpu, j)), 13, After(cpu, j))
  BY <1>1, <1>7, BlockExecuted, ZenonT(60)
<1> QED
  BY <1>2, <1>3, <1>4, <1>8, <1>9, <1>11, <1>12 DEF Same

LEMMA LoadManySame ==
  ASSUME NEW cpu, IsMachine(cpu), NEW i, i.kind = "ldmia", i.list \in SUBSET Low, i.rb \in Low
  PROVE  Same(cpu, i)
<1> DEFINE list == i.list
           a == cpu.regs[i.rb]
           final == Wrap(a + 4 * Cardinality(list))
           loaded == GetList(cpu, list, a)
           j == Block(TRUE, FALSE, TRUE, i.rb, list)
<1>1. list \in SUBSET (0..15) /\ 15 \notin list /\ i.rb \in 0..15 /\ i.rb # 15
  BY DEF Low
<1>2. execute_thumb(cpu, i) = thumb_ldmia(cpu, i)
  BY DEF execute_thumb
<1>3. ArmOf(i) = j
  BY DEF ArmOf
<1>4. a \in Int /\ a \in Word
  BY <1>1, RegistersAre
<1>5. /\ j.kind = "block" /\ j.l = TRUE /\ j.p = FALSE /\ j.u = TRUE /\ j.s = FALSE /\ j.w = TRUE
      /\ j.rn = i.rb /\ j.list = list
  BY DEF Block
<1>6. a + 0 = a /\ Wrap(a) = a
  BY <1>4, WordsWrap
<1>7. CASE list # {}
  <2>1. thumb_ldmia(cpu, i) = IF i.rb \in list THEN loaded ELSE Put(loaded, i.rb, final)
    BY <1>7 DEF thumb_ldmia
  <2>2. Loading(cpu, list, a, 15) = loaded
    BY LowLoaded
  <2> HIDE DEF list, j
  <2>3. First(cpu, j) = a /\ After(cpu, j) = final
    BY <1>5, <1>6 DEF First, After, Start, Offset
  <2> HIDE DEF a, final, loaded
  <2>4. LoadList(cpu, j, a) = Loading(cpu, j.list, a, 15)
    BY <1>1, <1>5, LoadsAre
  <2>5. execute_arm(cpu, j) = IF j.rn \in j.list THEN LoadList(cpu, j, First(cpu, j))
                            ELSE Put(LoadList(cpu, j, First(cpu, j)), j.rn, After(cpu, j))
    BY <1>5, <1>7, BlockExecuted
  <2> QED
    BY <1>2, <1>3, <1>5, <2>1, <2>2, <2>3, <2>4, <2>5 DEF Same
<1>8. CASE list = {}
  <2> DEFINE v == read32(cpu, a)
             x == set_reg(cpu, 15, v)
  <2>1. thumb_ldmia(cpu, i) = set_reg(Put(cpu, i.rb, Wrap(a + 64)), 15, v)
    BY <1>8 DEF thumb_ldmia
  <2> HIDE DEF list, j
  <2>2. execute_arm(cpu, j) = EmptyList(cpu, j)
    BY <1>5, <1>8 DEF execute_arm, arm_block_transfer
  <2>3. Start(a, j, 64) = a /\ Offset(a, TRUE, 64) = Wrap(a + 64)
    BY <1>5, <1>6 DEF Start, Offset
  <2> HIDE DEF a
  <2>4. EmptyList(cpu, j) = [x EXCEPT !.regs[i.rb] = Wrap(a + 64)]
    BY <1>5, <2>3, ZenonT(60) DEF EmptyList, a
  <2>5. [x EXCEPT !.regs[i.rb] = Wrap(a + 64)] = set_reg(Put(cpu, i.rb, Wrap(a + 64)), 15, v)
    <3> HIDE DEF v
    <3> DEFINE b == Wrap(a + 64)
               u == v - (v % 2)
    <3>1. x = [cpu EXCEPT !.regs[15] = u, !.flushed = TRUE]
      BY DEF set_reg, branch
    <3>2. set_reg(Put(cpu, i.rb, b), 15, v)
            = [[cpu EXCEPT !.regs[i.rb] = b] EXCEPT !.regs[15] = u, !.flushed = TRUE]
      BY DEF set_reg, branch, Put
    <3> HIDE DEF x, b, u
    <3>3. [[cpu.regs EXCEPT ![15] = u] EXCEPT ![i.rb] = b]
            = [[cpu.regs EXCEPT ![i.rb] = b] EXCEPT ![15] = u]
      BY <1>1 DEF IsMachine
    <3>4. [[cpu EXCEPT !.regs[15] = u, !.flushed = TRUE] EXCEPT !.regs[i.rb] = b]
            = [[cpu EXCEPT !.regs[i.rb] = b] EXCEPT !.regs[15] = u, !.flushed = TRUE]
      BY <3>3, ZenonT(60) DEF IsMachine, CpuFields
    <3> QED
      BY <3>1, <3>2, <3>4 DEF b
  <2> QED
    BY <1>2, <1>3, <2>1, <2>2, <2>4, <2>5 DEF Same
<1> QED
  BY <1>7, <1>8

(* The machines that the instructions are given are machines. *)
LEMMA MachinesAre == \A cpu \in Machines : IsMachine(cpu)
<1> SUFFICES ASSUME NEW cpu \in Machines PROVE IsMachine(cpu)
  OBVIOUS
<1>1. PICK q \in [x : Words, y : Words, b : Bases, s : Stacks, c : BOOLEAN] : cpu = Given(q)
  BY DEF Machines
<1> DEFINE V(r) == CASE r = 0 -> q.x [] r = 1 -> q.y [] r = 2 -> q.b [] r = 13 -> q.s
                     [] r = 15 -> PC [] OTHER -> 5 * r
           regs == [r \in 0..15 |-> V(r)]
           p == Psr("System", TRUE, q.c)
<1>2. WORD \in Nat /\ 70 < WORD
  BY Words32, EncodingsAssumption
<1>3. /\ q.x \in Word /\ q.y \in Word /\ q.b \in Word /\ q.s \in Word /\ PC \in Word /\ PC % 4 = 0
  BY EncodingsAssumption
<1>4. \A r \in 0..15 : r # 15 => 5 * r \in Word
  <2> SUFFICES ASSUME NEW r \in 0..15, r # 15 PROVE 5 * r \in Word
    OBVIOUS
  <2>1. 5 * r \in Nat /\ 5 * r < 71
    OBVIOUS
  <2> QED
    BY <1>2, <2>1 DEF Word
<1>5. regs \in [0..15 -> Word] /\ regs[15] = PC
  <2>1. \A r \in 0..15 : V(r) \in Word
    <3> SUFFICES ASSUME NEW r \in 0..15 PROVE V(r) \in Word
      OBVIOUS
    <3>1. CASE r = 15
      BY <1>3, <3>1
    <3>2. CASE r # 15
      BY <1>3, <1>4, <3>2
    <3> QED
      BY <3>1, <3>2
  <2>2. V(15) = PC
    OBVIOUS
  <2> HIDE DEF V
  <2>3. [r \in 0..15 |-> V(r)] \in [0..15 -> Word]
    BY <2>1
  <2>4. [r \in 0..15 |-> V(r)][15] = PC
    BY <2>2
  <2> QED
    BY <2>3, <2>4
<1>6. p \in PsrRecords
  BY DEF Psr, PsrRecords, Modes
<1>7. Contents \in [Cells -> Word]
  <2>1. \A z \in Int : Wrap(z) \in Word
    BY <1>2, Words32 DEF Wrap, Word
  <2>2. \A z \in Cells : z * 1237 + 3181 \in Int
    BY DEF Cells
  <2> QED
    BY <2>1, <2>2 DEF Contents, Cells
<1> HIDE DEF regs, p
<1>8. /\ cpu.regs = regs /\ cpu.cpsr = p /\ cpu.mem = Contents /\ DOMAIN cpu = CpuFields
      /\ cpu = [f \in CpuFields |-> cpu[f]] /\ DOMAIN cpu.usr = 8..12
  BY <1>1 DEF Given, Fresh, CpuFields, regs, p
<1> QED
  BY <1>3, <1>5, <1>6, <1>7, <1>8 DEF IsMachine

(* Every instruction that has an ARM form does in Thumb what that form     *)
(* does, on any machine (thumb.rs:12-673, arm.rs:12-682).                  *)
THEOREM InstructionsSame ==
  ASSUME NEW cpu, IsMachine(cpu), NEW i \in ThumbForms,
         i.kind = "cond_branch" => check_condition(cpu.cpsr, i.cond)
  PROVE  Same(cpu, i)
<1>1. CASE i \in [kind : {"shift_imm"}, type : {"LSL", "LSR", "ASR"},
                  rd : Low, rs : Low, offset : 0..W-1]
  BY <1>1, ShiftImmSame
<1>2. CASE \/ i \in [kind : {"add_sub_reg"}, sub : BOOLEAN, rd : Low, rs : Low, rn : Low]
           \/ i \in [kind : {"add_sub_imm"}, sub : BOOLEAN, rd : Low, rs : Low, imm : Nat]
  BY <1>2, AddSubSame
<1>3. CASE i \in [kind : {"mov_imm", "cmp_imm", "add_imm", "sub_imm"}, rd : Low, imm : Nat]
  BY <1>3, ImmediateSame
<1>4. CASE i \in [kind : {"alu"}, rd : Low, rs : Low,
                  op : ShiftTypes \cup {"AND", "EOR", "ORR", "BIC", "MVN", "MUL", "TST",
                                        "ADC", "SBC", "NEG", "CMP", "CMN"}]
  BY <1>4, AluSame
<1>5. CASE i \in [kind : {"hi_reg_bx"}, op : {"ADD", "CMP", "MOV", "BX"}, rd : 0..15, rs : 0..15]
  BY <1>5, HighSame
<1>6. CASE i \in [kind : {"ldr_pc"}, rd : Low, offset : Nat]
  BY <1>6, LoadPcSame
<1>7. CASE \/ i \in [kind : {"load_store_reg"}, size : {"W", "H", "B"}, l : BOOLEAN,
                     rd : Low, rb : Low, ro : Low]
           \/ i \in [kind : {"load_store_reg"}, size : {"SB", "SH"}, l : {TRUE},
                     rd : Low, rb : Low, ro : Low]
           \/ i \in [kind : {"load_store_imm"}, size : {"W", "B"}, l : BOOLEAN,
                     rd : Low, rb : Low, offset : Nat]
           \/ i \in [kind : {"load_store_half"}, l : BOOLEAN, rd : Low, rb : Low, offset : Nat]
           \/ i \in [kind : {"load_store_sp"}, l : BOOLEAN, rd : Low, offset : Nat]
  BY <1>7, MoveSame
<1>8. CASE \/ i \in [kind : {"load_address"}, sp : BOOLEAN, rd : Low, offset : Nat]
           \/ i \in [kind : {"add_sp"}, negative : BOOLEAN, offset : Nat]
  BY <1>8, AddressSame
<1>9. CASE \/ i \in [kind : {"push"}, list : SUBSET Low, lr : {TRUE}]
           \/ i \in [kind : {"push"}, list : (SUBSET Low) \ {{}}, lr : {FALSE}]
  <2>1. i.kind = "push" /\ i.list \in SUBSET Low /\ i.lr \in BOOLEAN /\ (i.lr \/ i.list # {})
    BY <1>9
  <2> QED
    BY <2>1, PushSame
<1>10. CASE \/ i \in [kind : {"pop"}, list : SUBSET Low, pc : {TRUE}]
            \/ i \in [kind : {"pop"}, list : (SUBSET Low) \ {{}}, pc : {FALSE}]
  <2>1. i.kind = "pop" /\ i.list \in SUBSET Low /\ i.pc \in BOOLEAN /\ (i.pc \/ i.list # {})
    BY <1>10
  <2> QED
    BY <2>1, PopSame
<1>11. CASE i \in [kind : {"stmia"}, list : (SUBSET Low) \ {{}}, rb : Low]
  <2>1. i.kind = "stmia" /\ i.list \in SUBSET Low /\ i.list # {} /\ i.rb \in Low
    BY <1>11
  <2> QED
    BY <2>1, StoreManySame
<1>12. CASE i \in [kind : {"ldmia"}, list : SUBSET Low, rb : Low]
  BY <1>12, LoadManySame
<1>13. CASE \/ i \in [kind : {"cond_branch"}, cond : Conditions, offset : Int]
            \/ i \in [kind : {"branch"}, offset : Int]
            \/ i \in [kind : {"swi"}, comment : Nat]
  BY <1>13, BranchSame
<1> QED
  BY <1>1, <1>2, <1>3, <1>4, <1>5, <1>6, <1>7, <1>8, <1>9, <1>10, <1>11, <1>12, <1>13, ZenonT(60) DEF ThumbForms

\* The machines are alike, before an instruction and after it.
BothBegin ==
  \/ last = Idle /\ thumb \in Machines /\ arm = thumb
  \/ last # Idle /\ arm = thumb

(* The machine that is executed by Thumb is at every moment the one that   *)
(* is executed by ARM: thumb.rs:89-673 and arm.rs:108-587, handler by      *)
(* handler, for every word width, memory and instruction.                  *)
THEOREM ThumbDoesAsArm == EncodingsSpec => []ThumbIsArm
<1>1. EncodingsInit => BothBegin
  BY DEF EncodingsInit, BothBegin
<1>2. BothBegin /\ [EncodingsNext]_encodingVars => BothBegin'
  <2> SUFFICES ASSUME BothBegin, [EncodingsNext]_encodingVars PROVE BothBegin'
    OBVIOUS
  <2>1. CASE UNCHANGED encodingVars
    BY <2>1 DEF BothBegin, encodingVars
  <2>2. CASE EncodingsNext
    <3>1. PICK i \in Instructions : Execute(i)
      BY <2>2 DEF EncodingsNext
    <3>2. thumb \in Machines /\ arm = thumb /\ IsMachine(thumb)
      BY <3>1, MachinesAre DEF BothBegin, Execute
    <3>3. i \in ThumbForms
      BY EncodingsAssumption
    <3>4. last' # Idle
      BY <3>1 DEF Execute, Idle
    <3>5. CASE i.kind = "cond_branch" /\ ~check_condition(thumb.cpsr, i.cond)
      <4>1. execute_thumb(thumb, i) = thumb
        BY <3>5 DEF execute_thumb, thumb_cond_branch
      <4> QED
        BY <3>1, <3>2, <3>4, <3>5, <4>1 DEF BothBegin, Execute
    <3>6. CASE ~(i.kind = "cond_branch" /\ ~check_condition(thumb.cpsr, i.cond))
      <4>1. Same(thumb, i)
        BY <3>2, <3>3, <3>6, InstructionsSame
      <4>2. thumb' = execute_thumb(thumb, i) /\ arm' = execute_arm(thumb, ArmOf(i))
        BY <3>1, <3>2, <3>6 DEF Execute
      <4> QED
        BY <3>4, <4>1, <4>2 DEF BothBegin, Same
    <3> QED
      BY <3>5, <3>6
  <2> QED
    BY <2>1, <2>2
<1>3. BothBegin => ThumbIsArm
  BY DEF BothBegin, ThumbIsArm
<1> QED
  BY <1>1, <1>2, <1>3, PTL DEF EncodingsSpec

(* What the arithmetic promises of an instruction i between cpu and t. *)
RightBetween(cpu, i, t) ==
  LET x == cpu.regs[i.rd]
      y == cpu.regs[i.rs]
      c == One(cpu.cpsr.c)
      v == t.regs[i.rd]
      Holds(cond) == check_condition(t.cpsr, cond)
      Fits(n) == n \in -TOP..TOP-1
  IN  CASE i.op = "CMP" ->
             /\ Holds("EQ") = (x = y) /\ Holds("NE") = (x # y)
             /\ Holds("HI") = (x > y) /\ Holds("LS") = (x <= y)
             /\ Holds("CS") = (x >= y) /\ Holds("CC") = (x < y)
             /\ Holds("GT") = (Signed(x) > Signed(y)) /\ Holds("LE") = (Signed(x) <= Signed(y))
             /\ Holds("GE") = (Signed(x) >= Signed(y)) /\ Holds("LT") = (Signed(x) < Signed(y))
        [] i.op = "ADC" ->
             /\ Exactly(v, t.cpsr.c, x + y + c)
             /\ Holds("VC") = Fits(Signed(x) + Signed(y) + c)
        [] i.op = "SBC" ->
             /\ Exactly(v, t.cpsr.c, x - y + c + WORD - 1)
             /\ Holds("VC") = Fits(Signed(x) - Signed(y) + c - 1)
        [] i.op = "ASR" -> Signed(v) = Signed(x) \div 2^(IF y % 256 > W THEN W ELSE y % 256)
        [] i.op = "LSR" -> v = x \div 2^(IF y % 256 > W THEN W ELSE y % 256)
        [] OTHER -> TRUE

(* A sum that goes past the end of a word does so once. *)
LEMMA SumWraps ==
  ASSUME NEW s \in Nat, s < 2 * WORD
  PROVE  Wrap(s) = IF s >= WORD THEN s - WORD ELSE s
<1>1. WORD \in Nat \ {0}
  BY Words32
<1> DEFINE q == IF s >= WORD THEN 1 ELSE 0
           r == IF s >= WORD THEN s - WORD ELSE s
<1>2. q \in Int /\ r \in 0..(WORD - 1) /\ s = WORD * q + r
  BY <1>1
<1> HIDE DEF q, r
<1>3. (WORD * q + r) % WORD = r
  BY Remainder, <1>1, <1>2
<1> QED
  BY <1>2, <1>3 DEF Wrap, r

(* The adder on two words: the carry is the digit left over, the overflow  *)
(* tells that no signed word holds the sum.                                *)
Adds(r, x, y, c) ==
  /\ r.value \in Word /\ r.carry \in BOOLEAN /\ r.overflow \in BOOLEAN
  /\ r.value + One(r.carry) * WORD = x + y + One(c)
  /\ r.overflow <=> ~(Signed(x) + Signed(y) + One(c) \in -TOP..TOP-1)
Subtracts(r, x, y, c) ==
  /\ r.value \in Word /\ r.carry \in BOOLEAN /\ r.overflow \in BOOLEAN
  /\ r.value + One(r.carry) * WORD = x - y + One(c) + WORD - 1
  /\ r.overflow <=> ~(Signed(x) - Signed(y) + One(c) - 1 \in -TOP..TOP-1)

LEMMA AdderRight ==
  ASSUME NEW x \in Word, NEW y \in Word, NEW c \in BOOLEAN
  PROVE  Adds(add_with_carry(x, y, c), x, y, c)
<1> DEFINE r == add_with_carry(x, y, c)
           s == x + y + One(c)
           v == IF s >= WORD THEN s - WORD ELSE s
<1>1. WORD \in Nat \ {0} /\ TOP \in Nat \ {0} /\ WORD = 2 * TOP
  BY Words32
<1>2. x \in Nat /\ y \in Nat /\ x < WORD /\ y < WORD /\ One(c) \in {0, 1}
  BY <1>1 DEF Word, One
<1>3. s \in Nat /\ s < 2 * WORD
  BY <1>1, <1>2
<1>4. Wrap(s) = v
  BY <1>3, SumWraps
<1>5. /\ r.value = v /\ r.carry = (s >= WORD)
      /\ r.overflow = (Negative(x) = Negative(y) /\ Negative(v) # Negative(x))
  BY <1>4 DEF add_with_carry
<1> HIDE DEF r
<1>6. v \in Nat /\ v < WORD
  BY <1>1, <1>2, <1>3
<1>7. r.value + One(r.carry) * WORD = s
  <2>1. CASE s >= WORD
    <3>1. One(r.carry) = 1
      BY <1>5, <2>1 DEF One
    <3> QED
      BY <1>1, <1>3, <1>5, <2>1, <3>1
  <2>2. CASE ~(s >= WORD)
    <3>1. One(r.carry) = 0
      BY <1>5, <2>2 DEF One
    <3> QED
      BY <1>1, <1>3, <1>5, <2>2, <3>1
  <2> QED
    BY <2>1, <2>2
<1>8. r.overflow <=> ~(Signed(x) + Signed(y) + One(c) \in -TOP..TOP-1)
  <2> DEFINE o == One(c)
  <2>1. o \in {0, 1} /\ s = x + y + o
    BY <1>2
  <2>2. r.overflow <=> ((x >= TOP <=> y >= TOP) /\ ~(v >= TOP <=> x >= TOP))
    <3>1. Negative(x) \in BOOLEAN /\ Negative(y) \in BOOLEAN /\ Negative(v) \in BOOLEAN
      BY DEF Negative
    <3>2. r.overflow <=> ((Negative(x) <=> Negative(y)) /\ ~(Negative(v) <=> Negative(x)))
      BY <1>5, <3>1
    <3> QED
      BY <3>2 DEF Negative
  <2>3. /\ Signed(x) = IF x >= TOP THEN x - 2 * TOP ELSE x
        /\ Signed(y) = IF y >= TOP THEN y - 2 * TOP ELSE y
    BY <1>1 DEF Signed, Negative
  <2>4. v = IF s >= 2 * TOP THEN s - 2 * TOP ELSE s
    BY <1>1
  <2> DEFINE sx == Signed(x)
             sy == Signed(y)
  <2> HIDE DEF o, s, v, sx, sy
  <2>5. sx \in Int /\ sy \in Int /\ sx + sy + o \in Int
    BY <1>1, <1>2, <2>1, <2>3 DEF sx, sy
  <2>6. sx + sy + o \in -TOP..TOP-1 <=> (-TOP <= sx + sy + o /\ sx + sy + o <= TOP - 1)
    BY <1>1, <2>5
  <2>7. r.overflow <=> ~(-TOP <= sx + sy + o /\ sx + sy + o <= TOP - 1)
    BY <1>1, <1>2, <1>6, <2>1, <2>2, <2>3, <2>4, <2>5 DEF sx, sy
  <2> QED
    BY <2>6, <2>7 DEF sx, sy, o
<1> QED
  <2> HIDE DEF r
  <2>1. r.value \in Word /\ r.carry \in BOOLEAN /\ r.overflow \in BOOLEAN
    BY <1>1, <1>5, <1>6 DEF Word
  <2>2. Adds(r, x, y, c)
    BY <1>7, <1>8, <2>1 DEF Adds
  <2> QED
    BY <2>2 DEF r

(* The complement, and what the signed reading of a word is. *)
LEMMA ComplementIs ==
  ASSUME NEW y \in Word
  PROVE  /\ Complement(y) \in Word /\ Complement(y) = WORD - 1 - y
         /\ Signed(Complement(y)) = -1 - Signed(y)
<1>1. WORD \in Nat \ {0} /\ TOP \in Nat \ {0} /\ WORD = 2 * TOP
  BY Words32
<1>2. y \in Nat /\ y < WORD
  BY <1>1 DEF Word
<1> DEFINE z == Complement(y)
<1>3. z = WORD - 1 - y
  BY DEF Complement
<1>4. z \in Nat /\ z < WORD
  BY <1>1, <1>2, <1>3
<1>5. Signed(y) = IF y >= TOP THEN y - WORD ELSE y
  BY DEF Signed, Negative
<1>6. Signed(z) = IF z >= TOP THEN z - WORD ELSE z
  BY DEF Signed, Negative
<1> HIDE DEF z
<1>7. Signed(z) = -1 - Signed(y)
  BY <1>1, <1>2, <1>3, <1>4, <1>5, <1>6
<1> QED
  BY <1>1, <1>3, <1>4, <1>7 DEF Word, z

LEMMA SignedIs ==
  ASSUME NEW x \in Word
  PROVE  /\ x \in Nat /\ x < WORD /\ Signed(x) = IF x >= TOP THEN x - WORD ELSE x
         /\ Signed(x) \in Int /\ -TOP <= Signed(x) /\ Signed(x) < TOP
         /\ Negative(x) \in BOOLEAN /\ (Negative(x) <=> x >= TOP)
<1>1. WORD \in Nat \ {0} /\ TOP \in Nat \ {0} /\ WORD = 2 * TOP
  BY Words32
<1>2. x \in Nat /\ x < WORD
  BY <1>1 DEF Word
<1>3. Signed(x) = IF x >= TOP THEN x - WORD ELSE x
  BY DEF Signed, Negative
<1>4. Negative(x) \in BOOLEAN /\ (Negative(x) <=> x >= TOP)
  BY DEF Negative
<1> QED
  BY <1>1, <1>2, <1>3, <1>4

(* A difference, with its borrow. *)
LEMMA SubtractorRight ==
  ASSUME NEW x \in Word, NEW y \in Word, NEW c \in BOOLEAN
  PROVE  Subtracts(sub_with_carry(x, y, c), x, y, c)
<1> DEFINE r == sub_with_carry(x, y, c)
           z == Complement(y)
<1>1. z \in Word /\ z = WORD - 1 - y /\ Signed(z) = -1 - Signed(y)
  BY ComplementIs
<1>2. r = add_with_carry(x, z, c)
  BY DEF sub_with_carry
<1> HIDE DEF z, r
<1>3. Adds(r, x, z, c)
  BY <1>1, <1>2, AdderRight
<1>4. One(c) \in {0, 1} /\ WORD \in Int
  BY Words32 DEF One
<1>5. x \in Int /\ y \in Int /\ Signed(x) \in Int /\ Signed(y) \in Int
  BY SignedIs
<1>6. x + z + One(c) = x - y + One(c) + WORD - 1
  BY <1>1, <1>4, <1>5
<1>7. Signed(x) + Signed(z) + One(c) = Signed(x) - Signed(y) + One(c) - 1
  BY <1>1, <1>4, <1>5
<1>8. Subtracts(r, x, y, c)
  BY <1>3, <1>6, <1>7 DEF Adds, Subtracts
<1> QED
  BY <1>8 DEF r

(* The flags of a comparison. *)
LEMMA ComparisonRight ==
  ASSUME NEW x \in Word, NEW y \in Word, NEW r, r = sub_with_carry(x, y, TRUE)
  PROVE  /\ r.value \in Word /\ r.carry \in BOOLEAN /\ r.overflow \in BOOLEAN
         /\ r.value = 0 <=> x = y
         /\ r.carry <=> x >= y
         /\ (Negative(r.value) <=> r.overflow) <=> Signed(x) >= Signed(y)
<1>10. Subtracts(r, x, y, TRUE)
  BY SubtractorRight, TRUE \in BOOLEAN
<1>1. /\ r.value \in Word /\ r.carry \in BOOLEAN /\ r.overflow \in BOOLEAN
      /\ r.value + One(r.carry) * WORD = x - y + One(TRUE) + WORD - 1
      /\ r.overflow <=> ~(Signed(x) - Signed(y) + One(TRUE) - 1 \in -TOP..TOP-1)
  BY <1>10 DEF Subtracts
<1>2. One(TRUE) = 1 /\ WORD \in Nat \ {0} /\ TOP \in Nat \ {0} /\ WORD = 2 * TOP
  BY Words32 DEF One
<1> DEFINE v == r.value
           b == r.carry
           o == r.overflow
           sx == Signed(x)
           sy == Signed(y)
           k == One(b) * WORD
<1>3. /\ x \in Nat /\ x < WORD /\ sx = (IF x >= TOP THEN x - WORD ELSE x)
      /\ y \in Nat /\ y < WORD /\ sy = (IF y >= TOP THEN y - WORD ELSE y)
      /\ v \in Nat /\ v < WORD /\ (Negative(v) <=> v >= TOP)
      /\ sx \in Int /\ sy \in Int
  BY <1>1, SignedIs
<1>4. b \in BOOLEAN /\ o \in BOOLEAN
  BY <1>1
<1>5. sx - sy + 1 - 1 \in -TOP..TOP-1 <=> (-TOP <= sx - sy /\ sx - sy <= TOP - 1)
  BY <1>2, <1>3
<1>6. o <=> ~(-TOP <= sx - sy /\ sx - sy <= TOP - 1)
  BY <1>1, <1>2, <1>5
<1>7. v + k = x - y + 1 + WORD - 1
  BY <1>1, <1>2
<1> HIDE DEF v, b, o, sx, sy
<1>8. k \in Int /\ (b => k = WORD) /\ (~b => k = 0)
  <2>1. CASE b = TRUE
    <3>1. One(b) = 1
      BY <2>1, <1>2
    <3>2. 1 * WORD = WORD
      BY <1>2
    <3> QED
      BY <1>2, <2>1, <3>1, <3>2
  <2>2. CASE b = FALSE
    <3>1. One(b) = 0
      BY <2>2 DEF One
    <3>2. 0 * WORD = 0
      BY <1>2
    <3> QED
      BY <2>2, <3>1, <3>2
  <2> QED
    BY <1>4, <2>1, <2>2
<1> HIDE DEF k
<1>9. v + k = x - y + WORD
  BY <1>2, <1>3, <1>7, <1>8
<1>11. (v = 0 <=> x = y) /\ (b <=> x >= y)
  BY <1>2, <1>3, <1>4, <1>8, <1>9
<1>12. (Negative(v) <=> o) <=> sx >= sy
  BY <1>2, <1>3, <1>4, <1>6, <1>8, <1>9
<1> QED
  BY <1>1, <1>11, <1>12 DEF v, b, o, sx, sy

(* How the flags come to the conditions (mod.rs:500-520). *)
LEMMA FlagsAre ==
  ASSUME NEW cpu, IsMachine(cpu), NEW r
  PROVE  LET t == Flagged(cpu, r)
         IN  /\ t.cpsr.n = Negative(r.value) /\ t.cpsr.z = (r.value = 0)
             /\ t.cpsr.c = r.carry /\ t.cpsr.v = r.overflow
  BY DEF IsMachine, CpuFields, Flagged, WithFlags, set_nz, PsrRecords

LEMMA ConditionsAre ==
  ASSUME NEW p
  PROVE  /\ check_condition(p, "EQ") = p.z /\ check_condition(p, "NE") = ~p.z
         /\ check_condition(p, "CS") = p.c /\ check_condition(p, "CC") = ~p.c
         /\ check_condition(p, "VC") = ~p.v
         /\ check_condition(p, "HI") = (p.c /\ ~p.z) /\ check_condition(p, "LS") = (~p.c \/ p.z)
         /\ check_condition(p, "GE") = (p.n = p.v) /\ check_condition(p, "LT") = (p.n # p.v)
         /\ check_condition(p, "GT") = (~p.z /\ p.n = p.v)
         /\ check_condition(p, "LE") = (p.z \/ p.n # p.v)
  BY DEF check_condition

(* The operations whose numbers are checked, each by its own handler. *)
LEMMA AluDoes ==
  ASSUME NEW cpu, NEW i, i.kind = "alu"
  PROVE  /\ i.op = "CMP" =>
              execute_thumb(cpu, i) = Flagged(cpu, sub_with_carry(cpu.regs[i.rd], cpu.regs[i.rs], TRUE))
         /\ i.op = "ADC" =>
              execute_thumb(cpu, i)
                      = Arith(cpu, i.rd, add_with_carry(cpu.regs[i.rd], cpu.regs[i.rs], cpu.cpsr.c))
         /\ i.op = "SBC" =>
              execute_thumb(cpu, i)
                      = Arith(cpu, i.rd, sub_with_carry(cpu.regs[i.rd], cpu.regs[i.rs], cpu.cpsr.c))
         /\ i.op = "ASR" =>
              execute_thumb(cpu, i)
                = Shift(cpu, i.rd, shift_asr(cpu.regs[i.rd], cpu.regs[i.rs] % 256, cpu.cpsr.c, FALSE))
         /\ i.op = "LSR" =>
              execute_thumb(cpu, i)
                = Shift(cpu, i.rd, shift_lsr(cpu.regs[i.rd], cpu.regs[i.rs] % 256, cpu.cpsr.c, FALSE))
<1>1. execute_thumb(cpu, i) = thumb_alu(cpu, i)
  BY DEF execute_thumb
<1>2. i.op = "CMP" =>
        thumb_alu(cpu, i) = Flagged(cpu, sub_with_carry(cpu.regs[i.rd], cpu.regs[i.rs], TRUE))
  BY DEF thumb_alu, ShiftTypes
<1>3. i.op = "ADC" =>
        thumb_alu(cpu, i) = Arith(cpu, i.rd, add_with_carry(cpu.regs[i.rd], cpu.regs[i.rs], cpu.cpsr.c))
  BY DEF thumb_alu, ShiftTypes
<1>4. i.op = "SBC" =>
        thumb_alu(cpu, i) = Arith(cpu, i.rd, sub_with_carry(cpu.regs[i.rd], cpu.regs[i.rs], cpu.cpsr.c))
  BY DEF thumb_alu, ShiftTypes
<1>5. i.op = "ASR" =>
        thumb_alu(cpu, i)
                = Shift(cpu, i.rd, shift_asr(cpu.regs[i.rd], cpu.regs[i.rs] % 256, cpu.cpsr.c, FALSE))
  BY DEF thumb_alu, ShiftTypes, barrel_shift
<1>6. i.op = "LSR" =>
        thumb_alu(cpu, i)
                = Shift(cpu, i.rd, shift_lsr(cpu.regs[i.rd], cpu.regs[i.rs] % 256, cpu.cpsr.c, FALSE))
  BY DEF thumb_alu, ShiftTypes, barrel_shift
<1> QED
  BY <1>1, <1>2, <1>3, <1>4, <1>5, <1>6, ZenonT(60)

(* The operations between two registers. *)
LEMMA OperandsAre ==
  ASSUME NEW cpu, IsMachine(cpu), NEW i, i.rd \in Low, i.rs \in Low
  PROVE  cpu.regs[i.rd] \in Word /\ cpu.regs[i.rs] \in Word /\ cpu.cpsr.c \in BOOLEAN
  BY DEF IsMachine, PsrRecords, Low

LEMMA CompareRight ==
  ASSUME NEW cpu, IsMachine(cpu), NEW i, i.op = "CMP", i.rd \in Low, i.rs \in Low,
         NEW t, t = Flagged(cpu, sub_with_carry(cpu.regs[i.rd], cpu.regs[i.rs], TRUE))
  PROVE  RightBetween(cpu, i, t)
<1> DEFINE x == cpu.regs[i.rd]
           y == cpu.regs[i.rs]
           r == sub_with_carry(x, y, TRUE)
           p == t.cpsr
           n == Negative(r.value)
           sx == Signed(x)
           sy == Signed(y)
<1>1. x \in Word /\ y \in Word
  BY OperandsAre
<1>2. /\ r.value \in Word /\ r.carry \in BOOLEAN /\ r.overflow \in BOOLEAN
      /\ r.value = 0 <=> x = y
      /\ r.carry <=> x >= y
      /\ (n <=> r.overflow) <=> sx >= sy
  <2> HIDE DEF x, y
  <2> QED
    BY <1>1, ComparisonRight
<1>3. p.n = n /\ p.z = (r.value = 0) /\ p.c = r.carry /\ p.v = r.overflow
  BY FlagsAre, Zenon
<1>4. n \in BOOLEAN
  BY DEF Negative
<1>5. x \in Nat /\ y \in Nat /\ sx \in Int /\ sy \in Int /\ (sx = sy <=> x = y)
  <2> HIDE DEF x, y
  <2>1. /\ x \in Nat /\ x < WORD /\ sx = IF x >= TOP THEN x - WORD ELSE x
        /\ y \in Nat /\ y < WORD /\ sy = IF y >= TOP THEN y - WORD ELSE y
    BY <1>1, SignedIs
  <2> QED
    BY <2>1, Words32
<1> HIDE DEF x, y, r, p, n, sx, sy
<1>6. /\ p.z \in BOOLEAN /\ p.c \in BOOLEAN /\ p.n \in BOOLEAN /\ p.v \in BOOLEAN
      /\ (p.z <=> x = y) /\ (p.c <=> x >= y) /\ ((p.n <=> p.v) <=> sx >= sy)
  BY <1>2, <1>3, <1>4
<1> DEFINE Tells(cond, b) == check_condition(p, cond) = b
<1>7. /\ Tells("EQ", x = y) /\ Tells("NE", x # y) /\ Tells("HI", x > y) /\ Tells("LS", x <= y)
      /\ Tells("CS", x >= y) /\ Tells("CC", x < y)
  <2>1. (x > y) = (x >= y /\ x # y) /\ (x <= y) = (~(x >= y) \/ x = y) /\ (x < y) = ~(x >= y)
    BY <1>5
  <2> QED
    BY <1>6, <2>1, ConditionsAre
<1>8. /\ Tells("GT", sx > sy) /\ Tells("LE", sx <= sy) /\ Tells("GE", sx >= sy) /\ Tells("LT", sx < sy)
  <2>1. (sx > sy) = (sx >= sy /\ x # y) /\ (sx <= sy) = (~(sx >= sy) \/ x = y)
        /\ (sx < sy) = ~(sx >= sy)
    BY <1>5
  <2> QED
    BY <1>6, <2>1, ConditionsAre
<1> QED
  BY <1>7, <1>8 DEF RightBetween, x, y, p, sx, sy

LEMMA CarriedSumRight ==
  ASSUME NEW cpu, IsMachine(cpu), NEW i, i.rd \in Low, i.rs \in Low, NEW r,
         r.value \in Word, r.carry \in BOOLEAN, r.overflow \in BOOLEAN,
         NEW t, t = Arith(cpu, i.rd, r)
  PROVE  /\ t.regs[i.rd] = r.value /\ t.cpsr.c = r.carry
         /\ check_condition(t.cpsr, "VC") = ~r.overflow
<1>1. t.cpsr.c = r.carry /\ t.cpsr.v = r.overflow
  BY DEF IsMachine, CpuFields, Arith, Put, Flagged, WithFlags, set_nz, PsrRecords
<1>2. t.regs[i.rd] = r.value
  BY DEF IsMachine, CpuFields, Arith, Put, Flagged, Low
<1> QED
  BY <1>1, <1>2, ConditionsAre

LEMMA SumRight ==
  ASSUME NEW cpu, IsMachine(cpu), NEW i, i.op = "ADC", i.rd \in Low, i.rs \in Low,
         NEW t, t = Arith(cpu, i.rd, add_with_carry(cpu.regs[i.rd], cpu.regs[i.rs], cpu.cpsr.c))
  PROVE  RightBetween(cpu, i, t)
<1> DEFINE x == cpu.regs[i.rd]
           y == cpu.regs[i.rs]
           c == cpu.cpsr.c
           r == add_with_carry(x, y, c)
           fits == Signed(x) + Signed(y) + One(c) \in -TOP..TOP-1
<1>1. x \in Word /\ y \in Word /\ c \in BOOLEAN
  BY OperandsAre
<1>2. Adds(r, x, y, c)
  <2> HIDE DEF x, y, c
  <2> QED
    BY <1>1, AdderRight
<1>3. /\ r.value \in Word /\ r.carry \in BOOLEAN /\ r.overflow \in BOOLEAN
      /\ r.value + One(r.carry) * WORD = x + y + One(c)
      /\ r.overflow <=> ~fits
  BY <1>2 DEF Adds
<1>4. t.regs[i.rd] = r.value /\ t.cpsr.c = r.carry /\ check_condition(t.cpsr, "VC") = ~r.overflow
  BY <1>3, CarriedSumRight
<1>5. (~r.overflow) = fits
  <2> HIDE DEF r
  <2> QED
    BY <1>3
<1> HIDE DEF r
<1>6. Exactly(t.regs[i.rd], t.cpsr.c, x + y + One(c))
  BY <1>3, <1>4 DEF Exactly
<1>7. check_condition(t.cpsr, "VC") = fits
  BY <1>4, <1>5
<1> QED
  BY <1>6, <1>7, SMTT(40) DEF RightBetween

LEMMA DifferenceRight ==
  ASSUME NEW cpu, IsMachine(cpu), NEW i, i.op = "SBC", i.rd \in Low, i.rs \in Low,
         NEW t, t = Arith(cpu, i.rd, sub_with_carry(cpu.regs[i.rd], cpu.regs[i.rs], cpu.cpsr.c))
  PROVE  RightBetween(cpu, i, t)
<1> DEFINE x == cpu.regs[i.rd]
           y == cpu.regs[i.rs]
           c == cpu.cpsr.c
           r == sub_with_carry(x, y, c)
           fits == Signed(x) - Signed(y) + One(c) - 1 \in -TOP..TOP-1
<1>1. x \in Word /\ y \in Word /\ c \in BOOLEAN
  BY OperandsAre
<1>2. Subtracts(r, x, y, c)
  <2> HIDE DEF x, y, c
  <2> QED
    BY <1>1, SubtractorRight
<1>3. /\ r.value \in Word /\ r.carry \in BOOLEAN /\ r.overflow \in BOOLEAN
      /\ r.value + One(r.carry) * WORD = x - y + One(c) + WORD - 1
      /\ r.overflow <=> ~fits
  BY <1>2 DEF Subtracts
<1>4. t.regs[i.rd] = r.value /\ t.cpsr.c = r.carry /\ check_condition(t.cpsr, "VC") = ~r.overflow
  BY <1>3, CarriedSumRight
<1>5. (~r.overflow) = fits
  <2> HIDE DEF r
  <2> QED
    BY <1>3
<1> HIDE DEF r
<1>6. Exactly(t.regs[i.rd], t.cpsr.c, x - y + One(c) + WORD - 1)
  BY <1>3, <1>4 DEF Exactly
<1>7. check_condition(t.cpsr, "VC") = fits
  BY <1>4, <1>5
<1> QED
  BY <1>6, <1>7, SMTT(40) DEF RightBetween

(* Quotients that are rounded down stay on their side of zero. *)
LEMMA QuotientNearer ==
  ASSUME NEW s \in Int, NEW d \in Nat \ {0}
  PROVE  /\ s \div d \in Int
         /\ s >= 0 => 0 <= s \div d /\ s \div d <= s
         /\ s < 0 => s <= s \div d /\ s \div d < 0
<1> DEFINE q == s \div d
           r == s % d
<1>1. q \in Int /\ r \in 0..(d - 1) /\ s = d * q + r
  OBVIOUS
<1> HIDE DEF q, r
<1>2. CASE q >= 0
  <2>1. d * q >= q
    BY <1>1, <1>2
  <2> QED
    BY <1>1, <1>2, <2>1 DEF q
<1>3. CASE q < 0
  <2>1. d * q + r < 0
    <3>1. d * q <= d * (-1)
      BY <1>1, <1>3
    <3> QED
      BY <1>1, <3>1
  <2>2. d * q + r <= q
    <3>1. PICK k \in Nat : q = -1 - k
      <4>1. -1 - q \in Nat
        BY <1>1, <1>3
      <4> QED
        BY <4>1, <1>1
    <3>2. d * q = -d - d * k
      BY <3>1
    <3>3. d * k >= k
      BY <3>1
    <3> QED
      BY <1>1, <3>1, <3>2, <3>3
  <2> QED
    BY <1>1, <1>3, <2>1 DEF q
<1> QED
  BY <1>1, <1>2, <1>3

(* A number that a signed word holds survives its wrapping. *)
LEMMA SignedWraps ==
  ASSUME NEW q \in Int, -TOP <= q, q < TOP
  PROVE  Wrap(q) \in Word /\ Signed(Wrap(q)) = q
<1>1. WORD \in Nat \ {0} /\ TOP \in Nat \ {0} /\ WORD = 2 * TOP
  BY Words32
<1> DEFINE u == IF q < 0 THEN q + WORD ELSE q
           k == IF q < 0 THEN -1 ELSE 0
<1>2. u \in 0..(WORD - 1) /\ k \in Int /\ q = WORD * k + u
  BY <1>1
<1> HIDE DEF k
<1>3. Wrap(q) = u
  <2> HIDE DEF u
  <2> QED
    BY <1>1, <1>2, Remainder DEF Wrap
<1>4. Signed(u) = IF u >= TOP THEN u - WORD ELSE u
  BY DEF Signed, Negative
<1>5. Signed(u) = q
  BY <1>1, <1>4
<1> QED
  BY <1>2, <1>3, <1>5 DEF Word

(* The amounts of a shift: none, some of the bits, all of them and more.   *)
LEMMA AmountsAre ==
  ASSUME NEW n \in Nat
  PROVE  /\ n = 0 \/ n \in 1..W-1 \/ (n # 0 /\ n \notin 1..W-1)
         /\ n = 0 => (IF n > W THEN W ELSE n) = 0
         /\ n \in 1..W-1 => n # 0 /\ (IF n > W THEN W ELSE n) = n
         /\ n # 0 /\ n \notin 1..W-1 => n >= W /\ (IF n > W THEN W ELSE n) = W
  BY Words32

(* The shifts to the right, by their amounts (alu.rs:48-90). *)
LEMMA ShiftsAre ==
  ASSUME NEW x, NEW n, NEW c
  PROVE  /\ n = 0 => /\ shift_asr(x, n, c, FALSE) = Out(x, c)
                     /\ shift_lsr(x, n, c, FALSE) = Out(x, c)
         /\ n # 0 /\ n \in 1..W-1 =>
              /\ shift_asr(x, n, c, FALSE) = Out(Wrap(Signed(x) \div 2^n), Bit(x, n - 1))
              /\ shift_lsr(x, n, c, FALSE) = Out(x \div 2^n, Bit(x, n - 1))
         /\ n # 0 /\ n \notin 1..W-1 =>
              /\ shift_asr(x, n, c, FALSE) = SignFill(x)
              /\ shift_lsr(x, n, c, FALSE) = Out(0, n = W /\ Negative(x))
<1>1. ASSUME n = 0 PROVE n \notin 1..W-1
  BY <1>1, Words32
<1>2. n = 0 => shift_asr(x, n, c, FALSE) = Out(x, c) /\ shift_lsr(x, n, c, FALSE) = Out(x, c)
  BY <1>1, Zenon DEF shift_asr, shift_lsr
<1>3. n # 0 /\ n \in 1..W-1 =>
        /\ shift_asr(x, n, c, FALSE) = Out(Wrap(Signed(x) \div 2^n), Bit(x, n - 1))
        /\ shift_lsr(x, n, c, FALSE) = Out(x \div 2^n, Bit(x, n - 1))
  BY Zenon DEF shift_asr, shift_lsr
<1>4. n # 0 /\ n \notin 1..W-1 =>
        /\ shift_asr(x, n, c, FALSE) = SignFill(x)
        /\ shift_lsr(x, n, c, FALSE) = Out(0, n = W /\ Negative(x))
  BY Zenon DEF shift_asr, shift_lsr
<1> QED
  BY <1>2, <1>3, <1>4

(* What is shifted right is divided, and rounded down. *)
Divisor(n) == 2^(IF n > W THEN W ELSE n)

LEMMA ShiftedIsDivided ==
  ASSUME NEW x \in Word, NEW n \in Nat, NEW c
  PROVE  /\ Signed(shift_asr(x, n, c, FALSE).value) = Signed(x) \div Divisor(n)
         /\ shift_lsr(x, n, c, FALSE).value = x \div Divisor(n)
<1> DEFINE d == Divisor(n)
<1>7. d = 2^(IF n > W THEN W ELSE n)
  BY DEF Divisor
<1> HIDE DEF d
<1>1. WORD \in Nat \ {0} /\ TOP \in Nat \ {0} /\ WORD = 2 * TOP /\ W \in Nat \ {0}
  BY Words32
<1>2. /\ x \in Nat /\ x < WORD /\ Signed(x) = IF x >= TOP THEN x - WORD ELSE x
      /\ Signed(x) \in Int /\ -TOP <= Signed(x) /\ Signed(x) < TOP
      /\ Negative(x) \in BOOLEAN /\ (Negative(x) <=> x >= TOP)
  BY SignedIs
<1>3. \A v, b : Out(v, b).value = v
  BY DEF Out
<1> DEFINE a == shift_asr(x, n, c, FALSE)
           l == shift_lsr(x, n, c, FALSE)
           sx == Signed(x)
<1>4. CASE n = 0
  <2>1. 2^0 = 1
    OBVIOUS
  <2>2. d = 1 /\ a = Out(x, c) /\ l = Out(x, c)
    BY <1>4, <1>7, <2>1, AmountsAre, ShiftsAre
  <2>3. sx \div 1 = sx /\ x \div 1 = x
    BY <1>2
  <2> QED
    BY <1>3, <2>2, <2>3 DEF d
<1>5. CASE n \in 1..W-1
  <2>1. d = 2^n /\ n \in 0..W /\ n # 0
    BY <1>1, <1>5, <1>7, AmountsAre
  <2>2. d \in Nat \ {0}
    BY <2>1, WidthAssumption
  <2>3. a.value = Wrap(sx \div d) /\ l.value = x \div d
    <3>1. a = Out(Wrap(sx \div 2^n), Bit(x, n - 1)) /\ l = Out(x \div 2^n, Bit(x, n - 1))
      <4> HIDE DEF a, l
      <4>1. n # 0 /\ n \in 1..W-1
        BY <1>5, <2>1
      <4> QED
        BY <4>1, ShiftsAre, ZenonT(60) DEF a, l
    <3> HIDE DEF a, l, sx
    <3> QED
      BY <1>3, <2>1, <3>1
  <2>4. sx \div d \in Int /\ -TOP <= sx \div d /\ sx \div d < TOP
    <3> HIDE DEF sx
    <3>1. sx \in Int /\ -TOP <= sx /\ sx < TOP
      BY <1>2 DEF sx
    <3> DEFINE q == sx \div d
    <3>2. q \in Int /\ (sx >= 0 => 0 <= q /\ q <= sx) /\ (sx < 0 => sx <= q /\ q < 0)
      BY <2>2, <3>1, QuotientNearer
    <3> HIDE DEF q
    <3>3. q \in Int /\ -TOP <= q /\ q < TOP
      BY <1>1, <3>1, <3>2
    <3> QED
      BY <3>3 DEF q
  <2>5. Signed(Wrap(sx \div d)) = sx \div d
    BY <2>4, SignedWraps
  <2> QED
    BY <2>3, <2>5 DEF d
<1>6. CASE n # 0 /\ n \notin 1..W-1
  <2>1. d = WORD
    BY <1>6, <1>7, AmountsAre DEF WORD
  <2>2. a = SignFill(x) /\ l.value = 0
    <3>1. a = SignFill(x) /\ l = Out(0, n = W /\ Negative(x))
      BY <1>6, ShiftsAre, Zenon
    <3> HIDE DEF a, l
    <3> QED
      BY <1>3, <3>1
  <2>3. x \div WORD = 0
    <3>1. (WORD * 0 + x) \div WORD = 0
      BY <1>1, <1>2, Quotient
    <3> QED
      BY <1>1, <1>2, <3>1
  <2>4. Signed(a.value) = sx \div WORD
    <3>1. CASE x >= TOP
      <4>1. a.value = WORD - 1
        BY <1>2, <1>3, <2>2, <3>1 DEF SignFill
      <4>2. Signed(WORD - 1) = -1
        BY <1>1 DEF Signed, Negative
      <4>3. sx = WORD * (-1) + x /\ x \in 0..(WORD - 1)
        BY <1>1, <1>2, <3>1
      <4>4. (WORD * (-1) + x) \div WORD = -1
        BY <1>1, <4>3
      <4> QED
        BY <4>1, <4>2, <4>3, <4>4
    <3>2. CASE ~(x >= TOP)
      <4>1. a.value = 0
        BY <1>2, <1>3, <2>2, <3>2 DEF SignFill
      <4>2. Signed(0) = 0
        BY <1>1 DEF Signed, Negative
      <4>3. sx = x
        BY <1>2, <3>2
      <4> QED
        BY <2>3, <4>1, <4>2, <4>3
    <3> QED
      BY <3>1, <3>2
  <2> QED
    BY <2>1, <2>2, <2>3, <2>4 DEF d
<1> QED
  BY <1>4, <1>5, <1>6 DEF d

LEMMA ShiftRight ==
  ASSUME NEW cpu, IsMachine(cpu), NEW i, i.rd \in Low, i.rs \in Low,
         NEW t, LET x == cpu.regs[i.rd]
                    n == cpu.regs[i.rs] % 256
                    c == cpu.cpsr.c
                IN  \/ i.op = "ASR" /\ t = Shift(cpu, i.rd, shift_asr(x, n, c, FALSE))
                    \/ i.op = "LSR" /\ t = Shift(cpu, i.rd, shift_lsr(x, n, c, FALSE))
  PROVE  RightBetween(cpu, i, t)
<1> DEFINE x == cpu.regs[i.rd]
           n == cpu.regs[i.rs] % 256
           c == cpu.cpsr.c
           d == Divisor(n)
<1>1. x \in Word /\ cpu.regs[i.rs] \in Word
  BY OperandsAre
<1>2. n \in Nat
  <2> DEFINE y == cpu.regs[i.rs]
  <2>1. y \in Nat
    BY <1>1, SignedIs
  <2> HIDE DEF y
  <2> QED
    BY <2>1 DEF y
<1>3. \A o : Shift(cpu, i.rd, o).regs[i.rd] = o.value
  BY DEF IsMachine, CpuFields, Shift, Put, Low
<1>4. /\ Signed(shift_asr(x, n, c, FALSE).value) = Signed(x) \div d
      /\ shift_lsr(x, n, c, FALSE).value = x \div d
  <2> HIDE DEF x, n, c
  <2> QED
    BY <1>1, <1>2, ShiftedIsDivided
<1>5. CASE i.op = "ASR" /\ t = Shift(cpu, i.rd, shift_asr(x, n, c, FALSE))
  <2>1. t.regs[i.rd] = shift_asr(x, n, c, FALSE).value
    BY <1>3, <1>5, Zenon
  <2>2. Signed(t.regs[i.rd]) = Signed(x) \div d
    BY <1>4, <2>1, ZenonT(60)
  <2> QED
    BY <1>5, <2>2, ZenonT(60) DEF RightBetween, Divisor
<1>6. CASE i.op = "LSR" /\ t = Shift(cpu, i.rd, shift_lsr(x, n, c, FALSE))
  <2>1. t.regs[i.rd] = shift_lsr(x, n, c, FALSE).value
    BY <1>3, <1>6, Zenon
  <2>2. t.regs[i.rd] = x \div d
    BY <1>4, <2>1, Zenon
  <2> QED
    BY <1>6, <2>2, Zenon DEF RightBetween, Divisor
<1> QED
  BY <1>5, <1>6

(* Every operation between two registers. *)
LEMMA AluRight ==
  ASSUME NEW cpu, IsMachine(cpu), NEW i, i.kind = "alu", i.rd \in Low, i.rs \in Low
  PROVE  RightBetween(cpu, i, execute_thumb(cpu, i))
<1> DEFINE t == execute_thumb(cpu, i)
<1>1. CASE i.op = "CMP"
  BY <1>1, AluDoes, CompareRight, ZenonT(60)
<1>2. CASE i.op = "ADC"
  BY <1>2, AluDoes, SumRight, ZenonT(60)
<1>3. CASE i.op = "SBC"
  BY <1>3, AluDoes, DifferenceRight, ZenonT(60)
<1>4. CASE i.op = "ASR" \/ i.op = "LSR"
  BY <1>4, AluDoes, ShiftRight, ZenonT(60)
<1>5. CASE i.op \notin {"CMP", "ADC", "SBC", "ASR", "LSR"}
  BY <1>5 DEF RightBetween
<1> QED
  BY <1>1, <1>2, <1>3, <1>4, <1>5

\* The machine is what the instruction made of the one before.
Executed ==
  \/ last = Idle /\ thumb \in Machines
  \/ /\ last # Idle /\ IsMachine(last.before) /\ last.i \in ThumbForms
     /\ thumb = execute_thumb(last.before, last.i)

(* The arithmetic of the Thumb executor is that of the numbers, of every   *)
(* word width: the flags and conditions of a comparison, carry and         *)
(* overflow, and the shifts to the right (alu.rs:27-193, mod.rs:500-520,   *)
(* thumb.rs:201-304).                                                      *)
THEOREM NumbersRight == EncodingsSpec => []ArithmeticRight
<1>1. EncodingsInit => Executed
  BY DEF EncodingsInit, Executed
<1>2. Executed /\ [EncodingsNext]_encodingVars => Executed'
  <2> SUFFICES ASSUME Executed, [EncodingsNext]_encodingVars PROVE Executed'
    OBVIOUS
  <2>1. CASE UNCHANGED encodingVars
    BY <2>1 DEF Executed, encodingVars
  <2>2. CASE EncodingsNext
    <3>1. PICK i \in Instructions : Execute(i)
      BY <2>2 DEF EncodingsNext
    <3>2. IsMachine(thumb)
      BY <3>1, MachinesAre DEF Executed, Execute
    <3>3. i \in ThumbForms
      BY EncodingsAssumption
    <3>4. last' # Idle /\ last'.i = i /\ last'.before = thumb /\ thumb' = execute_thumb(thumb, i)
      BY <3>1 DEF Execute, Idle
    <3> QED
      BY <3>2, <3>3, <3>4 DEF Executed
  <2> QED
    BY <2>1, <2>2
<1>3. Executed => ArithmeticRight
  <2> SUFFICES ASSUME Executed, last # Idle, last.i.kind = "alu"
               PROVE  RightBetween(last.before, last.i, thumb)
    BY SMTT(40) DEF ArithmeticRight, RightBetween
  <2>1. last.i.rd \in Low /\ last.i.rs \in Low
    BY ZenonT(60) DEF Executed, ThumbForms
  <2>2. RightBetween(last.before, last.i, execute_thumb(last.before, last.i))
    BY <2>1, AluRight DEF Executed
  <2> QED
    BY <2>2 DEF Executed
<1> QED
  BY <1>1, <1>2, <1>3, PTL DEF EncodingsSpec
=============================================================================
