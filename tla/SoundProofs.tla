---------------------------- MODULE SoundProofs ----------------------------
(***************************************************************************)
(* The path of DMA sound, for any ports, frames and sizes of the FIFOs:    *)
(* one ring buffer is a bounded queue, the DMA that refills the two        *)
(* neither overfills them nor comes too late, and where the source runs    *)
(* past its buffer, it stays in the memory the buffer is replayed from.    *)
(***************************************************************************)
EXTENDS Sound, SoundFifo, Numbers, SequenceTheorems

(* The ring: where the samples end is where the next one is written. *)
Ring(f) == f \in Fifo /\ f.write_pos = (f.read_pos + f.count) % FIFO_CAPACITY

(* A position past the end is as far past the start. *)
LEMMA Wrapped ==
  ASSUME NEW C \in Nat \ {0}, NEW a \in 0..(2 * C - 1)
  PROVE  a % C = IF a < C THEN a ELSE a - C
<1>1. CASE a < C
  <2>1. a \in 0..(C - 1) /\ a = C * 0 + a
    BY <1>1
  <2> QED
    BY <1>1, <2>1, Remainder
<1>2. CASE ~(a < C)
  <2>1. a - C \in 0..(C - 1) /\ a = C * 1 + (a - C)
    BY <1>2
  <2> QED
    BY <1>2, <2>1, Remainder
<1> QED
  BY <1>1, <1>2

(* The samples are a sequence as long as the count. *)
LEMMA ContentsType ==
  ASSUME NEW f \in Fifo
  PROVE  /\ Contents(f) \in Seq(Sample) /\ Len(Contents(f)) = f.count
         /\ f.count \in 0..FIFO_CAPACITY /\ f.read_pos \in Pos
         /\ \A k \in 1..f.count :
              Contents(f)[k] = f.buffer[(f.read_pos + k - 1) % FIFO_CAPACITY]
<1>1. /\ f.count \in 0..FIFO_CAPACITY /\ f.read_pos \in Pos /\ FIFO_CAPACITY \in Nat \ {0}
      /\ f.buffer \in [Pos -> Sample]
  BY FifoAssumption DEF Fifo
<1>2. ASSUME NEW k \in 1..f.count
      PROVE  f.buffer[(f.read_pos + k - 1) % FIFO_CAPACITY] \in Sample
  <2> DEFINE a == f.read_pos + k - 1
  <2>1. a \in Int
    BY <1>1 DEF Pos
  <2> HIDE DEF a
  <2>2. a % FIFO_CAPACITY \in Pos
    BY <1>1, <2>1 DEF Pos
  <2> QED
    BY <1>1, <2>2 DEF a
<1>3. Contents(f) \in [1..f.count -> Sample]
  BY <1>2 DEF Contents
<1>4. Contents(f) \in Seq(Sample) /\ Len(Contents(f)) = f.count
  <2>1. f.count \in Nat
    BY <1>1
  <2> HIDE DEF Contents
  <2> QED
    BY <1>3, <2>1
<1> QED
  BY <1>1, <1>4 DEF Contents

(* A sample that finds room comes last; one that finds none is dropped. *)
LEMMA PushByteEffect ==
  ASSUME NEW f, Ring(f), NEW s \in Sample
  PROVE  /\ Ring(PushByte(f, s))
         /\ PushByte(f, s).current_sample = f.current_sample
         /\ PushByte(f, s).count = IF f.count < FIFO_CAPACITY THEN f.count + 1 ELSE f.count
         /\ \A k \in 1..PushByte(f, s).count :
              Contents(PushByte(f, s))[k] = IF k <= f.count THEN Contents(f)[k] ELSE s
<1>1. /\ f \in Fifo /\ f.count \in 0..FIFO_CAPACITY /\ f.read_pos \in 0..(FIFO_CAPACITY - 1)
      /\ FIFO_CAPACITY \in Nat \ {0} /\ f.buffer \in [Pos -> Sample]
      /\ f.write_pos \in 0..(FIFO_CAPACITY - 1)
      /\ f.write_pos = (f.read_pos + f.count) % FIFO_CAPACITY
  BY FifoAssumption DEF Ring, Fifo, Pos
<1>2. CASE ~(f.count < FIFO_CAPACITY)
  <2>1. PushByte(f, s) = f
    BY <1>2 DEF PushByte
  <2> QED
    BY <1>1, <1>2, <2>1
<1>3. CASE f.count < FIFO_CAPACITY
  <2> DEFINE g == PushByte(f, s)
  <2>1. g = [f EXCEPT !.buffer[f.write_pos] = s, !.write_pos = After(@), !.count = @ + 1]
    BY <1>3 DEF PushByte
  <2>2. After(f.write_pos) = (f.read_pos + (f.count + 1)) % FIFO_CAPACITY
        /\ After(f.write_pos) \in 0..(FIFO_CAPACITY - 1)
    <3>1. (((f.read_pos + f.count) % FIFO_CAPACITY) + 1) % FIFO_CAPACITY
             = (f.read_pos + f.count + 1) % FIFO_CAPACITY
      <4> DEFINE a == f.read_pos + f.count
      <4>1. a \in Int /\ 1 \in Int /\ FIFO_CAPACITY \in Nat \ {0}
        BY <1>1
      <4> HIDE DEF a
      <4>2. ((a % FIFO_CAPACITY) + 1) % FIFO_CAPACITY = (a + 1) % FIFO_CAPACITY
        BY ONLY <4>1, WrapOnce
      <4> QED
        BY <4>2 DEF a
    <3>2. f.read_pos + f.count + 1 = f.read_pos + (f.count + 1)
      BY <1>1
    <3>3. f.write_pos + 1 \in Int
      BY <1>1
    <3> QED
      BY <1>1, <3>1, <3>2, <3>3 DEF After
  <2> HIDE DEF g
  <2>3. /\ g.count = f.count + 1 /\ g.read_pos = f.read_pos
        /\ g.current_sample = f.current_sample /\ g.write_pos = After(f.write_pos)
        /\ g.buffer = [f.buffer EXCEPT ![f.write_pos] = s]
    BY <1>1, <2>1 DEF Fifo
  <2>4. g \in Fifo
    <3>1. f.count + 1 \in 0..FIFO_CAPACITY /\ [f.buffer EXCEPT ![f.write_pos] = s] \in [Pos -> Sample]
          /\ After(f.write_pos) \in Pos
      BY <1>1, <1>3, <2>2, SMTT(40) DEF Pos
    <3> HIDE DEF After
    <3> QED
      BY <1>1, <2>1, <3>1 DEF Fifo
  <2>5. Ring(g)
    BY <2>2, <2>3, <2>4 DEF Ring
  <2>6. ASSUME NEW k \in 1..g.count
        PROVE  Contents(g)[k] = IF k <= f.count THEN Contents(f)[k] ELSE s
    <3> DEFINE a == f.read_pos + k - 1
               e == f.read_pos + f.count
    <3>1. Contents(g)[k] = g.buffer[a % FIFO_CAPACITY]
      BY <2>3, <2>4, ContentsType
    <3>2. a \in 0..(2 * FIFO_CAPACITY - 1) /\ e \in 0..(2 * FIFO_CAPACITY - 1)
      BY <1>1, <1>3, <2>3
    <3>3. a % FIFO_CAPACITY = (IF a < FIFO_CAPACITY THEN a ELSE a - FIFO_CAPACITY)
          /\ e % FIFO_CAPACITY = (IF e < FIFO_CAPACITY THEN e ELSE e - FIFO_CAPACITY)
      <4> HIDE DEF a, e
      <4> QED
        BY <1>1, <3>2, Wrapped
    <3>4. CASE k <= f.count
      <4>1. k \in 1..f.count
        BY <1>1, <2>3, <3>4
      <4>2. Contents(f)[k] = f.buffer[a % FIFO_CAPACITY]
        BY <1>1, <4>1, ContentsType
      <4>3. a < e /\ e < a + FIFO_CAPACITY /\ a \in Nat /\ e \in Nat
        BY <1>1, <1>3, <4>1
      <4> HIDE DEF a, e
      <4>4. a % FIFO_CAPACITY # e % FIFO_CAPACITY
        BY <1>1, <3>2, <3>3, <4>3
      <4>5. a % FIFO_CAPACITY \in Pos
        BY <1>1, <3>2, <3>3 DEF Pos
      <4>6. f.write_pos = e % FIFO_CAPACITY
        BY <1>1 DEF e
      <4> QED
        BY <1>1, <2>3, <3>1, <3>4, <4>2, <4>4, <4>5, <4>6
    <3>5. CASE ~(k <= f.count)
      <4>1. k = f.count + 1
        BY <1>1, <2>3, <3>5
      <4>2. a = e
        BY <1>1, <4>1
      <4>3. a % FIFO_CAPACITY = f.write_pos /\ f.write_pos \in Pos
        BY <1>1, <4>2 DEF Pos
      <4> QED
        BY <1>1, <2>3, <3>1, <3>5, <4>3
    <3> QED
      BY <3>4, <3>5
  <2> QED
    BY <1>3, <2>3, <2>5, <2>6 DEF g
<1> QED
  BY <1>2, <1>3

(* Several samples are pushed one after the other.  The equation of the    *)
(* run has a solution: one up to k can always be prolonged.                *)
LEMMA PushAllSteps ==
  ASSUME NEW f, NEW samples \in Seq(Sample)
  PROVE  \E pushed :
           /\ pushed[0] = f
           /\ \A k \in 1..Len(samples) : pushed[k] = PushByte(pushed[k - 1], samples[k])
           /\ PushAll(f, samples) = pushed[Len(samples)]
<1> DEFINE n == Len(samples)
           Body(m, g) == [k \in 0..m |-> IF k = 0 THEN f ELSE PushByte(g[k - 1], samples[k])]
           S == {m \in 0..n : \E g : g = Body(m, g)}
<1>1. n \in Nat
  BY LenProperties
<1>2. PushAll(f, samples) = (CHOOSE g : g = Body(n, g))[n]
  BY DEF PushAll
<1>3. 0 \in S
  <2> DEFINE g == [k \in 0..0 |-> f]
  <2>1. g = Body(0, g)
    OBVIOUS
  <2> HIDE DEF g, Body
  <2> QED
    BY <1>1, <2>1
<1>4. ASSUME NEW m \in 0..(n - 1), m \in S PROVE m + 1 \in S
  <2>1. PICK g : g = Body(m, g)
    BY <1>4
  <2> DEFINE h == [k \in 0..(m + 1) |-> IF k = m + 1 THEN PushByte(g[m], samples[m + 1]) ELSE g[k]]
  <2>2. ASSUME NEW k \in 0..(m + 1)
        PROVE  h[k] = IF k = 0 THEN f ELSE PushByte(h[k - 1], samples[k])
    <3>0. m + 1 # 0 /\ m \in 0..m /\ m \in 0..(m + 1) /\ m # m + 1 /\ m \in Nat
      BY <1>1
    <3>1. CASE k = m + 1
      <4>1. k - 1 = m /\ k # 0
        BY <3>0, <3>1
      <4>2. h[m] = g[m]
        BY <3>0
      <4>3. h[k] = PushByte(g[m], samples[m + 1])
        BY <3>1
      <4> QED
        BY <3>1, <4>1, <4>2, <4>3
    <3>2. CASE k # m + 1
      <4>1. k \in 0..m
        BY <3>0, <3>2
      <4>2. h[k] = g[k] /\ g[k] = IF k = 0 THEN f ELSE PushByte(g[k - 1], samples[k])
        <5>1. h[k] = g[k]
          BY <3>2
        <5>2. g[k] = Body(m, g)[k]
          BY <2>1
        <5> QED
          BY <4>1, <5>1, <5>2
      <4>3. k # 0 => k - 1 \in 0..(m + 1) /\ k - 1 # m + 1
        BY <3>0, <4>1
      <4>4. k # 0 => h[k - 1] = g[k - 1]
        BY <4>3
      <4> HIDE DEF h
      <4> QED
        BY <4>2, <4>4
    <3> QED
      BY <3>1, <3>2
  <2>3. DOMAIN h = 0..(m + 1) /\ h = [k \in 0..(m + 1) |-> h[k]]
    OBVIOUS
  <2> HIDE DEF h
  <2>4. h = Body(m + 1, h)
    BY <2>2, <2>3
  <2>5. m + 1 \in 0..n
    BY <1>1
  <2> QED
    BY <2>4, <2>5
<1>5. n \in S
  <2> HIDE DEF S, n
  <2> QED
    BY <1>1, <1>3, <1>4, InductionTo
<1>6. \E g : g = Body(n, g)
  BY <1>5
<1> DEFINE p == CHOOSE g : g = Body(n, g)
<1>7. p = Body(n, p)
  <2> HIDE DEF Body
  <2> QED
    BY <1>6
<1>8. PushAll(f, samples) = p[n]
  BY <1>2
<1> HIDE DEF p
<1>9. \A k \in 0..n : p[k] = IF k = 0 THEN f ELSE PushByte(p[k - 1], samples[k])
  BY <1>7
<1> HIDE DEF n
<1>10. p[0] = f /\ \A k \in 1..n : p[k] = PushByte(p[k - 1], samples[k])
  BY <1>1, <1>9
<1> QED
  BY <1>8, <1>10 DEF n

(* How many samples fit. *)
Fitting(f, n) == IF f.count + n <= FIFO_CAPACITY THEN n ELSE FIFO_CAPACITY - f.count

(* As many samples as fit are appended, and nothing else changes. *)
LEMMA PushAllEffect ==
  ASSUME NEW f, Ring(f), NEW samples \in Seq(Sample)
  PROVE  LET g == PushAll(f, samples)
             n == Fitting(f, Len(samples))
         IN  /\ Ring(g) /\ g.current_sample = f.current_sample
             /\ n \in 0..Len(samples) /\ g.count = f.count + n
             /\ \A k \in 1..g.count :
                  Contents(g)[k] = IF k <= f.count THEN Contents(f)[k] ELSE samples[k - f.count]
<1> DEFINE L == Len(samples)
           Good(g, m) ==
             /\ Ring(g) /\ g.current_sample = f.current_sample
             /\ g.count = f.count + Fitting(f, m)
             /\ \A k \in 1..g.count :
                  Contents(g)[k] = IF k <= f.count THEN Contents(f)[k] ELSE samples[k - f.count]
<1>1. PICK pushed :
        /\ pushed[0] = f
        /\ \A k \in 1..L : pushed[k] = PushByte(pushed[k - 1], samples[k])
        /\ PushAll(f, samples) = pushed[L]
  BY PushAllSteps
<1>2. L \in Nat /\ \A k \in 1..L : samples[k] \in Sample
  BY LenProperties, ElementOfSeq
<1>3. f.count \in 0..FIFO_CAPACITY /\ FIFO_CAPACITY \in Nat \ {0}
  BY FifoAssumption DEF Ring, Fifo
<1> DEFINE S == {m \in 0..L : Good(pushed[m], m)}
<1>4. 0 \in S
  <2>1. Fitting(f, 0) = 0
    BY <1>3 DEF Fitting
  <2>2. Good(f, 0)
    BY <1>3, <2>1
  <2> QED
    BY <1>1, <1>2, <2>2
<1>5. ASSUME NEW m \in 0..(L - 1), m \in S PROVE m + 1 \in S
  <2> DEFINE g == pushed[m]
             h == pushed[m + 1]
             s == samples[m + 1]
  <2>1. m + 1 \in 1..L /\ m + 1 \in 0..L /\ (m + 1) - 1 = m /\ m \in Nat
    BY <1>2
  <2>2. h = PushByte(g, s) /\ s \in Sample
    BY <1>1, <1>2, <2>1
  <2>3. Good(g, m)
    BY <1>5
  <2> HIDE DEF h, s, g
  <2>4. /\ Ring(h) /\ h.current_sample = g.current_sample
        /\ h.count = IF g.count < FIFO_CAPACITY THEN g.count + 1 ELSE g.count
        /\ \A k \in 1..h.count : Contents(h)[k] = IF k <= g.count THEN Contents(g)[k] ELSE s
    BY <2>2, <2>3, PushByteEffect
  <2>5. h.count = f.count + Fitting(f, m + 1)
    <3>1. g.count = f.count + Fitting(f, m)
      BY <2>3
    <3>2. CASE f.count + m < FIFO_CAPACITY
      <4>1. Fitting(f, m) = m /\ Fitting(f, m + 1) = m + 1
        BY <1>3, <2>1, <3>2 DEF Fitting
      <4> QED
        BY <1>3, <2>1, <2>4, <3>1, <3>2, <4>1, SMTT(40)
    <3>3. CASE ~(f.count + m < FIFO_CAPACITY)
      <4>1. Fitting(f, m) = FIFO_CAPACITY - f.count /\ Fitting(f, m + 1) = FIFO_CAPACITY - f.count
        BY <1>3, <2>1, <3>3 DEF Fitting
      <4> QED
        BY <1>3, <2>1, <2>4, <3>1, <3>3, <4>1
    <3> QED
      BY <3>2, <3>3
  <2>6. ASSUME NEW k \in 1..h.count
        PROVE  Contents(h)[k] = IF k <= f.count THEN Contents(f)[k] ELSE samples[k - f.count]
    <3>0. g.count \in Nat /\ h.count \in Nat /\ f.count <= g.count /\ f.count \in Nat
      BY <1>3, <2>1, <2>3, <2>5 DEF Fitting
    <3>1. CASE k <= g.count
      <4>1. k \in 1..g.count
        BY <3>0, <3>1
      <4> QED
        BY <2>3, <2>4, <3>1, <4>1
    <3>2. CASE ~(k <= g.count)
      <4>1. k = g.count + 1 /\ g.count < FIFO_CAPACITY
        BY <1>3, <2>4, <3>0, <3>2
      <4>2. g.count = f.count + m
        BY <1>3, <2>1, <2>3, <4>1 DEF Fitting
      <4>3. k - f.count = m + 1 /\ ~(k <= f.count)
        BY <2>1, <3>0, <4>1, <4>2
      <4>4. Contents(h)[k] = s
        BY <2>4, <3>2
      <4> QED
        BY <4>3, <4>4 DEF s
    <3> QED
      BY <3>1, <3>2
  <2>7. Good(h, m + 1)
    BY <2>3, <2>4, <2>5, <2>6
  <2> HIDE DEF Good
  <2> QED
    BY <2>1, <2>7 DEF h
<1>6. L \in S
  <2> HIDE DEF S, L
  <2> QED
    BY <1>2, <1>4, <1>5, InductionTo
<1>7. Good(PushAll(f, samples), L)
  BY <1>1, <1>6
<1>8. Fitting(f, L) \in 0..L
  BY <1>2, <1>3 DEF Fitting
<1> QED
  BY <1>7, <1>8

(* A pop plays the oldest sample and leaves the others. *)
LEMMA PopEffect ==
  ASSUME NEW f, Ring(f)
  PROVE  LET g == PopSample(f)
         IN  /\ Ring(g)
             /\ f.count = 0 => g = f
             /\ f.count > 0 =>
                  /\ g.count = f.count - 1 /\ g.current_sample = Contents(f)[1]
                  /\ \A k \in 1..g.count : Contents(g)[k] = Contents(f)[k + 1]
<1> DEFINE g == PopSample(f)
<1>1. /\ f \in Fifo /\ f.count \in 0..FIFO_CAPACITY /\ f.read_pos \in 0..(FIFO_CAPACITY - 1)
      /\ FIFO_CAPACITY \in Nat \ {0} /\ f.buffer \in [Pos -> Sample]
      /\ f.write_pos = (f.read_pos + f.count) % FIFO_CAPACITY
  BY FifoAssumption DEF Ring, Fifo, Pos
<1>2. CASE f.count = 0
  <2>1. g = f
    BY <1>2 DEF PopSample
  <2> HIDE DEF g
  <2> QED
    BY <1>2, <2>1 DEF g
<1>3. CASE f.count > 0
  <2>1. g = [f EXCEPT !.current_sample = f.buffer[f.read_pos], !.read_pos = After(@),
                      !.count = @ - 1]
    BY <1>3 DEF PopSample
  <2>2. After(f.read_pos) \in Pos
    BY <1>1 DEF After, Pos
  <2> HIDE DEF g
  <2>3. /\ g.count = f.count - 1 /\ g.read_pos = After(f.read_pos)
        /\ g.current_sample = f.buffer[f.read_pos] /\ g.write_pos = f.write_pos
        /\ g.buffer = f.buffer
    BY <1>1, <2>1 DEF Fifo
  <2>4. g \in Fifo
    <3>1. f.count - 1 \in 0..FIFO_CAPACITY /\ f.buffer[f.read_pos] \in Sample
      BY <1>1, <1>3, SMTT(40) DEF Pos
    <3> HIDE DEF After
    <3> QED
      BY <1>1, <2>1, <2>2, <3>1 DEF Fifo
  <2>5. ASSUME NEW k \in Int
        PROVE  (g.read_pos + k) % FIFO_CAPACITY = (f.read_pos + (k + 1)) % FIFO_CAPACITY
    <3> DEFINE a == f.read_pos + 1
    <3>1. a \in Int /\ k \in Int /\ FIFO_CAPACITY \in Nat \ {0}
      BY <1>1
    <3>2. f.read_pos + (k + 1) = a + k
      BY <1>1
    <3>3. g.read_pos = a % FIFO_CAPACITY
      BY <2>3 DEF After
    <3> HIDE DEF a
    <3>4. ((a % FIFO_CAPACITY) + k) % FIFO_CAPACITY = (a + k) % FIFO_CAPACITY
      BY ONLY <3>1, WrapOnce
    <3> QED
      BY <3>2, <3>3, <3>4
  <2>6. Ring(g)
    <3> DEFINE k == f.count - 1
    <3>1. k \in Int /\ k + 1 = f.count /\ g.count = k
      BY <1>1, <2>3
    <3>2. (g.read_pos + k) % FIFO_CAPACITY = (f.read_pos + (k + 1)) % FIFO_CAPACITY
      BY <2>5, <3>1
    <3> QED
      BY <1>1, <2>3, <2>4, <3>1, <3>2 DEF Ring
  <2>7. g.current_sample = Contents(f)[1]
    <3>1. 1 \in 1..f.count /\ f.read_pos + 1 - 1 = f.read_pos
      BY <1>1, <1>3
    <3>2. f.read_pos % FIFO_CAPACITY = f.read_pos
      BY <1>1, NoWrap
    <3>3. Contents(f)[1] = f.buffer[(f.read_pos + 1 - 1) % FIFO_CAPACITY]
      BY <1>1, <3>1, ContentsType
    <3> QED
      BY <2>3, <3>1, <3>2, <3>3
  <2>8. ASSUME NEW k \in 1..g.count PROVE Contents(g)[k] = Contents(f)[k + 1]
    <3>1. k + 1 \in 1..f.count /\ k - 1 \in Int /\ (k - 1) + 1 = k
      BY <1>1, <2>3
    <3>2. Contents(g)[k] = g.buffer[(g.read_pos + k - 1) % FIFO_CAPACITY]
      BY <2>4, ContentsType
    <3>3. Contents(f)[k + 1] = f.buffer[(f.read_pos + (k + 1) - 1) % FIFO_CAPACITY]
      BY <1>1, <3>1, ContentsType
    <3>4. (g.read_pos + (k - 1)) % FIFO_CAPACITY = (f.read_pos + k) % FIFO_CAPACITY
      BY <2>5, <3>1
    <3>5. g.read_pos + k - 1 = g.read_pos + (k - 1) /\ f.read_pos + (k + 1) - 1 = f.read_pos + k
      BY <1>1, <2>3, <2>2 DEF Pos
    <3> QED
      BY <2>3, <3>2, <3>3, <3>4, <3>5
  <2> QED
    BY <1>3, <2>3, <2>6, <2>7, <2>8 DEF g
<1> QED
  BY <1>1, <1>2, <1>3

(* A new ring, and a ring that was reset, are empty. *)
LEMMA EmptyRing ==
  /\ Ring(NewFifo) /\ Contents(NewFifo) = <<>> /\ NewFifo.current_sample = Silence
  /\ NewFifo.count = 0
  /\ \A f : Ring(f) => /\ Ring(ResetFifo(f)) /\ Contents(ResetFifo(f)) = <<>>
                       /\ ResetFifo(f).current_sample = Silence /\ ResetFifo(f).count = 0
<1>1. FIFO_CAPACITY \in Nat \ {0} /\ 0 \in Pos /\ 0 \in 0..FIFO_CAPACITY /\ Silence \in Sample
      /\ 0 % FIFO_CAPACITY = 0 /\ 0 + 0 = 0
  <2>1. FIFO_CAPACITY \in Nat \ {0} /\ 0 \in 0..(FIFO_CAPACITY - 1)
    BY FifoAssumption
  <2> QED
    BY <2>1, NoWrap, FifoAssumption DEF Pos
<1>2. ASSUME NEW f \in Fifo, f.count = 0 PROVE Contents(f) = <<>>
  <2>1. Contents(f) \in Seq(Sample) /\ Len(Contents(f)) = 0
    BY <1>2, ContentsType
  <2> HIDE DEF Contents
  <2> QED
    BY <2>1, EmptySeq
<1>3. NewFifo \in Fifo /\ NewFifo.count = 0 /\ NewFifo.read_pos = 0 /\ NewFifo.write_pos = 0
  BY <1>1 DEF NewFifo, Fifo
<1>4. ASSUME NEW f, Ring(f)
      PROVE  /\ ResetFifo(f) \in Fifo /\ ResetFifo(f).count = 0
             /\ ResetFifo(f).read_pos = 0 /\ ResetFifo(f).write_pos = 0
             /\ ResetFifo(f).current_sample = Silence
  BY <1>1, <1>4 DEF ResetFifo, Ring, Fifo
<1>5. Ring(NewFifo) /\ Contents(NewFifo) = <<>> /\ NewFifo.current_sample = Silence
  BY <1>1, <1>2, <1>3 DEF Ring, NewFifo
<1>6. ASSUME NEW f, Ring(f)
      PROVE  /\ Ring(ResetFifo(f)) /\ Contents(ResetFifo(f)) = <<>>
             /\ ResetFifo(f).current_sample = Silence /\ ResetFifo(f).count = 0
  BY <1>1, <1>2, <1>4, <1>6 DEF Ring
<1> QED
  BY <1>3, <1>5, <1>6
-----------------------------------------------------------------------------
(* The ring buffer is a bounded queue. *)

(* A store of several samples is a write to the queue. *)
LEMMA StoreIsWrite ==
  ASSUME Ring(fifo), NEW samples \in Seq(Sample), FifoStore(samples)
  PROVE  Ring(fifo') /\ Queue!Write(samples)
<1> DEFINE f == fifo
           g == PushAll(f, samples)
           n == Fitting(f, Len(samples))
           s == Contents(f)
           room == IF Len(samples) <= FIFO_CAPACITY - Len(s) THEN samples
                   ELSE SubSeq(samples, 1, FIFO_CAPACITY - Len(s))
<1>1. /\ Ring(g) /\ g.current_sample = f.current_sample
      /\ n \in 0..Len(samples) /\ g.count = f.count + n
      /\ \A k \in 1..g.count :
           Contents(g)[k] = IF k <= f.count THEN Contents(f)[k] ELSE samples[k - f.count]
  BY PushAllEffect
<1>2. f \in Fifo /\ g \in Fifo /\ fifo' = g /\ refill' = refill
  BY <1>1 DEF Ring, FifoStore
<1> HIDE DEF f, g
<1>3. /\ s \in Seq(Sample) /\ Len(s) = f.count /\ f.count \in 0..FIFO_CAPACITY
      /\ Contents(g) \in Seq(Sample) /\ Len(Contents(g)) = g.count
      /\ FIFO_CAPACITY \in Nat \ {0}
  BY <1>2, ContentsType, FifoAssumption
<1>4. Len(samples) \in Nat /\ samples \in [1..Len(samples) -> Sample]
  BY LenProperties
<1>5. /\ room \in Seq(Sample) /\ Len(room) = n
      /\ \A k \in 1..n : room[k] = samples[k]
  <2>1. CASE Len(samples) <= FIFO_CAPACITY - Len(s)
    <3>1. n = Len(samples)
      BY <1>3, <1>4, <2>1 DEF Fitting
    <3> QED
      BY <2>1, <3>1
  <2>2. CASE ~(Len(samples) <= FIFO_CAPACITY - Len(s))
    <3> DEFINE m == FIFO_CAPACITY - Len(s)
    <3>1. n = m /\ m \in 0..Len(samples) /\ m \in Int /\ 1 \in Int
      BY <1>3, <1>4, <2>2 DEF Fitting
    <3>2. \A k \in 1..m : samples[k] \in Sample
      BY <1>4, <3>1
    <3>3. room = SubSeq(samples, 1, m)
      BY <2>2
    <3> HIDE DEF m, s, room, n
    <3>4. /\ SubSeq(samples, 1, m) \in Seq(Sample)
          /\ Len(SubSeq(samples, 1, m)) = IF 1 <= m THEN m - 1 + 1 ELSE 0
          /\ \A k \in 1..(m - 1 + 1) : SubSeq(samples, 1, m)[k] = samples[1 + k - 1]
      BY <3>1, <3>2, SubSeqProperties
    <3>5. m \in Nat /\ m - 1 + 1 = m /\ (IF 1 <= m THEN m - 1 + 1 ELSE 0) = m
          /\ \A k \in 1..m : 1 + k - 1 = k
      BY <1>4, <3>1
    <3> QED
      BY <3>1, <3>3, <3>4, <3>5
  <2> QED
    BY <2>1, <2>2
<1> HIDE DEF room, s, n
<1>6. /\ s \o room \in Seq(Sample) /\ Len(s \o room) = Len(s) + Len(room)
      /\ \A k \in 1..(Len(s) + Len(room)) :
           (s \o room)[k] = IF k <= Len(s) THEN s[k] ELSE room[k - Len(s)]
  BY <1>3, <1>5, ConcatProperties, Zenon
<1>7. Contents(g) = s \o room
  <2>1. Len(Contents(g)) = Len(s \o room)
    BY <1>1, <1>3, <1>5, <1>6
  <2>2. ASSUME NEW k \in 1..Len(Contents(g)) PROVE Contents(g)[k] = (s \o room)[k]
    <3>1. k \in 1..g.count /\ k \in 1..(Len(s) + Len(room))
      BY <1>1, <1>3, <1>5
    <3>2. CASE k <= f.count
      BY <1>1, <1>3, <1>6, <3>1, <3>2, SMTT(40) DEF s
    <3>3. CASE ~(k <= f.count)
      <4>1. k - f.count \in 1..n
        BY <1>1, <1>3, <3>1, <3>3, SMTT(40)
      <4>2. Contents(g)[k] = samples[k - f.count]
        BY <1>1, <3>1, <3>3
      <4>3. (s \o room)[k] = room[k - f.count]
        BY <1>3, <1>6, <3>1, <3>3
      <4> QED
        BY <1>5, <4>1, <4>2, <4>3
    <3> QED
      BY <3>2, <3>3
  <2> HIDE DEF Contents
  <2> QED
    BY <1>3, <1>6, <2>1, <2>2, SeqEqual
<1>8. Ring(fifo')
  BY <1>1, <1>2
<1>9. Contents(fifo)' = Contents(fifo) \o (IF Len(samples) <= Queue!Room THEN samples
                                          ELSE SubSeq(samples, 1, Queue!Room))
  <2>1. Contents(fifo)' = Contents(g)
    BY <1>2 DEF Contents
  <2>2. Queue!Room = FIFO_CAPACITY - Len(Contents(fifo))
    BY DEF Queue!Room
  <2> HIDE DEF Contents
  <2> QED
    BY <1>7, <2>1, <2>2 DEF room, s, f
<1>10. fifo.current_sample' = fifo.current_sample /\ refill' = refill
  BY <1>1, <1>2 DEF f
<1> QED
  BY <1>8, <1>9, <1>10 DEF Queue!Write

(* A timer overflow is a pop of the queue. *)
LEMMA OverflowIsPop ==
  ASSUME Ring(fifo), FifoOverflow
  PROVE  Ring(fifo') /\ Queue!Pop
<1> DEFINE f == fifo
           g == PopSample(f)
           s == Contents(f)
           t == Contents(g)
<1>1. /\ Ring(g) /\ fifo' = g /\ refill' = (g.count <= HALF)
      /\ f.count = 0 => g = f
      /\ f.count > 0 =>
           /\ g.count = f.count - 1 /\ g.current_sample = Contents(f)[1]
           /\ \A k \in 1..g.count : Contents(g)[k] = Contents(f)[k + 1]
  BY PopEffect DEF FifoOverflow, NeedsRefill
<1>2. f \in Fifo /\ g \in Fifo
  BY <1>1 DEF Ring
<1> HIDE DEF g
<1>3. /\ s \in Seq(Sample) /\ Len(s) = f.count /\ t \in Seq(Sample) /\ Len(t) = g.count
      /\ f.count \in Nat
  BY <1>2, ContentsType
<1>4. Contents(fifo)' = t /\ fifo.current_sample' = g.current_sample
  BY <1>1 DEF Contents
<1>5. t = IF s = <<>> THEN s ELSE Tail(s)
  <2>1. CASE f.count = 0
    <3>1. s = <<>>
      BY <1>3, <2>1, EmptySeq
    <3> QED
      BY <1>1, <2>1, <3>1
  <2>2. CASE f.count > 0
    <3>1. s # <<>>
      <4> HIDE DEF s
      <4> QED
        BY <1>3, <2>2, EmptySeq
    <3>2. \A k \in 1..g.count : t[k] = s[k + 1]
      BY <1>1, <2>2
    <3> HIDE DEF s, t
    <3>3. /\ Tail(s) \in Seq(Sample) /\ Len(Tail(s)) = Len(s) - 1
          /\ \A i \in 1..Len(Tail(s)) : Tail(s)[i] = s[i + 1]
      BY <1>3, <3>1, HeadTailProperties
    <3>4. Len(t) = Len(Tail(s)) /\ \A k \in 1..Len(t) : t[k] = Tail(s)[k]
      BY <1>1, <1>3, <2>2, <3>2, <3>3
    <3>5. t = Tail(s)
      BY <1>3, <3>3, <3>4, SeqEqual
    <3> QED
      BY <3>1, <3>5
  <2> QED
    BY <1>3, <2>1, <2>2
<1>6. g.current_sample = IF s = <<>> THEN f.current_sample ELSE Head(s)
  <2>1. CASE f.count = 0
    <3>1. s = <<>>
      BY <1>3, <2>1, EmptySeq
    <3> QED
      BY <1>1, <2>1, <3>1
  <2>2. CASE f.count > 0
    <3>1. s # <<>>
      <4> HIDE DEF s
      <4> QED
        BY <1>3, <2>2, EmptySeq
    <3>2. Head(s) = s[1]
      OBVIOUS
    <3> QED
      BY <1>1, <2>2, <3>1, <3>2
  <2> QED
    BY <1>3, <2>1, <2>2
<1>7. refill' = (Len(t) <= HALF)
  BY <1>1, <1>3
<1>8. Ring(fifo')
  BY <1>1
<1> HIDE DEF Contents
<1> QED
  BY <1>4, <1>5, <1>6, <1>7, <1>8 DEF Queue!Pop

(* The ring buffer implements the bounded queue (apu/fifo.rs, write16,     *)
(* write32, pop_sample and reset): samples play in the order written, none *)
(* twice, none lost but those that found the FIFO full.                    *)
THEOREM RingIsQueue == FifoSpec => ImplementsQueue
<1>1. FifoInit => Ring(fifo) /\ Queue!Init
  BY EmptyRing DEF FifoInit, Queue!Init
<1>2. Ring(fifo) /\ [FifoNext]_fifoVars => Ring(fifo)' /\ [Queue!Next]_(Queue!vars)
  <2> SUFFICES ASSUME Ring(fifo), [FifoNext]_fifoVars
               PROVE  Ring(fifo') /\ [Queue!Next]_(Queue!vars)
    BY DEF Ring
  <2>1. ASSUME NEW n \in Bursts, NEW samples \in [1..n -> Sample], FifoStore(samples)
        PROVE  Ring(fifo') /\ Queue!Next
    <3>1. samples \in Seq(Sample)
      BY BurstAssumption
    <3> QED
      BY <2>1, <3>1, StoreIsWrite DEF Queue!Next
  <2>2. CASE FifoOverflow
    BY <2>2, OverflowIsPop DEF Queue!Next
  <2>3. CASE FifoReset
    <3>1. Ring(fifo') /\ Contents(fifo') = <<>> /\ fifo'.current_sample = Silence
          /\ refill' = refill
      BY <2>3, EmptyRing DEF FifoReset
    <3>2. Queue!Reset
      BY <3>1 DEF Queue!Reset, Contents
    <3> QED
      BY <3>1, <3>2 DEF Queue!Next
  <2>4. CASE UNCHANGED fifoVars
    BY <2>4 DEF fifoVars, Queue!vars, Contents
  <2> QED
    BY <2>1, <2>2, <2>3, <2>4 DEF FifoNext
<1> QED
  BY <1>1, <1>2, PTL DEF FifoSpec, ImplementsQueue, Queue!Spec
-----------------------------------------------------------------------------
(* The DMA that refills the FIFOs. *)

(* What a destination register holds, and what is latched from it. *)
Aims(ch) == Dads[ch] \cup {d % ADDR_MASK[ch] : d \in Dads[ch]}

(* The ports are two registers, neither at address 0, and each channel is  *)
(* programmed for at most one of them, which no other channel is           *)
(* programmed for: "DMA1 (FIFO_A)", "DMA2 (FIFO_B)".                       *)
Exclusive ==
  /\ \A f, g \in FifoId : Port[f] = Port[g] => f = g
  /\ \A f \in FifoId : Port[f] # 0
  /\ \A ch, k \in Channel, f, g \in FifoId :
       Port[f] \in Aims(ch) /\ Port[g] \in Aims(k) => (f = g <=> ch = k)

(* A transfer fills half a FIFO (16 of 32). *)
Halves == HALF <= FIFO_BYTES /\ HALF + FIFO_BYTES <= FIFO_CAPACITY

(* A channel aims where it was told to, or has not been told yet. *)
Aimed(ch, c) ==
  /\ c \in DmaChannel /\ c.sad \in Sads \cup {0}
  /\ c.dad \in Dads[ch] \cup {0} /\ c.internal_dad \in Aims(ch) \cup {0}

(* The samples of a FIFO follow each other, and its channel goes on where  *)
(* they end, or went back to the start of a buffer.                        *)
Follows(a, b) ==
  \/ b = (a + 1) % ADDR_SPACE
  \/ \E ch \in Channel, v \in Sads \cup {0} : b = v % ADDR_MASK[ch]
InOrder(q) == \A k \in 1..(q.count - 1) : Follows(Contents(q)[k], Contents(q)[k + 1])
GoesOn(q, a) == q.count > 0 => Follows(Contents(q)[q.count], a)
InStream(fs, chs) ==
  \A f \in FifoId :
    /\ InOrder(fs[f])
    /\ \A ch \in Channel : chs[ch].internal_dad = Port[f] => GoesOn(fs[f], chs[ch].internal_sad)

(* What a step works on. *)
Work == [fifos : [FifoId -> Fifo], select : [FifoId -> FifoTimers],
         channels : [Channel -> DmaChannel], lost : SUBSET FifoId]
Sane(st) ==
  /\ st \in Work
  /\ \A f \in FifoId : Ring(st.fifos[f])
  /\ \A ch \in Channel : Aimed(ch, st.channels[ch])
  /\ st.lost = {} /\ InStream(st.fifos, st.channels)

(* Channels that differ only in how far they have read. *)
Alike(chs, then) ==
  \A ch \in Channel :
    /\ then[ch].control = chs[ch].control /\ then[ch].active = chs[ch].active
    /\ then[ch].dad = chs[ch].dad /\ then[ch].internal_dad = chs[ch].internal_dad

(* They ask for the same, and feed the same FIFOs. *)
LEMMA AlikeFeed ==
  ASSUME NEW chs, NEW then, Alike(chs, then)
  PROVE  /\ \A ch \in Channel : \A port : Selected(chs[ch], port) <=> Selected(then[ch], port)
         /\ \A f \in FifoId : Feeds(chs, f) <=> Feeds(then, f)
<1>1. \A ch \in Channel : \A port : Selected(chs[ch], port) <=> Selected(then[ch], port)
  BY DEF Alike, Selected, Live
<1> QED
  BY <1>1 DEF Feeds, Alike

(* A pop keeps the order, and leaves the end of the stream where it is.    *)
LEMMA PopInOrder ==
  ASSUME NEW q, Ring(q), InOrder(q)
  PROVE  InOrder(PopSample(q)) /\ \A a : GoesOn(q, a) => GoesOn(PopSample(q), a)
<1> DEFINE p == PopSample(q)
<1>1. /\ q.count = 0 => p = q
      /\ q.count > 0 => /\ p.count = q.count - 1
                        /\ \A k \in 1..p.count : Contents(p)[k] = Contents(q)[k + 1]
      /\ q.count \in Nat
  BY PopEffect, FifoAssumption DEF Ring, Fifo
<1> HIDE DEF p
<1>2. CASE q.count > 0
  <2> DEFINE m == p.count
  <2>1. m \in Nat /\ q.count = m + 1
    BY <1>1, <1>2
  <2>2. \A k \in 1..m : Contents(p)[k] = Contents(q)[k + 1]
    BY <1>1, <1>2
  <2> HIDE DEF m
  <2>3. ASSUME NEW k \in 1..(m - 1) PROVE Follows(Contents(p)[k], Contents(p)[k + 1])
    <3>1. k + 1 \in 1..(q.count - 1) /\ k \in 1..m /\ k + 1 \in 1..m
      BY <2>1
    <3>2. Follows(Contents(q)[k + 1], Contents(q)[(k + 1) + 1])
      BY <3>1 DEF InOrder
    <3> QED
      BY <2>2, <3>1, <3>2
  <2>4. ASSUME NEW a, GoesOn(q, a), m > 0 PROVE Follows(Contents(p)[m], a)
    <3>1. m \in 1..m
      BY <2>1, <2>4
    <3> QED
      BY <1>2, <2>1, <2>2, <2>4, <3>1 DEF GoesOn
  <2> QED
    BY <2>3, <2>4 DEF InOrder, GoesOn, m, p
<1>3. CASE ~(q.count > 0)
  <2>1. q.count = 0
    BY <1>1, <1>3
  <2> QED
    BY <1>1, <2>1 DEF p
<1> QED
  BY <1>2, <1>3

(* What a channel fetches goes on where it was, and so does the channel.   *)
LEMMA FedInOrder ==
  ASSUME NEW q, Ring(q), InOrder(q), NEW a \in Addr, GoesOn(q, a),
         NEW samples \in Seq(Sample), Len(samples) = FIFO_BYTES,
         \A k \in 1..FIFO_BYTES : samples[k] = (a + k - 1) % ADDR_SPACE,
         q.count + FIFO_BYTES <= FIFO_CAPACITY
  PROVE  LET p == PushAll(q, samples)
         IN  InOrder(p) /\ GoesOn(p, (a + FIFO_BYTES) % ADDR_SPACE)
<1> DEFINE p == PushAll(q, samples)
           m == q.count
           n == FIFO_BYTES
<1>1. m \in Nat /\ n \in Nat \ {0} /\ ADDR_SPACE \in Nat \ {0} /\ a \in Int
  BY DmaAssumption, FifoAssumption DEF Ring, Fifo, Addr
<1>2. /\ p.count = m + n
      /\ \A k \in 1..(m + n) : Contents(p)[k] = IF k <= m THEN Contents(q)[k] ELSE samples[k - m]
  <2>1. Fitting(q, Len(samples)) = n
    BY DEF Fitting
  <2>2. /\ p.count = q.count + Fitting(q, Len(samples))
        /\ \A k \in 1..p.count :
             Contents(p)[k] = IF k <= q.count THEN Contents(q)[k] ELSE samples[k - q.count]
    BY PushAllEffect
  <2> HIDE DEF p
  <2> QED
    BY <2>1, <2>2
<1> HIDE DEF p, m, n
<1>3. ASSUME NEW k \in 1..n
      PROVE  (a + k) % ADDR_SPACE = (samples[k] + 1) % ADDR_SPACE
  <2>1. samples[k] = (a + k - 1) % ADDR_SPACE
    BY DEF n
  <2> DEFINE x == a + k - 1
  <2>2. x \in Int /\ x + 1 = a + k
    BY <1>1
  <2> HIDE DEF x
  <2>3. ((x % ADDR_SPACE) + 1) % ADDR_SPACE = (x + 1) % ADDR_SPACE
    <3> DEFINE w == ADDR_SPACE
    <3>1. w \in Nat \ {0} /\ 1 \in Int
      BY <1>1
    <3> HIDE DEF w
    <3>2. ((x % w) + 1) % w = (x + 1) % w
      BY ONLY <2>2, <3>1, WrapOnce
    <3> QED
      BY <3>2 DEF w
  <2> QED
    BY <2>1, <2>2, <2>3 DEF x
<1>4. samples[1] = a
  <2>1. a % ADDR_SPACE = a
    BY <1>1, NoWrap DEF Addr
  <2>2. 1 \in 1..n /\ a + 1 - 1 = a
    BY <1>1
  <2> QED
    BY <2>1, <2>2 DEF n
<1>5. ASSUME NEW k \in 1..((m + n) - 1) PROVE Follows(Contents(p)[k], Contents(p)[k + 1])
  <2>1. k \in 1..(m + n) /\ k + 1 \in 1..(m + n) /\ k \in Nat
    BY <1>1
  <2>2. CASE k < m
    <3>1. k <= m /\ k + 1 <= m /\ k \in 1..(m - 1)
      BY <1>1, <2>1, <2>2
    <3>2. Contents(p)[k] = Contents(q)[k] /\ Contents(p)[k + 1] = Contents(q)[k + 1]
      BY <1>2, <2>1, <3>1
    <3> QED
      BY <3>1, <3>2 DEF InOrder, m
  <2>3. CASE k = m
    <3>1. k <= m /\ ~(k + 1 <= m) /\ (k + 1) - m = 1 /\ m > 0
      BY <1>1, <2>1, <2>3
    <3>2. Contents(p)[k] = Contents(q)[m] /\ Contents(p)[k + 1] = a
      BY <1>2, <1>4, <2>1, <2>3, <3>1
    <3> QED
      BY <3>1, <3>2 DEF GoesOn, m
  <2>4. CASE k > m
    <3> DEFINE j == k - m
    <3>1. ~(k <= m) /\ ~(k + 1 <= m) /\ (k + 1) - m = j + 1 /\ j \in 1..n /\ j + 1 \in 1..n
      BY <1>1, <2>1, <2>4
    <3>2. Contents(p)[k] = samples[j] /\ Contents(p)[k + 1] = samples[j + 1]
      BY <1>2, <2>1, <3>1
    <3>3. samples[j + 1] = (a + (j + 1) - 1) % ADDR_SPACE /\ a + (j + 1) - 1 = a + j
      BY <1>1, <3>1 DEF n
    <3>4. (a + j) % ADDR_SPACE = (samples[j] + 1) % ADDR_SPACE
      BY <1>3, <3>1
    <3> HIDE DEF j
    <3> QED
      BY <3>2, <3>3, <3>4 DEF Follows
  <2> QED
    BY <1>1, <2>1, <2>2, <2>3, <2>4
<1>6. Follows(Contents(p)[m + n], (a + n) % ADDR_SPACE)
  <2>1. m + n \in 1..(m + n) /\ ~(m + n <= m) /\ (m + n) - m = n /\ n \in 1..n
    BY <1>1
  <2>2. Contents(p)[m + n] = samples[n]
    BY <1>2, <2>1
  <2>3. (a + n) % ADDR_SPACE = (samples[n] + 1) % ADDR_SPACE
    BY <1>3, <2>1
  <2> QED
    BY <2>2, <2>3 DEF Follows
<1> QED
  BY <1>2, <1>5, <1>6 DEF InOrder, GoesOn, p, n

(* A transfer reads as many samples as a FIFO channel moves. *)
LEMMA TransferType ==
  ASSUME NEW ch \in Channel, NEW c, Aimed(ch, c), Live(c), c.control.timing = "Special"
  PROVE  /\ FifoSources(c) \in Seq(Sample) /\ Len(FifoSources(c)) = FIFO_BYTES
         /\ Aimed(ch, RunDma(ch, c))
         /\ RunDma(ch, c).control = c.control /\ RunDma(ch, c).active = c.active
         /\ RunDma(ch, c).dad = c.dad /\ RunDma(ch, c).internal_dad = c.internal_dad
         /\ RunDma(ch, c).internal_sad = (c.internal_sad + FIFO_BYTES) % ADDR_SPACE
<1>1. /\ c \in DmaChannel /\ c.internal_sad \in Int
      /\ ADDR_SPACE \in Nat \ {0} /\ FIFO_BYTES \in Nat \ {0} /\ Sample = Addr
  BY DmaAssumption, SoundAssumption DEF Aimed, DmaChannel, Addr
<1>2. \A a \in Int : a % ADDR_SPACE \in Addr
  BY <1>1 DEF Addr
<1>3. \A k \in 1..FIFO_BYTES : (c.internal_sad + k - 1) % ADDR_SPACE \in Addr
  <2>1. \A k \in 1..FIFO_BYTES : c.internal_sad + k - 1 \in Int
    BY <1>1
  <2> QED
    BY <1>2, <2>1
<1>4. FifoSources(c) \in [1..FIFO_BYTES -> Sample]
  BY <1>1, <1>3 DEF FifoSources
<1>5. FifoSources(c) \in Seq(Sample) /\ Len(FifoSources(c)) = FIFO_BYTES
  <2> HIDE DEF FifoSources
  <2> QED
    BY <1>1, <1>4
<1>6. RunDma(ch, c) = [c EXCEPT !.internal_sad = (@ + FIFO_BYTES) % ADDR_SPACE]
  <2>1. IsFifo(ch, c)
    BY SoundAssumption DEF IsFifo
  <2> QED
    BY <2>1 DEF RunDma, FifoTransfer
<1>7. (c.internal_sad + FIFO_BYTES) % ADDR_SPACE \in Addr
  BY <1>1, <1>2
<1> DEFINE d == RunDma(ch, c)
<1>8. /\ d \in DmaChannel /\ d.control = c.control /\ d.active = c.active
      /\ d.dad = c.dad /\ d.internal_dad = c.internal_dad /\ d.sad = c.sad
      /\ d.internal_sad = (c.internal_sad + FIFO_BYTES) % ADDR_SPACE
  BY <1>1, <1>6, <1>7 DEF DmaChannel
<1> HIDE DEF d
<1> QED
  BY <1>5, <1>8 DEF Aimed, d

(* A channel that plays to its register moves on by no more than its FIFO  *)
(* gains, apart from the samples that are popped.                          *)
Popped(set, f) == IF f \in set THEN 1 ELSE 0
WalkOf(ch, st, then, pops) ==
  st.channels[ch].internal_dad = st.channels[ch].dad =>
    \E k \in Nat :
      /\ then.channels[ch].internal_sad = (st.channels[ch].internal_sad + k) % ADDR_SPACE
      /\ \A f \in FifoId : st.channels[ch].internal_dad = Port[f] =>
           st.fifos[f].count + k <= then.fifos[f].count + Popped(pops, f)
      /\ k = 0 \/ \E f \in FifoId : st.channels[ch].internal_dad = Port[f]
Walk(st, then, pops) == \A ch \in Channel : WalkOf(ch, st, then, pops)

(* A channel that is not run does not move. *)
LEMMA WalkStill ==
  ASSUME NEW st \in Work, NEW then \in Work, NEW pops, NEW ch \in Channel,
         then.channels[ch] = st.channels[ch],
         \A f \in FifoId : st.fifos[f].count <= then.fifos[f].count + Popped(pops, f)
  PROVE  WalkOf(ch, st, then, pops)
<1> SUFFICES \E k \in Nat :
               /\ then.channels[ch].internal_sad = (st.channels[ch].internal_sad + k) % ADDR_SPACE
               /\ \A f \in FifoId : st.fifos[f].count + k <= then.fifos[f].count + Popped(pops, f)
               /\ k = 0
  BY DEF WalkOf
<1> DEFINE a == st.channels[ch].internal_sad
<1>1. a \in 0..(ADDR_SPACE - 1) /\ ADDR_SPACE \in Nat \ {0}
  BY DmaAssumption DEF Work, DmaChannel, Addr
<1>2. \A f \in FifoId : st.fifos[f].count \in Nat
  BY FifoAssumption DEF Work, Fifo
<1>3. then.channels[ch].internal_sad = a
  OBVIOUS
<1> HIDE DEF a
<1>4. (a + 0) % ADDR_SPACE = a
  <2>1. a + 0 = a
    BY <1>1
  <2> QED
    BY <1>1, <2>1, NoWrap
<1>5. \A f \in FifoId : st.fifos[f].count + 0 <= then.fifos[f].count + Popped(pops, f)
  BY <1>2
<1>6. then.channels[ch].internal_sad = (st.channels[ch].internal_sad + 0) % ADDR_SPACE
  BY <1>3, <1>4 DEF a
<1> WITNESS 0 \in Nat
<1> QED
  BY <1>5, <1>6

(* Two walks are one, if no FIFO is popped in both. *)
LEMMA WalkOn ==
  ASSUME NEW s \in Work, NEW t \in Work, NEW u \in Work, Alike(s.channels, t.channels),
         NEW P, NEW Q, P \cap Q = {}, Walk(s, t, P), Walk(t, u, Q)
  PROVE  Walk(s, u, P \cup Q)
<1> SUFFICES ASSUME NEW ch \in Channel, s.channels[ch].internal_dad = s.channels[ch].dad
             PROVE  \E k \in Nat :
                      /\ u.channels[ch].internal_sad = (s.channels[ch].internal_sad + k) % ADDR_SPACE
                      /\ \A f \in FifoId : s.channels[ch].internal_dad = Port[f] =>
                           s.fifos[f].count + k <= u.fifos[f].count + Popped(P \cup Q, f)
                      /\ k = 0 \/ \E f \in FifoId : s.channels[ch].internal_dad = Port[f]
  BY DEF Walk, WalkOf
<1> DEFINE a == s.channels[ch].internal_sad
           d == s.channels[ch].internal_dad
<1>1. t.channels[ch].internal_dad = d /\ t.channels[ch].dad = d
  BY DEF Alike
<1>2. PICK k \in Nat :
        /\ t.channels[ch].internal_sad = (a + k) % ADDR_SPACE
        /\ \A f \in FifoId : d = Port[f] => s.fifos[f].count + k <= t.fifos[f].count + Popped(P, f)
        /\ k = 0 \/ \E f \in FifoId : d = Port[f]
  BY DEF Walk, WalkOf
<1>3. PICK l \in Nat :
        /\ u.channels[ch].internal_sad = (t.channels[ch].internal_sad + l) % ADDR_SPACE
        /\ \A f \in FifoId : d = Port[f] => t.fifos[f].count + l <= u.fifos[f].count + Popped(Q, f)
        /\ l = 0 \/ \E f \in FifoId : d = Port[f]
  BY <1>1 DEF Walk, WalkOf
<1>4. a \in Int /\ ADDR_SPACE \in Nat \ {0}
  BY DmaAssumption DEF Work, DmaChannel, Addr
<1>5. \A f \in FifoId : s.fifos[f].count \in Nat /\ t.fifos[f].count \in Nat /\ u.fifos[f].count \in Nat
  BY FifoAssumption DEF Work, Fifo
<1> HIDE DEF a
<1>6. u.channels[ch].internal_sad = (a + (k + l)) % ADDR_SPACE
  <2>1. a + k \in Int /\ l \in Int /\ (a + k) + l = a + (k + l)
    BY <1>4
  <2>2. (((a + k) % ADDR_SPACE) + l) % ADDR_SPACE = ((a + k) + l) % ADDR_SPACE
    BY <1>4, <2>1, WrapOnce
  <2> QED
    BY <1>2, <1>3, <2>1, <2>2
<1>7. ASSUME NEW f \in FifoId, d = Port[f]
      PROVE  s.fifos[f].count + (k + l) <= u.fifos[f].count + Popped(P \cup Q, f)
  <2>1. /\ Popped(P, f) \in Nat /\ Popped(Q, f) \in Nat
        /\ Popped(P \cup Q, f) = Popped(P, f) + Popped(Q, f)
    BY DEF Popped
  <2>2. /\ s.fifos[f].count + k <= t.fifos[f].count + Popped(P, f)
        /\ t.fifos[f].count + l <= u.fifos[f].count + Popped(Q, f)
    BY <1>2, <1>3, <1>7
  <2> QED
    BY <1>5, <2>1, <2>2
<1>8. k + l \in Nat /\ (k + l = 0 \/ \E f \in FifoId : d = Port[f])
  BY <1>2, <1>3
<1> QED
  BY <1>6, <1>7, <1>8 DEF a

(* A channel that was selected for a FIFO writes to that FIFO, if to any. *)
LEMMA FeedByEffect ==
  ASSUME Exclusive, Halves, NEW st, Sane(st), NEW ch \in Channel, NEW f \in FifoId,
         Selected(st.channels[ch], Port[f]), st.fifos[f].count <= HALF
  PROVE  LET n == FeedBy(st, ch)
         IN  /\ Sane(n) /\ n.select = st.select /\ Alike(st.channels, n.channels)
             /\ \A g \in FifoId \ {f} : n.fifos[g] = st.fifos[g]
             /\ n.fifos[f].count \in Nat /\ Walk(st, n, {})
             /\ st.channels[ch].internal_dad = Port[f] => n.fifos[f].count >= HALF
<1> DEFINE c == st.channels[ch]
           d == RunDma(ch, c)
           n == FeedBy(st, ch)
           moved == [st EXCEPT !.channels[ch] = d]
           hit == {g \in FifoId : Port[g] = c.internal_dad}
<1>1. /\ st \in Work /\ c \in DmaChannel /\ Aimed(ch, c) /\ Live(c)
      /\ c.control.timing = "Special" /\ c.dad = Port[f]
  BY DEF Sane, Aimed, Selected
<1>2. /\ FifoSources(c) \in Seq(Sample) /\ Len(FifoSources(c)) = FIFO_BYTES
      /\ Aimed(ch, d) /\ d.control = c.control /\ d.active = c.active
      /\ d.dad = c.dad /\ d.internal_dad = c.internal_dad
      /\ d.internal_sad = (c.internal_sad + FIFO_BYTES) % ADDR_SPACE
  <2> HIDE DEF c
  <2> QED
    BY <1>1, TransferType
<1>3. hit \subseteq {f}
  <2>1. Port[f] \in Aims(ch)
    BY <1>1 DEF Aimed, Aims, Exclusive
  <2>2. ASSUME NEW g \in FifoId, Port[g] = c.internal_dad PROVE g = f
    <3>1. Port[g] \in Aims(ch)
      BY <1>1, <2>2 DEF Aimed, Exclusive
    <3> QED
      BY <2>1, <3>1 DEF Exclusive
  <2> QED
    BY <2>2
<1>4. d \in DmaChannel
  BY <1>2 DEF Aimed
<1> HIDE DEF d
<1>5. /\ moved \in Work /\ moved.fifos = st.fifos /\ moved.select = st.select
      /\ moved.lost = st.lost /\ moved.channels = [st.channels EXCEPT ![ch] = d]
  BY <1>1, <1>4 DEF Work
<1> HIDE DEF moved
<1>6. /\ \A k \in Channel : Aimed(k, moved.channels[k])
      /\ Alike(st.channels, moved.channels)
      /\ \A k \in Channel : moved.channels[k] = IF k = ch THEN d ELSE st.channels[k]
  <2>1. \A k \in Channel : moved.channels[k] = IF k = ch THEN d ELSE st.channels[k]
    BY <1>1, <1>5 DEF Work
  <2>2. \A k \in Channel : Aimed(k, moved.channels[k])
    BY <1>2, <2>1 DEF Sane
  <2>3. Alike(st.channels, moved.channels)
    BY <1>2, <2>1 DEF Alike
  <2> QED
    BY <2>1, <2>2, <2>3
<1>7. n = IF hit = {} THEN moved ELSE Store(moved, CHOOSE g \in hit : TRUE, FifoSources(c))
  BY DEF FeedBy, moved, d
<1>8. st.fifos[f].count \in Nat
  BY <1>1 DEF Work, Fifo
<1>9. CASE hit = {}
  <2>1. n = moved
    BY <1>7, <1>9
  <2>2. st.channels[ch].internal_dad # Port[f] /\ \A g \in FifoId : d.internal_dad # Port[g]
    BY <1>2, <1>9
  <2> HIDE DEF n, hit, c
  <2>3. InStream(moved.fifos, moved.channels)
    BY <1>5, <1>6, <2>2 DEF Sane, InStream
  <2>4. Sane(moved)
    BY <1>5, <1>6, <2>3 DEF Sane
  <2>5. Walk(st, moved, {})
    <3>1. WalkOf(ch, st, moved, {})
      BY <1>1, <2>2 DEF WalkOf, c
    <3>2. \A g \in FifoId : st.fifos[g].count <= moved.fifos[g].count + Popped({}, g)
      BY <1>1, <1>5, FifoAssumption DEF Work, Fifo, Popped
    <3>3. ASSUME NEW k \in Channel, k # ch PROVE WalkOf(k, st, moved, {})
      BY <1>1, <1>5, <1>6, <3>2, <3>3, WalkStill
    <3> QED
      BY <3>1, <3>3 DEF Walk
  <2> QED
    BY <1>5, <1>6, <1>8, <2>1, <2>2, <2>4, <2>5 DEF n
<1>10. CASE hit # {}
  <2> DEFINE q == st.fifos[f]
             p == PushAll(q, FifoSources(c))
  <2>1. (CHOOSE g \in hit : TRUE) = f /\ hit = {f}
    BY <1>3, <1>10
  <2>2. Ring(q) /\ q.count \in Nat /\ q.count <= HALF
    BY <1>8 DEF Sane
  <2>3. /\ HALF \in Nat /\ FIFO_BYTES \in Nat /\ FIFO_CAPACITY \in Nat
        /\ q.count + FIFO_BYTES <= FIFO_CAPACITY
    BY <2>2, FifoAssumption, DmaAssumption DEF Halves
  <2>4. Ring(p) /\ p.count = q.count + FIFO_BYTES
    <3>1. Fitting(q, FIFO_BYTES) = FIFO_BYTES
      BY <2>3 DEF Fitting
    <3> DEFINE samples == FifoSources(c)
    <3>2. samples \in Seq(Sample) /\ Len(samples) = FIFO_BYTES
      BY <1>2
    <3> HIDE DEF samples, q
    <3>3. Ring(PushAll(q, samples)) /\ PushAll(q, samples).count = q.count + Fitting(q, Len(samples))
      BY <2>2, <3>2, PushAllEffect
    <3> QED
      BY <3>1, <3>2, <3>3 DEF samples
  <2>5. n = Store(moved, f, FifoSources(c))
    BY <1>7, <1>10, <2>1
  <2>6. n = [moved EXCEPT !.fifos[f] = p, !.lost = moved.lost]
    <3>1. ~(moved.fifos[f].count + Len(FifoSources(c)) > FIFO_CAPACITY)
      BY <1>2, <1>5, <2>2, <2>3
    <3> QED
      BY <1>5, <2>5, <3>1 DEF Store
  <2>7. p \in Fifo
    BY <2>4 DEF Ring
  <2> HIDE DEF p, n
  <2>8. /\ n \in Work /\ n.select = moved.select /\ n.channels = moved.channels
        /\ n.lost = moved.lost /\ n.fifos = [st.fifos EXCEPT ![f] = p]
    BY <1>5, <2>6, <2>7 DEF Work
  <2>9. \A g \in FifoId : n.fifos[g] = IF g = f THEN p ELSE st.fifos[g]
    BY <1>1, <2>8 DEF Work
  <2>10. Sane(n)
    <3>1. InOrder(q) /\ GoesOn(q, c.internal_sad) /\ c.internal_sad \in Addr
      <4>1. c.internal_dad = Port[f]
        BY <2>1
      <4> QED
        BY <1>1, <4>1 DEF Sane, InStream, DmaChannel
    <3>2. InOrder(p) /\ GoesOn(p, d.internal_sad)
      <4> DEFINE samples == FifoSources(c)
                 a == c.internal_sad
      <4>1. \A k \in 1..FIFO_BYTES : samples[k] = (a + k - 1) % ADDR_SPACE
        BY DEF FifoSources
      <4>2. samples \in Seq(Sample) /\ Len(samples) = FIFO_BYTES
        BY <1>2
      <4>3. a \in Addr /\ InOrder(q) /\ GoesOn(q, a)
        BY <3>1
      <4>4. d.internal_sad = (a + FIFO_BYTES) % ADDR_SPACE
        BY <1>2
      <4> HIDE DEF samples, a, q
      <4>5. InOrder(PushAll(q, samples)) /\ GoesOn(PushAll(q, samples), (a + FIFO_BYTES) % ADDR_SPACE)
        BY <2>2, <2>3, <4>1, <4>2, <4>3, FedInOrder
      <4> QED
        BY <4>4, <4>5 DEF p, samples
    <3>3. d.internal_dad = Port[f] /\ \A g \in FifoId : Port[g] = Port[f] => g = f
      BY <1>2, <2>1 DEF Exclusive
    <3>4. \A k \in Channel : st.channels[k].internal_dad = Port[f] => k = ch
      <4> SUFFICES ASSUME NEW k \in Channel, st.channels[k].internal_dad = Port[f] PROVE k = ch
        OBVIOUS
      <4>1. Port[f] \in Aims(k) /\ Port[f] \in Aims(ch)
        BY <1>2, <3>3 DEF Sane, Aimed, Exclusive
      <4> QED
        BY <4>1 DEF Exclusive
    <3> HIDE DEF hit, c, q
    <3>5. InStream(n.fifos, n.channels)
      <4>1. \A k \in Channel : n.channels[k] = IF k = ch THEN d ELSE st.channels[k]
        BY <1>6, <2>8
      <4>2. \A g \in FifoId : InOrder(n.fifos[g])
        BY <2>9, <3>2 DEF Sane, InStream
      <4>3. ASSUME NEW g \in FifoId, NEW k \in Channel, n.channels[k].internal_dad = Port[g]
            PROVE  GoesOn(n.fifos[g], n.channels[k].internal_sad)
        <5>1. CASE k = ch
          BY <2>9, <3>2, <3>3, <4>1, <4>3, <5>1
        <5>2. CASE k # ch
          BY <2>9, <3>4, <4>1, <4>3, <5>2 DEF Sane, InStream
        <5> QED
          BY <5>1, <5>2
      <4> QED
        BY <4>2, <4>3 DEF InStream
    <3> QED
      BY <1>5, <1>6, <2>4, <2>8, <2>9, <3>5 DEF Sane
  <2>11. n.fifos[f].count \in Nat /\ n.fifos[f].count >= HALF
    BY <2>2, <2>3, <2>4, <2>9 DEF Halves
  <2>12. Walk(st, n, {})
    <3>1. \A g \in FifoId : st.fifos[g].count <= n.fifos[g].count + Popped({}, g)
      <4>1. \A g \in FifoId : st.fifos[g].count \in Nat
        BY <1>1, FifoAssumption DEF Work, Fifo
      <4>2. st.fifos[f].count <= n.fifos[f].count + Popped({}, f)
        BY <2>2, <2>3, <2>4, <2>9 DEF Popped
      <4>3. ASSUME NEW g \in FifoId, g # f
            PROVE  st.fifos[g].count <= n.fifos[g].count + Popped({}, g)
        <5>1. n.fifos[g] = st.fifos[g] /\ Popped({}, g) = 0
          BY <2>9, <4>3 DEF Popped
        <5> QED
          BY <4>1, <5>1
      <4> QED
        BY <4>2, <4>3
    <3>2. ASSUME NEW k \in Channel, k # ch PROVE WalkOf(k, st, n, {})
      BY <1>1, <1>6, <2>8, <3>1, <3>2, WalkStill
    <3>3. WalkOf(ch, st, n, {})
      <4>1. c.internal_dad = Port[f] /\ \A g \in FifoId : c.internal_dad = Port[g] => g = f
        BY <2>1
      <4>2. st.fifos[f].count + FIFO_BYTES <= n.fifos[f].count + Popped({}, f)
        BY <2>2, <2>3, <2>4, <2>9 DEF Popped
      <4>3. n.channels[ch].internal_sad = (c.internal_sad + FIFO_BYTES) % ADDR_SPACE
        BY <1>2, <1>6, <2>8
      <4> HIDE DEF hit, q
      <4> QED
        BY <2>3, <4>1, <4>2, <4>3 DEF WalkOf
    <3> QED
      BY <3>2, <3>3 DEF Walk
  <2> QED
    BY <1>5, <1>6, <2>8, <2>9, <2>10, <2>11, <2>12 DEF n
<1> QED
  BY <1>9, <1>10

(* One request is answered by one channel at the most, and if the channel  *)
(* is in order, the FIFO is half full again.                               *)
LEMMA RefillEffect ==
  ASSUME Exclusive, Halves, NEW st, Sane(st), NEW f \in FifoId, st.fifos[f].count <= HALF
  PROVE  LET n == RunDmaForFifo(st, Port[f])
         IN  /\ Sane(n) /\ n.select = st.select /\ Alike(st.channels, n.channels)
             /\ \A g \in FifoId \ {f} : n.fifos[g] = st.fifos[g]
             /\ Walk(st, n, {})
             /\ Feeds(st.channels, f) => n.fifos[f].count >= HALF
<1> DEFINE one(s, ch) == IF ch \in Channel /\ Selected(s.channels[ch], Port[f])
                         THEN FeedBy(s, ch) ELSE s
           n == RunDmaForFifo(st, Port[f])
           Asked(ch) == ch \in Channel /\ Selected(st.channels[ch], Port[f])
<1>1. n = one(one(st, 1), 2)
  BY DEF RunDmaForFifo
<1>2. ASSUME NEW ch, NEW k, Asked(ch), Asked(k) PROVE ch = k
  <2>1. Port[f] \in Aims(ch) /\ Port[f] \in Aims(k)
    BY <1>2 DEF Sane, Aimed, Aims, Selected, Exclusive
  <2> QED
    BY <1>2, <2>1 DEF Exclusive
<1>3. \A ch \in Channel : ch = 1 \/ ch = 2
  BY SoundAssumption
<1>4. Alike(st.channels, st.channels)
  BY DEF Alike
<1>5. ASSUME NEW ch, Asked(ch), n = FeedBy(st, ch)
      PROVE  /\ Sane(n) /\ n.select = st.select /\ Alike(st.channels, n.channels)
             /\ \A g \in FifoId \ {f} : n.fifos[g] = st.fifos[g]
             /\ Walk(st, n, {})
             /\ Feeds(st.channels, f) => n.fifos[f].count >= HALF
  <2> DEFINE m == FeedBy(st, ch)
  <2>1. /\ Sane(m) /\ m.select = st.select /\ Alike(st.channels, m.channels)
        /\ \A g \in FifoId \ {f} : m.fifos[g] = st.fifos[g]
        /\ Walk(st, m, {})
        /\ st.channels[ch].internal_dad = Port[f] => m.fifos[f].count >= HALF
    BY <1>5, FeedByEffect
  <2>2. Feeds(st.channels, f) => st.channels[ch].internal_dad = Port[f]
    BY <1>2, <1>5 DEF Feeds
  <2> HIDE DEF n, m
  <2> QED
    BY <1>5, <2>1, <2>2 DEF m
<1>6. Walk(st, st, {})
  <2>1. st \in Work
    BY DEF Sane
  <2>2. \A g \in FifoId : st.fifos[g].count <= st.fifos[g].count + Popped({}, g)
    BY <2>1, FifoAssumption DEF Work, Fifo, Popped
  <2> QED
    BY <2>1, <2>2, WalkStill DEF Walk
<1>7. CASE Asked(1)
  <2>1. one(st, 1) = FeedBy(st, 1)
    BY <1>7
  <2> DEFINE m == FeedBy(st, 1)
  <2>2. Alike(st.channels, m.channels)
    BY <1>7, FeedByEffect
  <2>3. ~Asked(2)
    BY <1>2, <1>7
  <2> HIDE DEF m
  <2>4. one(m, 2) = m
    BY <2>2, <2>3, AlikeFeed
  <2>5. n = m
    BY <1>1, <2>1, <2>4 DEF m
  <2> QED
    BY <1>5, <1>7, <2>5 DEF m
<1>8. CASE ~Asked(1) /\ Asked(2)
  <2>1. n = FeedBy(st, 2)
    BY <1>1, <1>8
  <2> QED
    BY <1>5, <1>8, <2>1
<1>9. CASE ~Asked(1) /\ ~Asked(2)
  <2>1. n = st
    BY <1>1, <1>9
  <2>2. ~Feeds(st.channels, f)
    BY <1>3, <1>9 DEF Feeds
  <2> HIDE DEF n
  <2> QED
    BY <1>4, <1>6, <2>1, <2>2 DEF n
<1> QED
  BY <1>7, <1>8, <1>9

(* A request is answered at once: after a pop of its timer a FIFO whose    *)
(* channel runs is half full.                                              *)
LEMMA OverflowEffect ==
  ASSUME Exclusive, Halves, NEW st, Sane(st), NEW i
  PROVE  LET n == OnTimerOverflow(st, i)
         IN  /\ Sane(n) /\ n.select = st.select /\ Alike(st.channels, n.channels)
             /\ Walk(st, n, {f \in FifoId : st.select[f] = i})
             /\ \A f \in FifoId :
                  /\ st.select[f] # i => n.fifos[f] = st.fifos[f]
                  /\ st.select[f] = i /\ Feeds(st.channels, f) => n.fifos[f].count >= HALF
<1> DEFINE clocked == {f \in FifoId : st.select[f] = i}
           asking == {f \in clocked : NeedsRefill(st.fifos[f])}
           popped == [st EXCEPT !.fifos = [f \in FifoId |->
                        IF f \in clocked THEN PopSample(@[f]) ELSE @[f]]]
           refill1(s, f) == IF f \in asking THEN RunDmaForFifo(s, Port[f]) ELSE s
           a == refill1(popped, "A")
           b == refill1(a, "B")
           n == OnTimerOverflow(st, i)
<1>1. n = b
  BY DEF OnTimerOverflow
<1>2. /\ Sane(popped) /\ popped.select = st.select /\ popped.channels = st.channels
      /\ \A f \in FifoId : popped.fifos[f] = IF f \in clocked THEN PopSample(st.fifos[f]) ELSE st.fifos[f]
  <2> DEFINE fs == [f \in FifoId |-> IF f \in clocked THEN PopSample(st.fifos[f]) ELSE st.fifos[f]]
  <2>1. st \in Work /\ \A f \in FifoId : Ring(st.fifos[f])
    BY DEF Sane
  <2>2. \A f \in FifoId : Ring(fs[f]) /\ fs[f] \in Fifo
    <3>1. \A f \in FifoId : Ring(PopSample(st.fifos[f]))
      BY <2>1, PopEffect
    <3> QED
      BY <2>1, <3>1 DEF Ring
  <2>3. popped = [st EXCEPT !.fifos = fs]
    OBVIOUS
  <2>4. fs \in [FifoId -> Fifo]
    BY <2>2
  <2>5. \A f \in FifoId : fs[f] = IF f \in clocked THEN PopSample(st.fifos[f]) ELSE st.fifos[f]
    OBVIOUS
  <2> HIDE DEF popped, fs, clocked
  <2>6. /\ popped \in Work /\ popped.fifos = fs /\ popped.select = st.select
        /\ popped.channels = st.channels /\ popped.lost = st.lost
    BY <2>1, <2>3, <2>4 DEF Work
  <2>7. InStream(fs, st.channels)
    <3>1. InStream(st.fifos, st.channels)
      BY DEF Sane
    <3>2. \A f \in FifoId : /\ InOrder(PopSample(st.fifos[f]))
                            /\ \A e : GoesOn(st.fifos[f], e) => GoesOn(PopSample(st.fifos[f]), e)
      BY <2>1, <3>1, PopInOrder DEF InStream
    <3> QED
      BY <2>5, <3>1, <3>2 DEF InStream
  <2> QED
    BY <2>2, <2>5, <2>6, <2>7 DEF Sane
<1>3. HALF \in Nat
  BY FifoAssumption
<1>4. ASSUME NEW f \in FifoId
      PROVE  /\ f \in asking => popped.fifos[f].count <= HALF
             /\ f \in clocked /\ f \notin asking => popped.fifos[f].count >= HALF
             /\ f \in clocked <=> st.select[f] = i
  <2>1. popped.fifos[f].count \in Nat
    BY <1>2 DEF Sane, Work, Fifo
  <2>2. f \in clocked => popped.fifos[f] = PopSample(st.fifos[f])
    BY <1>2
  <2> HIDE DEF popped
  <2> QED
    BY <1>3, <2>1, <2>2 DEF NeedsRefill
<1> HIDE DEF popped, clocked, asking
<1>5. asking \subseteq clocked /\ clocked \subseteq FifoId
  BY DEF asking, clocked
<1>6. FifoId \subseteq {"A", "B"}
  BY SoundAssumption
<1>7. ASSUME NEW s, Sane(s), NEW f, f \in asking => f \in FifoId /\ s.fifos[f].count <= HALF
      PROVE  LET m == refill1(s, f)
             IN  /\ Sane(m) /\ m.select = s.select /\ Alike(s.channels, m.channels)
                 /\ Walk(s, m, {})
                 /\ \A g \in FifoId : g # f => m.fifos[g] = s.fifos[g]
                 /\ f \notin asking => m = s
                 /\ f \in asking /\ Feeds(s.channels, f) => m.fifos[f].count >= HALF
  <2>1. CASE f \in asking
    <3> DEFINE m == RunDmaForFifo(s, Port[f])
    <3>1. /\ Sane(m) /\ m.select = s.select /\ Alike(s.channels, m.channels)
          /\ \A g \in FifoId \ {f} : m.fifos[g] = s.fifos[g]
          /\ Walk(s, m, {})
          /\ Feeds(s.channels, f) => m.fifos[f].count >= HALF
      BY <1>7, <2>1, RefillEffect
    <3>2. refill1(s, f) = m
      BY <2>1
    <3> HIDE DEF m, refill1
    <3> QED
      BY <2>1, <3>1, <3>2
  <2>2. CASE f \notin asking
    <3>1. refill1(s, f) = s /\ Alike(s.channels, s.channels)
      BY <2>2 DEF Alike
    <3>2. s \in Work /\ \A g \in FifoId : s.fifos[g].count <= s.fifos[g].count + Popped({}, g)
      BY <1>7, FifoAssumption DEF Sane, Work, Fifo, Popped
    <3>3. Walk(s, s, {})
      BY <3>2, WalkStill DEF Walk
    <3> HIDE DEF refill1
    <3> QED
      BY <1>7, <2>2, <3>1, <3>3
  <2> QED
    BY <2>1, <2>2
<1> HIDE DEF refill1
<1>8. /\ Sane(a) /\ a.select = st.select /\ Alike(st.channels, a.channels)
      /\ Walk(popped, a, {})
      /\ \A g \in FifoId : g # "A" => a.fifos[g] = popped.fifos[g]
      /\ "A" \notin asking => a = popped
      /\ "A" \in asking /\ Feeds(st.channels, "A") => a.fifos["A"].count >= HALF
  BY <1>2, <1>4, <1>5, <1>7
<1> HIDE DEF a
<1>9. /\ Sane(b) /\ b.select = a.select /\ Alike(a.channels, b.channels) /\ Walk(a, b, {})
      /\ \A g \in FifoId : g # "B" => b.fifos[g] = a.fifos[g]
      /\ "B" \notin asking => b = a
      /\ "B" \in asking /\ Feeds(a.channels, "B") => b.fifos["B"].count >= HALF
  <2>1. "B" \in asking => "B" \in FifoId /\ a.fifos["B"].count <= HALF
    BY <1>4, <1>5, <1>8
  <2> QED
    BY <1>7, <1>8, <2>1
<1> HIDE DEF b
<1>10. Sane(b) /\ b.select = st.select /\ Alike(st.channels, b.channels)
  BY <1>8, <1>9 DEF Alike
<1>11. Walk(st, b, clocked)
  <2>1. st \in Work /\ popped \in Work /\ a \in Work /\ b \in Work
    BY <1>2, <1>8, <1>9 DEF Sane
  <2>2. ASSUME NEW f \in FifoId
        PROVE  st.fifos[f].count <= popped.fifos[f].count + Popped(clocked, f)
    <3>1. /\ st.fifos[f].count \in Nat /\ popped.fifos[f].count \in Nat
          /\ Ring(st.fifos[f])
      BY <2>1, FifoAssumption DEF Sane, Work, Fifo
    <3>2. CASE f \in clocked
      <4>1. popped.fifos[f] = PopSample(st.fifos[f]) /\ Popped(clocked, f) = 1
        BY <1>2, <3>2 DEF Popped
      <4>2. PopSample(st.fifos[f]).count = st.fifos[f].count - 1 \/ PopSample(st.fifos[f]) = st.fifos[f]
        BY <3>1, PopEffect
      <4> QED
        BY <3>1, <4>1, <4>2
    <3>3. CASE f \notin clocked
      <4>1. popped.fifos[f] = st.fifos[f] /\ Popped(clocked, f) = 0
        BY <1>2, <3>3 DEF Popped
      <4> QED
        BY <3>1, <4>1
    <3> QED
      BY <3>2, <3>3
  <2>3. Walk(st, popped, clocked) /\ Alike(st.channels, popped.channels)
    BY <1>2, <2>1, <2>2, WalkStill DEF Walk, Alike
  <2>4. Alike(popped.channels, a.channels)
    BY <1>2, <1>8
  <2>5. Walk(popped, b, {} \cup {})
    BY <1>8, <1>9, <2>1, <2>4, WalkOn
  <2>6. {} \cup {} = {} /\ clocked \cap {} = {} /\ clocked \cup {} = clocked
    OBVIOUS
  <2> QED
    BY <2>1, <2>3, <2>5, <2>6, WalkOn
<1>12. ASSUME NEW f \in FifoId
       PROVE  /\ st.select[f] # i => b.fifos[f] = st.fifos[f]
              /\ st.select[f] = i /\ Feeds(st.channels, f) => b.fifos[f].count >= HALF
  <2>1. f \notin asking => b.fifos[f] = popped.fifos[f]
    BY <1>6, <1>8, <1>9
  <2>2. CASE st.select[f] # i
    BY <1>2, <1>4, <1>5, <2>1, <2>2
  <2>3. CASE st.select[f] = i
    <3>1. CASE f \notin asking
      BY <1>4, <2>1, <2>3, <3>1
    <3>2. CASE f \in asking
      <4>1. Feeds(st.channels, f) <=> Feeds(a.channels, f)
        BY <1>8, AlikeFeed
      <4>2. CASE f = "A"
        BY <1>8, <1>9, <2>3, <3>2, <4>2
      <4>3. CASE f = "B"
        BY <1>9, <2>3, <3>2, <4>1, <4>3
      <4> QED
        BY <1>6, <4>2, <4>3
    <3> QED
      BY <3>1, <3>2
  <2> QED
    BY <2>2, <2>3
<1> QED
  BY <1>1, <1>10, <1>11, <1>12 DEF clocked

(* The same for the overflows of a batch: each FIFO is clocked by one      *)
(* timer.                                                                  *)
LEMMA AfterTickEffect ==
  ASSUME Exclusive, Halves, NEW st, Sane(st), NEW r
  PROVE  LET n == AfterTick(st, r)
         IN  /\ Sane(n) /\ n.select = st.select /\ Alike(st.channels, n.channels)
             /\ Walk(st, n, {f \in FifoId : st.select[f] \in Overflowed(r)})
             /\ \A f \in FifoId :
                  /\ st.select[f] \notin Overflowed(r) => n.fifos[f] = st.fifos[f]
                  /\ st.select[f] \in Overflowed(r) /\ Feeds(st.channels, f)
                       => n.fifos[f].count >= HALF
<1> DEFINE overflow(s, i) == IF i \in Overflowed(r) THEN OnTimerOverflow(s, i) ELSE s
           a == overflow(st, 0)
           b == overflow(a, 1)
           n == AfterTick(st, r)
<1>1. n = b
  BY DEF AfterTick
<1>2. ASSUME NEW s, Sane(s), NEW i
      PROVE  LET m == overflow(s, i)
             IN  /\ Sane(m) /\ m.select = s.select /\ Alike(s.channels, m.channels)
                 /\ Walk(s, m, {f \in FifoId : s.select[f] = i /\ i \in Overflowed(r)})
                 /\ \A f \in FifoId :
                      /\ s.select[f] # i \/ i \notin Overflowed(r) => m.fifos[f] = s.fifos[f]
                      /\ s.select[f] = i /\ i \in Overflowed(r) /\ Feeds(s.channels, f)
                           => m.fifos[f].count >= HALF
  <2>1. CASE i \in Overflowed(r)
    <3> DEFINE m == OnTimerOverflow(s, i)
    <3>1. /\ Sane(m) /\ m.select = s.select /\ Alike(s.channels, m.channels)
          /\ Walk(s, m, {f \in FifoId : s.select[f] = i})
          /\ \A f \in FifoId :
               /\ s.select[f] # i => m.fifos[f] = s.fifos[f]
               /\ s.select[f] = i /\ Feeds(s.channels, f) => m.fifos[f].count >= HALF
      BY <1>2, OverflowEffect
    <3>2. overflow(s, i) = m
      BY <2>1
    <3>3. {f \in FifoId : s.select[f] = i /\ i \in Overflowed(r)} = {f \in FifoId : s.select[f] = i}
      BY <2>1
    <3> HIDE DEF m, overflow
    <3> QED
      BY <2>1, <3>1, <3>2, <3>3
  <2>2. CASE i \notin Overflowed(r)
    <3>1. overflow(s, i) = s /\ Alike(s.channels, s.channels)
      BY <2>2 DEF Alike
    <3>2. s \in Work /\ \A f \in FifoId : s.fifos[f].count <= s.fifos[f].count + Popped({}, f)
      BY <1>2, FifoAssumption DEF Sane, Work, Fifo, Popped
    <3>3. Walk(s, s, {})
      BY <3>2, WalkStill DEF Walk
    <3>4. {f \in FifoId : s.select[f] = i /\ i \in Overflowed(r)} = {}
      BY <2>2
    <3> HIDE DEF overflow
    <3> QED
      BY <1>2, <2>2, <3>1, <3>3, <3>4
  <2> QED
    BY <2>1, <2>2
<1> HIDE DEF overflow
<1> DEFINE First == {f \in FifoId : st.select[f] = 0 /\ 0 \in Overflowed(r)}
           Second == {f \in FifoId : a.select[f] = 1 /\ 1 \in Overflowed(r)}
<1>3. /\ Sane(a) /\ a.select = st.select /\ Alike(st.channels, a.channels)
      /\ Walk(st, a, First)
      /\ \A f \in FifoId :
           /\ st.select[f] # 0 \/ 0 \notin Overflowed(r) => a.fifos[f] = st.fifos[f]
           /\ st.select[f] = 0 /\ 0 \in Overflowed(r) /\ Feeds(st.channels, f)
                => a.fifos[f].count >= HALF
  BY <1>2
<1> HIDE DEF a
<1>4. /\ Sane(b) /\ b.select = a.select /\ Alike(a.channels, b.channels)
      /\ Walk(a, b, Second)
      /\ \A f \in FifoId :
           /\ a.select[f] # 1 \/ 1 \notin Overflowed(r) => b.fifos[f] = a.fifos[f]
           /\ a.select[f] = 1 /\ 1 \in Overflowed(r) /\ Feeds(a.channels, f)
                => b.fifos[f].count >= HALF
  BY <1>2, <1>3
<1> HIDE DEF b
<1>5. Sane(b) /\ b.select = st.select /\ Alike(st.channels, b.channels)
  BY <1>3, <1>4 DEF Alike
<1>6. \A f \in FifoId : Feeds(st.channels, f) <=> Feeds(a.channels, f)
  BY <1>3, AlikeFeed
<1>7. \A f \in FifoId : st.select[f] \in {0, 1}
  <2>1. \A f \in FifoId : st.select[f] \in FifoTimers
    BY DEF Sane, Work
  <2>2. FifoTimers \subseteq {0, 1}
    BY TimerAssumption DEF FifoTimers, TimerId
  <2> QED
    BY <2>1, <2>2
<1>8. ASSUME NEW f \in FifoId
      PROVE  /\ st.select[f] \notin Overflowed(r) => b.fifos[f] = st.fifos[f]
             /\ st.select[f] \in Overflowed(r) /\ Feeds(st.channels, f)
                  => b.fifos[f].count >= HALF
  <2>1. CASE st.select[f] = 0
    BY <1>3, <1>4, <2>1
  <2>2. CASE st.select[f] = 1
    BY <1>3, <1>4, <1>6, <2>2
  <2> QED
    BY <1>7, <2>1, <2>2
<1>9. Walk(st, b, {f \in FifoId : st.select[f] \in Overflowed(r)})
  <2>1. st \in Work /\ a \in Work /\ b \in Work
    BY <1>3, <1>4 DEF Sane
  <2>2. /\ First \cap Second = {}
        /\ First \cup Second = {f \in FifoId : st.select[f] \in Overflowed(r)}
    BY <1>3, <1>7
  <2> HIDE DEF First, Second
  <2>3. Walk(st, b, First \cup Second)
    BY <1>3, <1>4, <2>1, <2>2, WalkOn
  <2> QED
    BY <2>2, <2>3
<1> QED
  BY <1>1, <1>5, <1>8, <1>9
-----------------------------------------------------------------------------
(* The invariant: the FIFOs are rings of samples in order, the channels    *)
(* aim where they were told to and go on where the samples end, nothing    *)
(* was lost, and a primed FIFO is half full and fed.                       *)
Half(chs, fs, set) == \A f \in set : f \in FifoId /\ fs[f].count >= HALF /\ Feeds(chs, f)
SoundInv == Sane(Now) /\ lost = {} /\ Half(channels, fifos, primed)

(* A step of the machine from a state in order leads to one. *)
LEMMA StepKeeps ==
  ASSUME Exclusive, Halves, NEW st, Sane(st), NEW before, Half(st.channels, st.fifos, before),
         NEW ts, NEW cycles, Step(ts, st, cycles, before)
  PROVE  SoundInv'
<1> DEFINE r == Tick(ts, cycles)
           n == AfterTick(st, r)
<1>1. /\ fifos' = n.fifos /\ select' = n.select /\ channels' = n.channels /\ lost' = n.lost
      /\ primed' = Primed(before, st, r)
  BY DEF Step
<1> HIDE DEF r
<1>2. /\ Sane(n) /\ n.select = st.select /\ Alike(st.channels, n.channels)
      /\ \A f \in FifoId :
           /\ st.select[f] \notin Overflowed(r) => n.fifos[f] = st.fifos[f]
           /\ st.select[f] \in Overflowed(r) /\ Feeds(st.channels, f) => n.fifos[f].count >= HALF
  BY AfterTickEffect
<1> HIDE DEF n
<1>3. n.lost = {} /\ n \in Work
  BY <1>2 DEF Sane
<1>4. Now' = n
  <2>1. Now' = [fifos |-> n.fifos, select |-> n.select, channels |-> n.channels, lost |-> {}]
    BY <1>1 DEF Now
  <2> QED
    BY <1>3, <2>1 DEF Work
<1>5. ASSUME NEW f \in primed' PROVE f \in FifoId /\ n.fifos[f].count >= HALF /\ Feeds(n.channels, f)
  <2>1. f \in FifoId /\ (f \in before \/ (st.select[f] \in Overflowed(r) /\ Feeds(st.channels, f)))
    BY <1>1, <1>5 DEF Primed
  <2>2. Feeds(st.channels, f)
    BY <2>1 DEF Half
  <2>3. Feeds(n.channels, f)
    BY <1>2, <2>1, <2>2, AlikeFeed
  <2>4. n.fifos[f].count >= HALF
    BY <1>2, <2>1, <2>2 DEF Half
  <2> QED
    BY <2>1, <2>3, <2>4
<1> QED
  BY <1>1, <1>2, <1>3, <1>4, <1>5 DEF SoundInv, Half, Feeds

(* The registers of a channel, and what it latches when it starts. *)
LEMMA ChannelWrites ==
  ASSUME NEW ch \in Channel, NEW c, Aimed(ch, c)
  PROVE  /\ \A v \in Sads : Aimed(ch, [c EXCEPT !.sad = v])
         /\ \A v \in Dads[ch] : Aimed(ch, [c EXCEPT !.dad = v])
         /\ \A v \in DmaControl : Aimed(ch, WithControl(ch, c, v))
         /\ Aimed(ch, [c EXCEPT !.internal_sad = c.sad % ADDR_MASK[ch]])
<1>1. /\ c \in DmaChannel /\ c.sad \in Addr /\ c.dad \in Addr /\ c.sad \in Sads \cup {0}
      /\ c.dad \in Dads[ch] \cup {0} /\ c.internal_dad \in Aims(ch) \cup {0}
  BY DEF Aimed, DmaChannel
<1>2. \A a \in Addr : a % ADDR_MASK[ch] \in Addr
  <2>1. /\ ADDR_SPACE \in Nat \ {0} /\ ADDR_MASK[ch] \in 1..ADDR_SPACE
    BY DmaAssumption
  <2>2. ASSUME NEW a \in Addr PROVE a % ADDR_MASK[ch] \in Addr
    <3> DEFINE m == ADDR_MASK[ch]
    <3>1. m \in Nat \ {0} /\ m <= ADDR_SPACE /\ a \in Int
      BY <2>1 DEF Addr
    <3> HIDE DEF m
    <3>2. a % m \in 0..(m - 1)
      BY <3>1
    <3> QED
      BY <2>1, <3>1, <3>2 DEF Addr, m
  <2> QED
    BY <2>2
<1>3. ASSUME NEW v \in Sads PROVE Aimed(ch, [c EXCEPT !.sad = v])
  <2> DEFINE d == [c EXCEPT !.sad = v]
  <2>0. v \in Addr
    BY SoundAssumption
  <2>1. d \in DmaChannel /\ d.dad = c.dad /\ d.internal_dad = c.internal_dad /\ d.sad = v
    BY <1>1, <2>0 DEF DmaChannel
  <2> HIDE DEF d
  <2> QED
    BY <1>1, <2>1 DEF Aimed, d
<1>4. ASSUME NEW v \in Dads[ch] PROVE Aimed(ch, [c EXCEPT !.dad = v])
  <2> DEFINE d == [c EXCEPT !.dad = v]
  <2>0. v \in Addr
    BY SoundAssumption
  <2>1. d \in DmaChannel /\ d.dad = v /\ d.internal_dad = c.internal_dad /\ d.sad = c.sad
    BY <1>1, <2>0 DEF DmaChannel
  <2> HIDE DEF d
  <2> QED
    BY <1>1, <2>1 DEF Aimed, d
<1>5. Aimed(ch, [c EXCEPT !.internal_sad = c.sad % ADDR_MASK[ch]])
  <2> DEFINE a == c.sad % ADDR_MASK[ch]
             d == [c EXCEPT !.internal_sad = a]
  <2>0. a \in Addr
    BY <1>1, <1>2
  <2> HIDE DEF a
  <2>1. d \in DmaChannel /\ d.dad = c.dad /\ d.internal_dad = c.internal_dad /\ d.sad = c.sad
    BY <1>1, <2>0 DEF DmaChannel
  <2> HIDE DEF d
  <2>2. Aimed(ch, d)
    BY <1>1, <2>1 DEF Aimed
  <2> QED
    BY <2>2 DEF d, a
<1>6. ASSUME NEW v \in DmaControl PROVE Aimed(ch, WithControl(ch, c, v))
  <2>1. v.enabled \in BOOLEAN /\ c.active \in BOOLEAN
    BY <1>1 DEF DmaControl, DmaChannel
  <2>2. CASE Starts(c, v)
    <3> DEFINE d == [c EXCEPT !.control = v]
               e == Latch(ch, d)
               f == WithControl(ch, c, v)
    <3>1. /\ d \in DmaChannel /\ d.dad = c.dad /\ d.sad = c.sad
      BY <1>1 DEF DmaChannel
    <3>2. f = [e EXCEPT !.active = TRUE]
      BY <2>2 DEF WithControl
    <3> HIDE DEF d
    <3>3. /\ d.sad % ADDR_MASK[ch] \in Addr /\ d.dad % ADDR_MASK[ch] \in Addr
          /\ LoadCount(ch, d) \in Nat
      <4>1. d.count \in 0..(COUNT_SPACE - 1) /\ COUNT_SPACE \in Nat \ {0} /\ MAX_COUNT[ch] \in Nat
        BY <3>1, DmaAssumption DEF DmaChannel
      <4>2. LoadCount(ch, d) \in Nat
        BY <4>1 DEF LoadCount
      <4> QED
        BY <1>1, <1>2, <3>1, <4>2
    <3>4. /\ e \in DmaChannel /\ e.dad = d.dad /\ e.internal_dad = d.dad % ADDR_MASK[ch]
          /\ e.sad = d.sad
      BY <3>1, <3>3 DEF Latch, DmaChannel
    <3> HIDE DEF e, f
    <3>5. /\ f \in DmaChannel /\ f.dad = c.dad /\ f.internal_dad = c.dad % ADDR_MASK[ch]
          /\ f.sad = c.sad
      BY <3>1, <3>2, <3>4 DEF DmaChannel
    <3>6. c.dad % ADDR_MASK[ch] \in Aims(ch) \cup {0}
      <4>1. CASE c.dad \in Dads[ch]
        BY <4>1 DEF Aims
      <4>2. CASE c.dad = 0
        <5> DEFINE m == ADDR_MASK[ch]
        <5>1. m \in Nat \ {0} /\ 0 \in 0..(m - 1)
          BY DmaAssumption
        <5> HIDE DEF m
        <5>2. 0 % m = 0
          BY <5>1, NoWrap
        <5> QED
          BY <4>2, <5>2 DEF m
      <4> QED
        BY <1>1, <4>1, <4>2
    <3> QED
      BY <1>1, <3>5, <3>6 DEF Aimed, f
  <2>3. CASE ~Starts(c, v)
    <3> DEFINE f == WithControl(ch, c, v)
    <3>1. f = [c EXCEPT !.control = v, !.active = @ /\ v.enabled]
      BY <2>3 DEF WithControl
    <3> HIDE DEF f
    <3>2. f \in DmaChannel /\ f.dad = c.dad /\ f.internal_dad = c.internal_dad /\ f.sad = c.sad
      BY <1>1, <2>1, <3>1 DEF DmaChannel
    <3> QED
      BY <1>1, <3>2 DEF Aimed, f
  <2> QED
    BY <2>2, <2>3
<1> QED
  BY <1>3, <1>4, <1>5, <1>6

(* A write leaves a channel where it reads, or takes it back to a start.   *)
Returned(c, d) ==
  \/ d.internal_dad = c.internal_dad /\ d.internal_sad = c.internal_sad
  \/ \E ch \in Channel, v \in Sads \cup {0} : d.internal_sad = v % ADDR_MASK[ch]
LEMMA WritesReturn ==
  ASSUME NEW ch \in Channel, NEW c, Aimed(ch, c)
  PROVE  /\ \A v : Returned(c, [c EXCEPT !.sad = v]) /\ Returned(c, [c EXCEPT !.dad = v])
         /\ \A v \in DmaControl : Returned(c, WithControl(ch, c, v))
         /\ Returned(c, [c EXCEPT !.internal_sad = c.sad % ADDR_MASK[ch]])
<1>1. c \in DmaChannel /\ c.sad \in Sads \cup {0}
  BY DEF Aimed
<1>2. ASSUME NEW d, d.internal_sad = c.sad % ADDR_MASK[ch] PROVE Returned(c, d)
  BY <1>1, <1>2 DEF Returned
<1>3. ASSUME NEW v \in DmaControl PROVE Returned(c, WithControl(ch, c, v))
  <2>1. CASE Starts(c, v)
    <3>1. WithControl(ch, c, v).internal_sad = c.sad % ADDR_MASK[ch]
      BY <1>1, <2>1 DEF WithControl, Latch, DmaChannel
    <3> QED
      BY <1>2, <3>1
  <2>2. CASE ~Starts(c, v)
    BY <1>1, <2>2 DEF WithControl, Returned, DmaChannel
  <2> QED
    BY <2>1, <2>2
<1>4. \A v : Returned(c, [c EXCEPT !.sad = v]) /\ Returned(c, [c EXCEPT !.dad = v])
  BY <1>1 DEF Returned, DmaChannel
<1>5. Returned(c, [c EXCEPT !.internal_sad = c.sad % ADDR_MASK[ch]])
  <2>1. [c EXCEPT !.internal_sad = c.sad % ADDR_MASK[ch]].internal_sad = c.sad % ADDR_MASK[ch]
    BY <1>1 DEF DmaChannel
  <2> QED
    BY <1>2, <2>1
<1> QED
  BY <1>3, <1>4, <1>5

LEMMA ReturnedInStream ==
  ASSUME NEW fs, NEW chs, NEW then, InStream(fs, chs), \A ch \in Channel : Returned(chs[ch], then[ch])
  PROVE  InStream(fs, then)
<1>1. ASSUME NEW f \in FifoId, NEW ch \in Channel, then[ch].internal_dad = Port[f]
      PROVE  GoesOn(fs[f], then[ch].internal_sad)
  <2>1. CASE then[ch].internal_dad = chs[ch].internal_dad /\ then[ch].internal_sad = chs[ch].internal_sad
    BY <1>1, <2>1 DEF InStream
  <2>2. CASE \E k \in Channel, v \in Sads \cup {0} : then[ch].internal_sad = v % ADDR_MASK[k]
    BY <2>2 DEF GoesOn, Follows
  <2> QED
    BY <2>1, <2>2 DEF Returned
<1> QED
  BY <1>1 DEF InStream

LEMMA SoundStart == Init => SoundInv
<1> SUFFICES ASSUME Init PROVE SoundInv
  OBVIOUS
<1>1. /\ fifos = [f \in FifoId |-> NewFifo] /\ select = [f \in FifoId |-> 0]
      /\ channels = [ch \in Channel |-> NewChannel] /\ lost = {} /\ primed = {}
  BY DEF Init
<1>2. NewChannel \in DmaChannel /\ NewChannel.dad = 0 /\ NewChannel.internal_dad = 0
  <2>1. 0 \in Addr /\ 0 \in 0..(COUNT_SPACE - 1)
    BY DmaAssumption DEF Addr
  <2> QED
    BY <2>1 DEF NewChannel, DmaChannel, DmaControl, Timing, AddrControl
<1>3. Ring(NewFifo) /\ NewFifo \in Fifo
  BY EmptyRing DEF Ring
<1>4. 0 \in FifoTimers
  BY TimerAssumption DEF FifoTimers, TimerId
<1>5. /\ Now.fifos = fifos /\ Now.select = select /\ Now.channels = channels /\ Now.lost = {}
      /\ Now \in Work
  BY <1>1, <1>2, <1>3, <1>4 DEF Now, Work
<1>6. \A ch \in Channel : Aimed(ch, channels[ch])
  <2>1. NewChannel.sad = 0
    BY DEF NewChannel
  <2> QED
    BY <1>1, <1>2, <2>1 DEF Aimed
<1>7. Sane(Now)
  <2>1. \A f \in FifoId : fifos[f].count = 0
    BY <1>1, EmptyRing
  <2>2. InStream(fifos, channels)
    BY <2>1 DEF InStream, InOrder, GoesOn
  <2> QED
    BY <1>1, <1>3, <1>5, <1>6, <2>2 DEF Sane
<1> QED
  BY <1>1, <1>7 DEF SoundInv, Half

(* The state a step works on when a channel has been reprogrammed.         *)
LEMMA WrittenSane ==
  ASSUME SoundInv, NEW ch \in Channel, NEW c, Aimed(ch, c), Returned(channels[ch], c)
  PROVE  LET st == [Now EXCEPT !.channels[ch] = c]
         IN  /\ Sane(st) /\ st.channels = [channels EXCEPT ![ch] = c] /\ st.fifos = fifos
             /\ st.select = select
             /\ \A k \in Channel : st.channels[k] = IF k = ch THEN c ELSE channels[k]
<1> DEFINE st == [Now EXCEPT !.channels[ch] = c]
<1>1. Sane(Now) /\ c \in DmaChannel
  BY DEF SoundInv, Aimed
<1>2. /\ Now \in Work /\ Now.channels = channels /\ Now.fifos = fifos /\ Now.lost = {}
      /\ Now.select = select
  BY <1>1 DEF Sane, Now
<1>3. /\ st \in Work /\ st.channels = [channels EXCEPT ![ch] = c] /\ st.fifos = fifos
      /\ st.lost = {} /\ st.select = select
  BY <1>1, <1>2 DEF Work
<1>4. \A k \in Channel : st.channels[k] = IF k = ch THEN c ELSE channels[k]
  BY <1>2, <1>3 DEF Work
<1> HIDE DEF st
<1>5. \A k \in Channel : Returned(channels[k], st.channels[k])
  BY <1>4 DEF Returned
<1>6. InStream(fifos, st.channels)
  BY <1>1, <1>2, <1>5, ReturnedInStream DEF Sane
<1>7. Sane(st)
  BY <1>1, <1>2, <1>3, <1>4, <1>6 DEF Sane
<1> QED
  BY <1>3, <1>4, <1>7 DEF st

(* A channel that is reprogrammed: only FIFOs still fed stay primed. *)
LEMMA WriteKeeps ==
  ASSUME Exclusive, Halves, SoundInv, NEW ch \in Channel, NEW c, Aimed(ch, c),
         Returned(channels[ch], c), NEW a, WriteChannel(ch, c, a)
  PROVE  SoundInv'
<1> DEFINE st == [Now EXCEPT !.channels[ch] = c]
           before == {f \in primed : Feeds([channels EXCEPT ![ch] = c], f)}
<1>1. PICK n \in 1..MaxCost : Step(timers, st, n, before)
  BY DEF WriteChannel
<1>2. Sane(st) /\ st.channels = [channels EXCEPT ![ch] = c] /\ st.fifos = fifos
  BY WrittenSane
<1> HIDE DEF st
<1>3. Half(st.channels, st.fifos, before)
  BY <1>2 DEF SoundInv, Half
<1> HIDE DEF before
<1> QED
  BY <1>1, <1>2, <1>3, StepKeeps

LEMMA SoundStep == Exclusive /\ Halves /\ SoundInv /\ [Next]_vars => SoundInv'
<1> SUFFICES ASSUME Exclusive, Halves, SoundInv, [Next]_vars PROVE SoundInv'
  OBVIOUS
<1>0. /\ Sane(Now) /\ lost = {} /\ Half(channels, fifos, primed)
      /\ Now \in Work /\ Now.channels = channels /\ Now.fifos = fifos /\ Now.lost = {}
      /\ Now.select = select
      /\ \A ch \in Channel : Aimed(ch, channels[ch])
  BY DEF SoundInv, Sane, Now
<1>1. ASSUME NEW ts, NEW c, Step(ts, Now, c, primed) PROVE SoundInv'
  BY <1>0, <1>1, StepKeeps
<1>2. CASE Compute \/ Halt \/ HaltChunk
  BY <1>1, <1>2 DEF Compute, Halt, HaltChunk
<1>3. ASSUME NEW i \in TimerId, NEW v \in TimerControls, WriteTimer(i, v) PROVE SoundInv'
  BY <1>1, <1>3 DEF WriteTimer
<1>4. ASSUME NEW ch \in Channel, NEW v \in Sads, WriteSad(ch, v) PROVE SoundInv'
  <2>2. Aimed(ch, [channels[ch] EXCEPT !.sad = v]) /\ Returned(channels[ch], [channels[ch] EXCEPT !.sad = v])
    BY <1>0, ChannelWrites, WritesReturn
  <2> QED
    BY <1>4, <2>2, WriteKeeps DEF WriteSad
<1>5. ASSUME NEW ch \in Channel, NEW v \in Dads[ch], WriteDad(ch, v) PROVE SoundInv'
  <2>1. Aimed(ch, [channels[ch] EXCEPT !.dad = v]) /\ Returned(channels[ch], [channels[ch] EXCEPT !.dad = v])
    BY <1>0, ChannelWrites, WritesReturn
  <2> QED
    BY <1>5, <2>1, WriteKeeps DEF WriteDad
<1>6. ASSUME NEW ch \in Channel, NEW v \in DmaControls, WriteControl(ch, v) PROVE SoundInv'
  <2>1. v \in DmaControl
    BY SoundAssumption
  <2>2. /\ Aimed(ch, WithControl(ch, channels[ch], v))
        /\ Returned(channels[ch], WithControl(ch, channels[ch], v))
    BY <1>0, <2>1, ChannelWrites, WritesReturn
  <2>3. WriteChannel(ch, WithControl(ch, channels[ch], v),
                     IF Starts(channels[ch], v) THEN [age EXCEPT ![ch] = 0] ELSE age)
    BY <1>6 DEF WriteControl
  <2> QED
    BY <2>2, <2>3, WriteKeeps
<1>7. ASSUME NEW sel \in Selects, NEW resets \in SUBSET FifoId, WriteSoundCnt(sel, resets)
      PROVE  SoundInv'
  <2> DEFINE fs == [f \in FifoId |-> IF f \in resets THEN ResetFifo(fifos[f]) ELSE fifos[f]]
             st == [Now EXCEPT !.select = sel, !.fifos = fs]
  <2>1. PICK c \in 1..MaxCost :
          Step(timers,
               [Now EXCEPT !.select = sel,
                           !.fifos = [f \in FifoId |-> IF f \in resets THEN ResetFifo(@[f]) ELSE @[f]]],
               c, primed \ resets)
    BY <1>7 DEF WriteSoundCnt
  <2>2. Step(timers, st, c, primed \ resets)
    BY <1>0, <2>1
  <2>3. \A f \in FifoId : Ring(fs[f]) /\ fs[f] \in Fifo
    <3>1. \A f \in FifoId : Ring(fifos[f])
      BY <1>0 DEF Sane
    <3>2. \A f \in FifoId : Ring(ResetFifo(fifos[f]))
      BY <3>1, EmptyRing
    <3> QED
      BY <3>1, <3>2 DEF Ring
  <2>4. fs \in [FifoId -> Fifo] /\ sel \in [FifoId -> FifoTimers]
    BY <2>3, SoundAssumption
  <2>5. /\ \A f \in FifoId \ resets : fs[f] = fifos[f]
        /\ \A f \in resets : fs[f] = ResetFifo(fifos[f])
    OBVIOUS
  <2> HIDE DEF fs
  <2>6. /\ st \in Work /\ st.fifos = fs /\ st.channels = channels /\ st.lost = {}
    BY <1>0, <2>4 DEF Work
  <2> HIDE DEF st
  <2>7. Sane(st)
    <3>1. \A f \in resets : fs[f].count = 0
      BY <1>0, <2>5, EmptyRing DEF Sane
    <3>2. InStream(fs, channels)
      BY <1>0, <2>5, <3>1 DEF Sane, InStream, InOrder, GoesOn
    <3> QED
      BY <1>0, <2>3, <2>6, <3>2 DEF Sane
  <2>8. Half(st.channels, st.fifos, primed \ resets)
    BY <1>0, <2>5, <2>6 DEF Half
  <2> QED
    BY <2>2, <2>7, <2>8, StepKeeps
<1>8. CASE VBlank
  <2>1. /\ fifos' = fifos /\ select' = select /\ lost' = {} /\ primed' = primed
        /\ channels' = [ch \in Channel |->
             IF Reanchored(ch)
             THEN [channels[ch] EXCEPT !.internal_sad = channels[ch].sad % ADDR_MASK[ch]]
             ELSE channels[ch]]
    BY <1>8 DEF VBlank
  <2>2. \A ch \in Channel : Aimed(ch, channels'[ch])
    BY <1>0, <2>1, ChannelWrites
  <2>3. Alike(channels, channels')
    <3>1. \A ch \in Channel : channels[ch] \in DmaChannel
      BY <1>0 DEF Aimed
    <3> QED
      BY <2>1, <3>1 DEF Alike, DmaChannel
  <2>4. channels' \in [Channel -> DmaChannel]
    BY <2>1, <2>2 DEF Aimed
  <2>5. Now' = [fifos |-> fifos, select |-> select, channels |-> channels', lost |-> {}]
    BY <2>1 DEF Now
  <2> DEFINE st == Now'
  <2>6. /\ st \in Work /\ st.fifos = fifos /\ st.channels = channels' /\ st.lost = {}
    BY <1>0, <2>4, <2>5 DEF Work, Now
  <2>7. Sane(Now)'
    <3> HIDE DEF st
    <3>1. \A ch \in Channel : Returned(channels[ch], channels'[ch])
      <4> TAKE ch \in Channel
      <4>1. Returned(channels[ch], [channels[ch] EXCEPT !.internal_sad = channels[ch].sad % ADDR_MASK[ch]])
        BY <1>0, WritesReturn
      <4> QED
        BY <2>1, <4>1 DEF Returned
    <3>2. InStream(fifos, channels')
      BY <1>0, <3>1, ReturnedInStream DEF Sane
    <3>3. Sane(st)
      BY <1>0, <2>2, <2>6, <3>2 DEF Sane
    <3> QED
      BY <3>3 DEF st, Sane, Aimed, Work, Ring, Fifo, DmaChannel
  <2>8. Half(channels, fifos, primed)'
    <3>1. \A f \in FifoId : Feeds(channels, f) <=> Feeds(channels', f)
      BY <2>3, AlikeFeed
    <3>2. Half(channels', fifos, primed)
      BY <1>0, <3>1 DEF Half
    <3> QED
      BY <2>1, <3>2 DEF Half, Feeds
  <2> QED
    BY <2>1, <2>7, <2>8 DEF SoundInv
<1>9. CASE UNCHANGED vars
  BY <1>9 DEF vars, SoundInv, Sane, Now, Half, Feeds, Work, Aimed, Ring, Aims
<1> QED
  BY <1>2, <1>3, <1>4, <1>5, <1>6, <1>7, <1>8, <1>9 DEF Next

(* DMA never overfills a FIFO (run_dma_for_fifo), as long as each channel  *)
(* is programmed for a port of its own and a transfer is half a FIFO.      *)
THEOREM NoSampleLost ==
  ASSUME Exclusive, Halves
  PROVE  Spec => []NothingLost
<1>1. Init => SoundInv
  BY SoundStart
<1>2. SoundInv /\ [Next]_vars => SoundInv'
  BY SoundStep
<1>3. SoundInv => NothingLost
  BY DEF SoundInv, NothingLost
<1> QED
  BY <1>1, <1>2, <1>3, PTL DEF Spec

(* Under the same conditions no request comes too late: a FIFO whose       *)
(* channel once answered one stays at least half full (on_timer_overflow). *)
THEOREM PrimedStaysFilled ==
  ASSUME Exclusive, Halves
  PROVE  Spec => []StaysFilled
<1>1. Init => SoundInv
  BY SoundStart
<1>2. SoundInv /\ [Next]_vars => SoundInv'
  BY SoundStep
<1>3. SoundInv => StaysFilled
  BY DEF SoundInv, StaysFilled, Half
<1> QED
  BY <1>1, <1>2, <1>3, PTL DEF Spec

(* Under the same conditions the samples that wait in a FIFO follow each   *)
(* other in memory, but where a channel was started again or moved back:   *)
(* none is read twice or left out (Bus::run_dma).                          *)
THEOREM SamplesInOrder ==
  ASSUME Exclusive, Halves
  PROVE  Spec => []StreamInOrder
<1>1. SoundInv => StreamInOrder
  BY DEF SoundInv, Sane, Now, InStream, InOrder, Follows, StreamInOrder
<1> QED
  BY <1>1, SoundStart, SoundStep, PTL DEF Spec
-----------------------------------------------------------------------------
(* How often a FIFO can be popped: the timer that clocks it.               *)

(* A bounded set of numbers has a greatest one. *)
LEMMA GreatestThere ==
  ASSUME NEW N \in Nat, NEW D \in SUBSET (0..N), D # {}
  PROVE  \E p \in D : \A q \in D : q <= p
<1> SUFFICES ASSUME \A p \in D : \E q \in D : ~(q <= p) PROVE FALSE
  OBVIOUS
<1> DEFINE S == {k \in Nat : \E q \in D : k <= q}
<1>1. 0 \in S
  <2>1. PICK p \in D : p \in 0..N
    OBVIOUS
  <2> QED
    BY <2>1
<1>2. ASSUME NEW k \in 0..N, k \in S PROVE k + 1 \in S
  <2>1. PICK p \in D : k <= p
    BY <1>2
  <2>2. PICK q \in D : ~(q <= p)
    OBVIOUS
  <2> QED
    BY <2>1, <2>2
<1> HIDE DEF S
<1>3. N + 1 \in S
  <2>1. N + 1 \in Nat /\ (N + 1) - 1 = N
    OBVIOUS
  <2> QED
    BY <1>1, <1>2, <2>1, InductionTo
<1> QED
  BY <1>3 DEF S

(* The slowest prescaler is one there is. *)
LEMMA SlowestThere ==
  ASSUME NEW d \in Dividers
  PROVE  Slowest \in Nat \ {0} /\ \A q \in Dividers : q \in Nat \ {0} /\ q <= Slowest
<1>1. /\ WRAP \in Nat \ {0} /\ U32 \in Nat /\ Dividers \subseteq Nat \ {0}
      /\ \A p \in Dividers : WRAP * p < U32
  BY TimerAssumption
<1>2. \A p \in Dividers : p \in 0..U32
  <2> SUFFICES ASSUME NEW p \in Dividers PROVE p \in 0..U32
    OBVIOUS
  <2>1. p \in Nat /\ WRAP * p < U32 /\ 1 \in Nat /\ 1 <= WRAP /\ WRAP \in Nat
    BY <1>1
  <2>2. 1 * p <= WRAP * p /\ WRAP * p \in Nat
    BY <2>1, ProductMonotonic
  <2> QED
    BY <1>1, <2>1, <2>2
<1>3. \E p \in Dividers : \A q \in Dividers : q <= p
  BY <1>1, <1>2, GreatestThere
<1> QED
  BY <1>1, <1>3 DEF Slowest

(* A tick is counted, or part of an overflow. *)
LEMMA IncrementExact ==
  ASSUME NEW t \in Timer, t.reload = 0, NEW ticks \in Nat
  PROVE  LET inc == Increment(t, ticks)
         IN  /\ inc.counter \in TimerWord /\ inc.overflows \in Nat
             /\ WRAP * inc.overflows + inc.counter = t.counter + ticks
<1> DEFINE past == t.counter + ticks - WRAP
<1>1. t.counter \in 0..(WRAP - 1) /\ WRAP \in Nat \ {0} /\ WRAP - t.reload = WRAP
  BY TimerAssumption DEF Timer, TimerWord
<1>2. CASE t.counter + ticks < WRAP
  BY <1>1, <1>2 DEF Increment, TimerWord
<1>3. CASE ~(t.counter + ticks < WRAP)
  <2>1. past \in Nat /\ t.counter + ticks = WRAP + past
    BY <1>1, <1>3
  <2> DEFINE q == past \div WRAP
             m == past % WRAP
  <2>2. Increment(t, ticks) = [counter |-> t.reload + m, overflows |-> 1 + q]
    BY <1>1, <1>3 DEF Increment
  <2> HIDE DEF past
  <2>3. q \in Nat /\ m \in 0..(WRAP - 1) /\ past = WRAP * q + m
    BY <1>1, <2>1, Division
  <2> HIDE DEF q, m
  <2>4. WRAP * (1 + q) = WRAP + WRAP * q /\ WRAP * q \in Nat
    BY <1>1, <2>3
  <2> QED
    BY <1>1, <2>1, <2>2, <2>3, <2>4 DEF TimerWord
<1> QED
  BY <1>2, <1>3

(* The ticks and the cycles that a timer has counted since it overflowed.  *)
Phase(t) == t.counter + t.prescaler_counter

(* A timer that reloads with 0, and whose prescaler has accumulated no     *)
(* more than the slowest one can.                                          *)
Whole(t) == t \in Timer /\ t.reload = 0 /\ t.prescaler_counter < Slowest

(* An overflow takes WRAP cycles, whatever the prescaler. *)
LEMMA AlonePhase ==
  ASSUME NEW t, Whole(t), NEW n \in Nat
  PROVE  LET a == Advance(t, FALSE, n, 0)
         IN  /\ Whole(a.timer) /\ a.overflows \in Nat
             /\ WRAP * a.overflows + Phase(a.timer) <= Phase(t) + n
<1> DEFINE p == t.control.prescaler
           total == t.prescaler_counter + n
           q == total \div p
           m == total % p
           inc == Increment(t, q)
           a == Advance(t, FALSE, n, 0)
<1>1. /\ t \in Timer /\ t.reload = 0 /\ p \in Dividers /\ total \in Nat
      /\ t.prescaler_counter \in Nat /\ t.counter \in Nat
  BY TimerAssumption DEF Whole, Timer, Control, TimerWord
<1>2. p \in Nat \ {0} /\ p <= Slowest /\ Slowest \in Nat
  BY <1>1, SlowestThere
<1>3. a = [timer |-> [t EXCEPT !.counter = inc.counter, !.prescaler_counter = m],
           overflows |-> inc.overflows]
  BY DEF Advance
<1> HIDE DEF p, total, a
<1>4. q \in Nat /\ m \in 0..(p - 1) /\ total = p * q + m
  BY <1>1, <1>2, Division
<1> HIDE DEF q, m
<1>5. /\ inc.counter \in TimerWord /\ inc.overflows \in Nat
      /\ WRAP * inc.overflows + inc.counter = t.counter + q
  BY <1>1, <1>4, IncrementExact
<1> HIDE DEF inc
<1>6. /\ a.timer \in Timer /\ a.timer.reload = 0 /\ a.timer.counter = inc.counter
      /\ a.timer.prescaler_counter = m /\ a.overflows = inc.overflows
  <2>1. m \in Nat
    BY <1>2, <1>4
  <2>2. /\ a.timer = [t EXCEPT !.counter = inc.counter, !.prescaler_counter = m]
        /\ a.overflows = inc.overflows
    BY <1>3
  <2> QED
    BY <1>1, <1>5, <2>1, <2>2 DEF Timer
<1>7. q <= p * q /\ p * q \in Nat
  <2>1. 1 \in Nat /\ 1 <= p /\ p \in Nat
    BY <1>2
  <2>2. 1 * q <= p * q /\ p * q \in Nat
    BY <1>2, <1>4, <2>1, ProductMonotonic
  <2> QED
    BY <1>4, <2>2
<1>8. Whole(a.timer)
  BY <1>2, <1>4, <1>6 DEF Whole
<1>9. WRAP * a.overflows + Phase(a.timer) <= Phase(t) + n
  <2> DEFINE x == WRAP * inc.overflows
  <2>1. inc.counter \in Int /\ WRAP \in Nat
    BY <1>5, TimerAssumption DEF TimerWord
  <2>2. x \in Int
    BY <1>5, <2>1
  <2>3. x + inc.counter = t.counter + q /\ WRAP * a.overflows = x
    BY <1>5, <1>6
  <2> HIDE DEF x
  <2>4. t.prescaler_counter + n = p * q + m
    BY <1>4 DEF total
  <2> DEFINE y == p * q
  <2>5. y \in Nat /\ q <= y /\ t.prescaler_counter + n = y + m
    BY <1>7, <2>4
  <2> HIDE DEF y
  <2>6. x + (inc.counter + m) <= (t.counter + t.prescaler_counter) + n
    BY <1>1, <1>4, <2>1, <2>2, <2>3, <2>5
  <2> QED
    BY <1>6, <2>3, <2>6 DEF Phase
<1> QED
  BY <1>5, <1>6, <1>8, <1>9 DEF a

(* The equation that carries overflows from timer to timer has a solution; *)
(* whatever the other timers do, the first one runs alone.                 *)
LEMMA Chained ==
  ASSUME NEW ts, NEW n, NEW carry
  PROVE  LET a == AdvanceAll(ts, n, carry)
         IN  /\ 0 \in TimerId
             /\ a[0] = IF ts[0].control.enabled THEN Advance(ts[0], FALSE, n, 0) ELSE Still(ts[0])
             /\ 1 \in TimerId =>
                  a[1] = IF ts[1].control.enabled
                         THEN Advance(ts[1], 1 > 0 /\ ts[1].control.cascade, n, carry[a[0].overflows])
                         ELSE Still(ts[1])
<1> DEFINE One(i, before) ==
             IF ~ts[i].control.enabled THEN Still(ts[i])
             ELSE Advance(ts[i], i > 0 /\ ts[i].control.cascade, n,
                          IF i = 0 THEN 0 ELSE carry[before.overflows])
           S == {k \in 0..NTimers : \E f : f = [i \in 0..(k - 1) |-> One(i, f[i - 1])]}
<1>1. NTimers \in Nat \ {0} /\ TimerId = 0..(NTimers - 1)
  BY TimerAssumption DEF TimerId
<1>2. AdvanceAll(ts, n, carry) = CHOOSE f : f = [i \in TimerId |-> One(i, f[i - 1])]
  BY DEF AdvanceAll
<1>3. \A x, y : One(0, x) = One(0, y)
  OBVIOUS
<1>4. \A x : One(0, x) = IF ts[0].control.enabled THEN Advance(ts[0], FALSE, n, 0) ELSE Still(ts[0])
  <2>1. (0 > 0 /\ ts[0].control.cascade) = FALSE
    OBVIOUS
  <2> QED
    BY <2>1
<1>5. \A x : One(1, x) = IF ts[1].control.enabled
                          THEN Advance(ts[1], 1 > 0 /\ ts[1].control.cascade, n, carry[x.overflows])
                          ELSE Still(ts[1])
  <2>1. ~(1 = 0)
    OBVIOUS
  <2> QED
    BY <2>1
<1> HIDE DEF One
<1>6. 0 \in S
  <2> DEFINE f == [i \in 0..(0 - 1) |-> 0]
  <2>1. f = [i \in 0..(0 - 1) |-> One(i, f[i - 1])]
    OBVIOUS
  <2>2. \E g : g = [i \in 0..(0 - 1) |-> One(i, g[i - 1])]
    BY <2>1
  <2>3. 0 \in 0..NTimers
    BY <1>1
  <2> QED
    BY <2>2, <2>3
<1>7. ASSUME NEW k \in 0..(NTimers - 1), k \in S PROVE k + 1 \in S
  <2>1. PICK f : f = [i \in 0..(k - 1) |-> One(i, f[i - 1])]
    BY <1>7
  <2> DEFINE g == [i \in 0..k |-> IF i < k THEN f[i] ELSE One(k, f[k - 1])]
  <2>2. ASSUME NEW i \in 0..k PROVE g[i] = One(i, g[i - 1])
    <3>1. CASE i < k
      <4>1. g[i] = One(i, f[i - 1])
        <5>1. i \in 0..(k - 1)
          BY <3>1
        <5> QED
          BY <2>1, <3>1, <5>1
      <4>2. CASE i = 0
        BY <1>3, <4>1, <4>2
      <4>3. CASE i # 0
        <5>1. i - 1 \in 0..k /\ i - 1 < k
          BY <3>1, <4>3
        <5> QED
          BY <4>1, <5>1
      <4> QED
        BY <4>2, <4>3
    <3>2. CASE i = k
      <4>1. g[i] = One(i, f[i - 1])
        BY <3>2
      <4>2. CASE i = 0
        BY <1>3, <4>1, <4>2
      <4>3. CASE i # 0
        <5>1. i - 1 \in 0..k /\ i - 1 < k
          BY <3>2, <4>3
        <5> QED
          BY <4>1, <5>1
      <4> QED
        BY <4>2, <4>3
    <3> QED
      BY <3>1, <3>2
  <2>3. g = [i \in 0..k |-> One(i, g[i - 1])]
    <3>1. g = [i \in 0..k |-> g[i]]
      OBVIOUS
    <3> HIDE DEF g
    <3> QED
      BY <2>2, <3>1
  <2> HIDE DEF g
  <2>4. (k + 1) - 1 = k /\ k + 1 \in 0..NTimers
    BY <1>1
  <2> QED
    BY <2>3, <2>4
<1> HIDE DEF S
<1>8. NTimers \in S
  BY <1>1, <1>6, <1>7, InductionTo
<1>9. \E f : f = [i \in TimerId |-> One(i, f[i - 1])]
  BY <1>1, <1>8 DEF S
<1> DEFINE a == AdvanceAll(ts, n, carry)
<1>10. a = [i \in TimerId |-> One(i, a[i - 1])]
  BY <1>2, <1>9
<1> HIDE DEF a
<1>11. 0 \in TimerId
  BY <1>1
<1>12. a[0] = One(0, a[0 - 1])
  BY <1>10, <1>11
<1>13. 1 \in TimerId => a[1] = One(1, a[0])
  <2>1. 1 - 1 = 0
    OBVIOUS
  <2> QED
    BY <1>10, <2>1
<1> QED
  BY <1>4, <1>11, <1>12, <1>5, <1>13 DEF a

(* A batch leaves a timer, cascading or not. *)
LEMMA AdvanceType ==
  ASSUME NEW t \in Timer, t.reload = 0, NEW cascades, NEW n \in Nat, NEW carry \in Nat
  PROVE  LET a == Advance(t, cascades, n, carry) IN a.timer \in Timer /\ a.timer.reload = 0
<1> DEFINE p == t.control.prescaler
           total == t.prescaler_counter + n
           ticks == IF cascades THEN carry ELSE total \div p
           rest == IF cascades THEN t.prescaler_counter ELSE total % p
           inc == Increment(t, ticks)
           a == Advance(t, cascades, n, carry)
<1>1. p \in Nat \ {0} /\ total \in Nat /\ t.prescaler_counter \in Nat
  <2>1. t.control.prescaler \in Dividers /\ t.prescaler_counter \in Nat
    BY DEF Timer, Control
  <2>2. \A d \in Dividers : d \in Nat \ {0}
    BY TimerAssumption
  <2> QED
    BY <2>1, <2>2
<1>2. a.timer = [t EXCEPT !.counter = inc.counter, !.prescaler_counter = rest]
  BY DEF Advance
<1> HIDE DEF p, total, a
<1>3. total \div p \in Nat /\ total % p \in 0..(p - 1)
  BY <1>1, Division
<1>4. ticks \in Nat /\ rest \in Nat
  BY <1>1, <1>3
<1> HIDE DEF ticks, rest
<1>5. inc.counter \in TimerWord
  BY <1>4, IncrementExact
<1> HIDE DEF inc
<1>6. a.timer \in Timer /\ a.timer.reload = 0
  BY <1>2, <1>4, <1>5 DEF Timer
<1> QED
  BY <1>6 DEF a

(* A batch of the timers. *)
Timed(ts) ==
  /\ DOMAIN ts = TimerId /\ Whole(ts[0])
  /\ \A i \in FifoTimers : ts[i] \in Timer /\ ts[i].reload = 0
LEMMA BatchPhase ==
  ASSUME NEW ts, Timed(ts), NEW n \in Nat
  PROVE  LET r == Tick(ts, n)
         IN  /\ Timed(TimersAfter(r)) /\ r[0].overflows \in Nat
             /\ 0 \in Overflowed(r) <=> r[0].overflows > 0
             /\ WRAP * r[0].overflows + Phase(TimersAfter(r)[0]) <= Phase(ts[0]) + n
<1> DEFINE r == Tick(ts, n)
           u == r[0]
<1>1. 0 \in TimerId /\ u = IF ts[0].control.enabled THEN Advance(ts[0], FALSE, n, 0) ELSE Still(ts[0])
  BY Chained DEF Tick
<1>2. TimersAfter(r)[0] = u.timer /\ DOMAIN TimersAfter(r) = TimerId
      /\ (0 \in Overflowed(r) <=> u.overflows > 0)
  BY <1>1 DEF TimersAfter, Overflowed
<1>3. 1 \in TimerId => TimersAfter(r)[1] = r[1].timer
  BY DEF TimersAfter
<1>4. 1 \in TimerId =>
        r[1] = IF ts[1].control.enabled
               THEN Advance(ts[1], 1 > 0 /\ ts[1].control.cascade, n, CarryFlag[u.overflows])
               ELSE Still(ts[1])
  BY Chained DEF Tick
<1> HIDE DEF r, u
<1>5. /\ Whole(u.timer) /\ u.overflows \in Nat
      /\ WRAP * u.overflows + Phase(u.timer) <= Phase(ts[0]) + n
  <2>1. CASE ts[0].control.enabled
    BY <1>1, <2>1, AlonePhase DEF Timed
  <2>2. CASE ~ts[0].control.enabled
    <3>1. u.timer = ts[0] /\ u.overflows = 0
      BY <1>1, <2>2 DEF Still
    <3>2. Phase(ts[0]) \in Nat
      BY TimerAssumption DEF Timed, Whole, Timer, TimerWord, Phase
    <3>3. WRAP * 0 = 0
      BY TimerAssumption
    <3> QED
      BY <3>1, <3>2, <3>3 DEF Timed
  <2> QED
    BY <2>1, <2>2
<1>6. ASSUME 1 \in TimerId PROVE r[1].timer \in Timer /\ r[1].timer.reload = 0
  <2>1. ts[1] \in Timer /\ ts[1].reload = 0
    BY <1>6 DEF Timed, FifoTimers
  <2>2. CASE ts[1].control.enabled
    <3>1. CarryFlag[u.overflows] \in Nat
      BY <1>5 DEF CarryFlag
    <3> QED
      BY <1>4, <1>6, <2>1, <2>2, <3>1, AdvanceType
  <2>3. CASE ~ts[1].control.enabled
    BY <1>4, <1>6, <2>1, <2>3 DEF Still
  <2> QED
    BY <2>2, <2>3
<1>7. \A i \in FifoTimers : i \in TimerId /\ (i = 0 \/ i = 1)
  BY TimerAssumption DEF FifoTimers, TimerId
<1>8. \A i \in FifoTimers : TimersAfter(r)[i] \in Timer /\ TimersAfter(r)[i].reload = 0
  BY <1>2, <1>5, <1>3, <1>6, <1>7 DEF Whole
<1> QED
  BY <1>2, <1>5, <1>8 DEF Timed, r, u

(* A write to a control register starts a timer at its reload value, or    *)
(* leaves it where it is.                                                  *)
LEMMA WritePhase ==
  ASSUME NEW ts, Timed(ts), NEW i \in TimerId, NEW v \in Control
  PROVE  LET us == [ts EXCEPT ![i] = WithTimerControl(@, v)]
         IN  Timed(us) /\ Phase(us[0]) <= Phase(ts[0])
<1> DEFINE us == [ts EXCEPT ![i] = WithTimerControl(@, v)]
<1>1. 0 \in TimerId
  BY TimerAssumption DEF TimerId
<1>2. /\ DOMAIN us = TimerId
      /\ \A k \in TimerId : us[k] = IF i = k THEN WithTimerControl(ts[k], v) ELSE ts[k]
  BY DEF Timed
<1>3. 0 \in TimerWord /\ Slowest \in Nat \ {0}
  <2>1. v.prescaler \in Dividers
    BY DEF Control
  <2>2. Slowest \in Nat \ {0}
    BY <2>1, SlowestThere
  <2>3. 0 \in TimerWord
    BY TimerAssumption DEF TimerWord
  <2> QED
    BY <2>2, <2>3
<1> HIDE DEF us
<1>4. ASSUME NEW t \in Timer, t.reload = 0
      PROVE  LET u == WithTimerControl(t, v)
             IN  /\ u \in Timer /\ u.reload = 0
                 /\ t.prescaler_counter < Slowest => u.prescaler_counter < Slowest
                 /\ Phase(u) <= Phase(t)
  <2> DEFINE u == WithTimerControl(t, v)
  <2>1. t.prescaler_counter \in Nat /\ t.counter \in Nat
    BY TimerAssumption DEF Timer, TimerWord
  <2>2. CASE v.enabled /\ ~t.control.enabled
    <3>1. u = [t EXCEPT !.control = v, !.counter = 0, !.prescaler_counter = 0]
      BY <1>4, <2>2 DEF WithTimerControl
    <3> HIDE DEF u
    <3>2. u \in Timer /\ u.reload = 0 /\ u.counter = 0 /\ u.prescaler_counter = 0
      BY <1>3, <1>4, <3>1 DEF Timer
    <3> QED
      BY <1>3, <2>1, <3>2 DEF Phase, u
  <2>3. CASE ~(v.enabled /\ ~t.control.enabled)
    <3>1. u = [t EXCEPT !.control = v]
      BY <2>3 DEF WithTimerControl
    <3> HIDE DEF u
    <3>2. /\ u \in Timer /\ u.reload = 0 /\ u.counter = t.counter
          /\ u.prescaler_counter = t.prescaler_counter
      BY <1>4, <3>1 DEF Timer
    <3> QED
      BY <2>1, <3>2 DEF Phase, u
  <2> QED
    BY <2>2, <2>3
<1>5. \A k \in FifoTimers : us[k] \in Timer /\ us[k].reload = 0
  BY <1>2, <1>4 DEF Timed, FifoTimers
<1>6. Whole(us[0]) /\ Phase(us[0]) <= Phase(ts[0])
  <2>1. ts[0] \in Timer /\ ts[0].reload = 0 /\ ts[0].prescaler_counter < Slowest
    BY DEF Timed, Whole
  <2>2. Phase(ts[0]) <= Phase(ts[0])
    BY <2>1, TimerAssumption DEF Timer, TimerWord, Phase
  <2>3. CASE i = 0
    <3>1. us[0] = WithTimerControl(ts[0], v)
      BY <1>1, <1>2, <2>3
    <3> QED
      BY <1>4, <2>1, <3>1 DEF Whole
  <2>4. CASE i # 0
    <3>1. us[0] = ts[0]
      BY <1>1, <1>2, <2>4
    <3> QED
      BY <2>1, <2>2, <3>1 DEF Whole
  <2> QED
    BY <2>3, <2>4
<1> QED
  BY <1>2, <1>5, <1>6 DEF Timed, us

(* A bounded set of numbers has a least one as well. *)
LEMMA LeastThere ==
  ASSUME NEW N \in Nat, NEW D \in SUBSET (0..N), D # {}
  PROVE  \E p \in D : \A q \in D : p <= q
<1> DEFINE E == {N - d : d \in D}
<1>1. E \in SUBSET (0..N) /\ E # {}
  OBVIOUS
<1>2. \A d \in D : d \in 0..N /\ N - d \in E
  OBVIOUS
<1>3. PICK e \in E : \A f \in E : f <= e
  BY <1>1, GreatestThere
<1>4. PICK p \in D : e = N - p
  OBVIOUS
<1> HIDE DEF E
<1> QED
  BY <1>2, <1>3, <1>4

(* The span to the next overflow is a number. *)
LEMMA SpanType ==
  ASSUME NEW ts, Timed(ts)
  PROVE  CyclesToNextFifoOverflow(ts) \in Nat
<1> DEFINE times == {CyclesToOverflow(ts[i]) : i \in Clocking(ts)} \cup {U32 - 1}
<1>1. U32 \in Nat \ {0} /\ U32 - 1 \in Nat
  BY TimerAssumption
<1>2. ASSUME NEW i \in Clocking(ts) PROVE CyclesToOverflow(ts[i]) \in 0..(U32 - 1)
  <2> DEFINE t == ts[i]
             p == t.control.prescaler
             k == (p - t.prescaler_counter) + (WRAP - t.counter - 1) * p
  <2>1. t \in Timer
    BY DEF Clocking, Timed
  <2>2. p \in Int /\ t.prescaler_counter \in Int /\ t.counter \in Int /\ WRAP \in Int
    <3>1. p \in Dividers /\ t.prescaler_counter \in Nat /\ t.counter \in TimerWord
      BY <2>1 DEF Timer, Control
    <3>2. \A d \in Dividers : d \in Nat
      BY TimerAssumption
    <3>3. WRAP \in Nat /\ t.counter \in 0..(WRAP - 1)
      BY <3>1, TimerAssumption DEF TimerWord
    <3> QED
      BY <3>1, <3>2, <3>3
  <2>3. CyclesToOverflow(t) = k % U32
    BY DEF CyclesToOverflow
  <2> HIDE DEF p, t
  <2>4. k \in Int
    BY <2>2
  <2> HIDE DEF k
  <2> QED
    BY <1>1, <2>3, <2>4 DEF t
<1>3. times \in SUBSET (0..(U32 - 1)) /\ times # {}
  BY <1>1, <1>2
<1>4. CyclesToNextFifoOverflow(ts) = CHOOSE c \in times : \A d \in times : c <= d
  BY DEF CyclesToNextFifoOverflow
<1> HIDE DEF times
<1>5. \E c \in times : \A d \in times : c <= d
  BY <1>1, <1>3, LeastThere
<1>6. CyclesToNextFifoOverflow(ts) \in times
  BY <1>4, <1>5
<1>7. \A c \in times : c \in Nat
  BY <1>1, <1>3
<1> QED
  BY <1>6, <1>7
-----------------------------------------------------------------------------
(* How far a channel that is left alone gets.                              *)

(* Destinations are ports, as they are latched as well, and the guest      *)
(* leaves the selection of the timers, and the contents of the FIFOs, to   *)
(* themselves.                                                             *)
Ported == \A ch \in Channel : Aims(ch) \subseteq {Port[f] : f \in FifoId}
LeftAlone == Selects = {}

(* The cycles since the last VBlank, and what they may have popped since a *)
(* channel was moved back: an overflow takes WRAP cycles, but the timer    *)
(* may have been about to overflow.                                        *)
Elapsed == FRAME - toVBlank
Lead(ts, t) == (WRAP - 1) + (Slowest - 1) + t - Phase(ts[0])

(* A channel is no further from where it began than what was popped and    *)
(* what its FIFO holds.                                                    *)
Near(ch, st, start, lead) ==
  \E w, n \in Nat :
    /\ st.channels[ch].internal_sad = (start + w) % ADDR_SPACE
    /\ \A f \in FifoId : st.channels[ch].internal_dad = Port[f] => w <= n + st.fifos[f].count
    /\ w <= n \/ \E f \in FifoId : st.channels[ch].internal_dad = Port[f]
    /\ WRAP * n <= lead

(* It stays so while it is fed: for every sample that is popped, the timer *)
(* overflowed.                                                             *)
LEMMA NearGoesOn ==
  ASSUME NEW s \in Work, NEW t \in Work, Alike(s.channels, t.channels), NEW ch \in Channel,
         s.channels[ch].internal_dad = s.channels[ch].dad,
         NEW pops, Walk(s, t, pops), NEW e \in Nat, e = 0 => pops = {},
         NEW start \in Addr, NEW lead \in Int, Near(ch, s, start, lead),
         NEW then \in Int, lead + WRAP * e <= then
  PROVE  Near(ch, t, start, then)
<1> DEFINE d == s.channels[ch].internal_dad
<1>1. PICK w \in Nat, n \in Nat :
        /\ s.channels[ch].internal_sad = (start + w) % ADDR_SPACE
        /\ \A f \in FifoId : d = Port[f] => w <= n + s.fifos[f].count
        /\ w <= n \/ \E f \in FifoId : d = Port[f]
        /\ WRAP * n <= lead
  BY DEF Near
<1>2. PICK k \in Nat :
        /\ t.channels[ch].internal_sad = (s.channels[ch].internal_sad + k) % ADDR_SPACE
        /\ \A f \in FifoId : d = Port[f] => s.fifos[f].count + k <= t.fifos[f].count + Popped(pops, f)
        /\ k = 0 \/ \E f \in FifoId : d = Port[f]
  BY DEF Walk, WalkOf
<1>3. t.channels[ch].internal_dad = d
  BY DEF Alike
<1>4. /\ start \in Int /\ ADDR_SPACE \in Nat \ {0} /\ WRAP \in Nat
      /\ \A f \in FifoId : s.fifos[f].count \in Nat /\ t.fifos[f].count \in Nat
  BY DmaAssumption, TimerAssumption, FifoAssumption DEF Addr, Work, Fifo
<1>5. t.channels[ch].internal_sad = (start + (w + k)) % ADDR_SPACE
  <2>1. start + w \in Int /\ k \in Int /\ (start + w) + k = start + (w + k)
    BY <1>4
  <2>2. (((start + w) % ADDR_SPACE) + k) % ADDR_SPACE = ((start + w) + k) % ADDR_SPACE
    BY <1>4, <2>1, WrapOnce
  <2> QED
    BY <1>1, <1>2, <2>1, <2>2
<1>6. ASSUME NEW f \in FifoId, d = Port[f] PROVE w + k <= (n + e) + t.fifos[f].count
  <2>1. Popped(pops, f) \in Nat /\ Popped(pops, f) <= e
    BY DEF Popped
  <2>2. w <= n + s.fifos[f].count /\ s.fifos[f].count + k <= t.fifos[f].count + Popped(pops, f)
    BY <1>1, <1>2, <1>6
  <2> QED
    BY <1>4, <2>1, <2>2
<1>7. w + k <= n + e \/ \E f \in FifoId : d = Port[f]
  BY <1>1, <1>2
<1>8. WRAP * (n + e) <= then
  <2>1. WRAP * (n + e) = WRAP * n + WRAP * e /\ WRAP * n \in Nat /\ WRAP * e \in Nat
    BY <1>4
  <2> QED
    BY <1>1, <2>1
<1>9. w + k \in Nat /\ n + e \in Nat
  OBVIOUS
<1> HIDE DEF d
<1> QED
  BY <1>3, <1>5, <1>6, <1>7, <1>8, <1>9 DEF Near

(* The channels: one that was moved back at the last VBlank is near.       *)
Coherent(c) == (c.active => c.control.timing = "Special") /\ (c.dad = 0 => c.internal_dad = 0)
Runs(c) == c.active /\ c.control.timing = "Special" /\ c.internal_dad = c.dad
Plays(st, ages, starts, t, lead) ==
  \A ch \in Channel :
    /\ Coherent(st.channels[ch])
    /\ Runs(st.channels[ch]) /\ ages[ch] > WINDOW * FRAME + t => Near(ch, st, starts[ch], lead)

(* The ages. *)
LEMMA AgeType ==
  /\ WINDOW * FRAME \in Nat /\ MaxAge \in Nat /\ MaxCost \in Nat /\ FRAME \in Nat
  /\ MaxAge = WINDOW * FRAME + FRAME + MaxCost
<1>1. WINDOW \in Nat /\ FRAME \in Nat /\ MaxCost \in Nat
  BY SoundAssumption
<1>2. (WINDOW + 1) * FRAME = WINDOW * FRAME + FRAME /\ WINDOW * FRAME \in Nat
  BY <1>1
<1> QED
  BY <1>1, <1>2 DEF MaxAge

(* A step of the machine keeps the channels near. *)
LEMMA PlaysOn ==
  ASSUME Exclusive, Halves, NEW st, Sane(st), \A f \in FifoId : st.select[f] = 0,
         NEW ts, Timed(ts), NEW n \in Nat, NEW t \in Nat, t + n < FRAME + MaxCost,
         NEW ages \in [Channel -> 0..MaxAge], NEW starts \in [Channel -> Addr],
         Plays(st, ages, starts, t, Lead(ts, t)), NEW before, Step(ts, st, n, before),
         Now' \in Work
  PROVE  /\ Timed(timers') /\ \A f \in FifoId : select'[f] = 0
         /\ Older(ages, n) \in [Channel -> 0..MaxAge]
         /\ Plays(Now', Older(ages, n), starts, t + n, Lead(timers', t + n))
<1> DEFINE r == Tick(ts, n)
           m == AfterTick(st, r)
           us == TimersAfter(r)
           e == r[0].overflows
           pops == {f \in FifoId : st.select[f] \in Overflowed(r)}
           lead == Lead(ts, t)
           then == Lead(us, t + n)
<1>1. /\ timers' = us /\ fifos' = m.fifos /\ select' = m.select /\ channels' = m.channels
      /\ lost' = m.lost
  BY DEF Step
<1>2. /\ Sane(m) /\ m.select = st.select /\ Alike(st.channels, m.channels)
      /\ Walk(st, m, pops)
  <2> HIDE DEF r
  <2> QED
    BY AfterTickEffect
<1>3. /\ Timed(us) /\ e \in Nat /\ (0 \in Overflowed(r) <=> e > 0)
      /\ WRAP * e + Phase(us[0]) <= Phase(ts[0]) + n
  BY BatchPhase
<1>4. e = 0 => pops = {}
  <2> HIDE DEF r, e
  <2> QED
    BY <1>3 DEF pops
<1> HIDE DEF r, m, us, e, pops
<1>5. Now' = m /\ st \in Work /\ m \in Work
  <2>1. m \in Work /\ m.lost = {}
    BY <1>2 DEF Sane
  <2>2. Now' = [fifos |-> m.fifos, select |-> m.select, channels |-> m.channels, lost |-> {}]
    BY <1>1 DEF Now
  <2> QED
    BY <2>1, <2>2 DEF Work, Sane
<1>6. lead \in Int /\ then \in Int /\ lead + WRAP * e <= then
  <2>1. Phase(ts[0]) \in Nat /\ Phase(us[0]) \in Nat /\ Slowest \in Nat /\ WRAP \in Nat
    <3>1. ts[0] \in Timer /\ us[0] \in Timer
      BY <1>3 DEF Timed, Whole
    <3>2. ts[0].control.prescaler \in Dividers
      BY <3>1 DEF Timer, Control
    <3>3. Slowest \in Nat
      BY <3>2, SlowestThere
    <3>4. Phase(ts[0]) \in Nat /\ Phase(us[0]) \in Nat /\ WRAP \in Nat
      BY <3>1, TimerAssumption DEF Timer, TimerWord, Phase
    <3> QED
      BY <3>3, <3>4
  <2>2. WRAP * e \in Nat
    BY <1>3, <2>1
  <2> DEFINE x == WRAP * e
  <2>3. x \in Nat /\ x + Phase(us[0]) <= Phase(ts[0]) + n
    BY <1>3, <2>2
  <2> HIDE DEF x
  <2>4. lead \in Int /\ then \in Int /\ lead + x <= then
    BY <2>1, <2>3 DEF Lead
  <2> QED
    BY <2>4 DEF x
<1> HIDE DEF lead, then
<1>7. /\ Older(ages, n) \in [Channel -> 0..MaxAge]
      /\ \A ch \in Channel :
           Older(ages, n)[ch] > WINDOW * FRAME + (t + n) => ages[ch] > WINDOW * FRAME + t
  <2> DEFINE W == WINDOW * FRAME
  <2>1. /\ W \in Nat /\ MaxAge \in Nat /\ MaxCost \in Nat /\ FRAME \in Nat
        /\ MaxAge = W + FRAME + MaxCost
    BY AgeType
  <2> HIDE DEF W
  <2>2. ASSUME NEW ch \in Channel
        PROVE  /\ Older(ages, n)[ch] \in 0..MaxAge
               /\ Older(ages, n)[ch] > W + (t + n) => ages[ch] > W + t
    <3> DEFINE a == ages[ch]
               b == IF a + n < MaxAge THEN a + n ELSE MaxAge
    <3>1. a \in 0..MaxAge /\ Older(ages, n)[ch] = b
      BY DEF Older
    <3> HIDE DEF a
    <3>2. b \in 0..MaxAge /\ (b > W + (t + n) => a > W + t)
      BY <2>1, <3>1
    <3> QED
      BY <3>1, <3>2 DEF a
  <2>3. Older(ages, n) \in [Channel -> 0..MaxAge]
    <3>1. Older(ages, n) = [ch \in Channel |-> Older(ages, n)[ch]]
      BY DEF Older
    <3> QED
      BY <2>2, <3>1
  <2> QED
    BY <2>2, <2>3 DEF W
<1>8. ASSUME NEW ch \in Channel
      PROVE  /\ Coherent(m.channels[ch])
             /\ Runs(m.channels[ch]) /\ Older(ages, n)[ch] > WINDOW * FRAME + (t + n)
                  => Near(ch, m, starts[ch], then)
  <2>1. Coherent(m.channels[ch])
    BY <1>2 DEF Alike, Plays, Coherent
  <2>2. ASSUME Runs(m.channels[ch]), Older(ages, n)[ch] > WINDOW * FRAME + (t + n)
        PROVE  Near(ch, m, starts[ch], then)
    <3>1. Runs(st.channels[ch]) /\ st.channels[ch].internal_dad = st.channels[ch].dad
      BY <1>2, <2>2 DEF Alike, Runs
    <3>2. ages[ch] > WINDOW * FRAME + t
      BY <1>7, <2>2
    <3>3. Near(ch, st, starts[ch], lead)
      BY <3>1, <3>2 DEF Plays, lead
    <3>4. starts[ch] \in Addr
      OBVIOUS
    <3> QED
      BY <1>2, <1>3, <1>4, <1>5, <1>6, <3>1, <3>3, <3>4, NearGoesOn
  <2> QED
    BY <2>1, <2>2
<1>9. Plays(Now', Older(ages, n), starts, t + n, then)
  BY <1>5, <1>8 DEF Plays
<1> QED
  BY <1>1, <1>2, <1>3, <1>7, <1>9 DEF then

(* The invariant: the clocking timer reloads with 0, every FIFO is clocked *)
(* by it, and a channel that was moved back at the last VBlank is near.    *)
PlayInv ==
  /\ SoundInv /\ Timed(timers) /\ \A f \in FifoId : select[f] = 0
  /\ toVBlank \in Int /\ toVBlank > -MaxCost /\ toVBlank <= FRAME
  /\ age \in [Channel -> 0..MaxAge] /\ origin \in [Channel -> Addr]
  /\ Plays(Now, age, origin, Elapsed, Lead(timers, Elapsed))

LEMMA PlayStart == Init => PlayInv
<1> SUFFICES ASSUME Init PROVE PlayInv
  OBVIOUS
<1>1. PICK p \in Dividers : timers = [i \in TimerId |-> TimerOff(p)]
  BY DEF Init
<1>2. Timed(timers)
  <2>1. 0 \in TimerId /\ FifoTimers \subseteq TimerId /\ 0 \in TimerWord
    BY TimerAssumption DEF FifoTimers, TimerId, TimerWord
  <2>2. TimerOff(p) \in Timer /\ TimerOff(p).reload = 0 /\ TimerOff(p).prescaler_counter = 0
    BY <2>1 DEF TimerOff, Timer, Control
  <2>3. Slowest \in Nat \ {0}
    BY SlowestThere
  <2> QED
    BY <1>1, <2>1, <2>2, <2>3 DEF Timed, Whole
<1>3. \A f \in FifoId : select[f] = 0
  BY DEF Init
<1>4. toVBlank \in Int /\ toVBlank > -MaxCost /\ toVBlank <= FRAME
  BY SoundAssumption DEF Init
<1>5. age \in [Channel -> 0..MaxAge] /\ origin \in [Channel -> Addr]
  <2>1. MaxAge \in 0..MaxAge /\ 0 \in Addr
    BY AgeType, DmaAssumption DEF Addr
  <2> QED
    BY <2>1 DEF Init
<1>6. \A ch \in Channel : /\ Now.channels[ch].active = FALSE /\ Now.channels[ch].internal_dad = 0
  BY DEF Init, Now, NewChannel
<1>7. Plays(Now, age, origin, Elapsed, Lead(timers, Elapsed))
  BY <1>6 DEF Plays, Coherent, Runs
<1> QED
  BY <1>2, <1>3, <1>4, <1>5, <1>7, SoundStart DEF PlayInv

(* A step of the machine from a state in order leads to one. *)
LEMMA PlayKeeps ==
  ASSUME Exclusive, Halves, PlayInv, SoundInv',
         NEW st, Sane(st), \A f \in FifoId : st.select[f] = 0,
         NEW ts, Timed(ts), Phase(ts[0]) <= Phase(timers[0]),
         NEW n \in Nat, toVBlank > 0, n <= MaxCost \/ n <= toVBlank,
         NEW ages \in [Channel -> 0..MaxAge], NEW starts \in [Channel -> Addr],
         Plays(st, ages, starts, Elapsed, Lead(timers, Elapsed)),
         NEW before, Step(ts, st, n, before), age' = Older(ages, n), origin' = starts
  PROVE  PlayInv'
<1> DEFINE t == Elapsed
<1>1. FRAME \in Nat \ {0} /\ MaxCost \in Nat \ {0}
  BY SoundAssumption
<1>2. /\ toVBlank \in Int /\ toVBlank <= FRAME /\ toVBlank' = toVBlank - n
  BY DEF PlayInv, Step
<1>3. t \in Nat /\ t + n < FRAME + MaxCost /\ Elapsed' = t + n
  BY <1>1, <1>2 DEF Elapsed
<1>4. toVBlank' \in Int /\ toVBlank' > -MaxCost /\ toVBlank' <= FRAME
  BY <1>1, <1>2
<1>5. Plays(st, ages, starts, t, Lead(ts, t))
  <2>1. Lead(timers, t) <= Lead(ts, t) /\ Lead(timers, t) \in Int /\ Lead(ts, t) \in Int
    <3>1. ts[0] \in Timer /\ timers[0] \in Timer
      BY DEF PlayInv, Timed, Whole
    <3>2. Phase(ts[0]) \in Nat /\ Phase(timers[0]) \in Nat /\ WRAP \in Nat
      BY <3>1, TimerAssumption DEF Timer, TimerWord, Phase
    <3>3. Slowest \in Nat
      <4>1. ts[0].control.prescaler \in Dividers
        BY <3>1 DEF Timer, Control
      <4> QED
        BY <4>1, SlowestThere
    <3> HIDE DEF t
    <3> QED
      BY <1>3, <3>2, <3>3 DEF Lead
  <2> DEFINE a == Lead(timers, t)
             b == Lead(ts, t)
  <2>2. a <= b /\ a \in Int /\ b \in Int /\ WRAP \in Nat
    BY <2>1, TimerAssumption
  <2>3. Plays(st, ages, starts, t, a)
    OBVIOUS
  <2> HIDE DEF a, b, t
  <2>4. \A k \in Nat : WRAP * k <= a => WRAP * k <= b
    BY <2>2
  <2>5. \A ch \in Channel : \A start : Near(ch, st, start, a) => Near(ch, st, start, b)
    BY <2>4 DEF Near
  <2> QED
    BY <2>3, <2>5 DEF Plays, b
<1>6. Now' \in Work
  BY DEF SoundInv, Sane, Work, Fifo, DmaChannel
<1> HIDE DEF t
<1>7. /\ Timed(timers') /\ \A f \in FifoId : select'[f] = 0
      /\ Older(ages, n) \in [Channel -> 0..MaxAge]
      /\ Plays(Now', Older(ages, n), starts, t + n, Lead(timers', t + n))
  BY <1>3, <1>5, <1>6, PlaysOn
<1> QED
  BY <1>3, <1>4, <1>7 DEF PlayInv, Timed, Whole, Plays, Lead

(* A register write keeps the channels near, if one that runs on after it  *)
(* ran before it and reads where it read.                                  *)
LEMMA WritePlays ==
  ASSUME Exclusive, Halves, PlayInv, SoundInv', NEW ch \in Channel, NEW c,
         Aimed(ch, c), Returned(channels[ch], c), Coherent(c),
         NEW ages \in [Channel -> 0..MaxAge], NEW starts \in [Channel -> Addr],
         \A k \in Channel : k # ch => ages[k] = age[k] /\ starts[k] = origin[k],
         Runs(c) /\ ages[ch] > WINDOW * FRAME + Elapsed =>
           /\ Runs(channels[ch]) /\ ages[ch] = age[ch] /\ starts[ch] = origin[ch]
           /\ c.internal_sad = channels[ch].internal_sad
           /\ c.internal_dad = channels[ch].internal_dad,
         WriteChannel(ch, c, ages), origin' = starts
  PROVE  PlayInv'
<1> DEFINE st == [Now EXCEPT !.channels[ch] = c]
           lead == Lead(timers, Elapsed)
<1>1. PICK n \in 1..MaxCost :
        /\ Step(timers, st, n, {f \in primed : Feeds([channels EXCEPT ![ch] = c], f)})
        /\ age' = Older(ages, n)
  BY DEF WriteChannel
<1>2. /\ Sane(st) /\ st.fifos = fifos /\ st.select = select
      /\ \A k \in Channel : st.channels[k] = IF k = ch THEN c ELSE channels[k]
  BY WrittenSane, ZenonT(60) DEF PlayInv
<1>3. toVBlank > 0
  BY DEF WriteChannel, Runnable
<1>4. Now.channels = channels /\ Now.fifos = fifos
  BY DEF Now
<1>5. \A f \in FifoId : st.select[f] = 0
  BY <1>2 DEF PlayInv
<1> HIDE DEF st
<1>6. Plays(st, ages, starts, Elapsed, lead)
  <2> SUFFICES ASSUME NEW k \in Channel
               PROVE  /\ Coherent(st.channels[k])
                      /\ Runs(st.channels[k]) /\ ages[k] > WINDOW * FRAME + Elapsed
                           => Near(k, st, starts[k], lead)
    BY DEF Plays
  <2>1. /\ Coherent(channels[k])
        /\ Runs(channels[k]) /\ age[k] > WINDOW * FRAME + Elapsed => Near(k, Now, origin[k], lead)
    BY <1>4 DEF PlayInv, Plays
  <2>2. Coherent(st.channels[k])
    BY <1>2, <2>1
  <2>3. ASSUME Runs(st.channels[k]), ages[k] > WINDOW * FRAME + Elapsed
        PROVE  Near(k, st, starts[k], lead)
    <3>1. /\ Runs(channels[k]) /\ ages[k] = age[k] /\ starts[k] = origin[k]
          /\ st.channels[k].internal_sad = channels[k].internal_sad
          /\ st.channels[k].internal_dad = channels[k].internal_dad
      BY <1>2, <2>3
    <3>2. Near(k, Now, origin[k], lead)
      BY <2>1, <2>3, <3>1
    <3> QED
      BY <1>2, <1>4, <3>1, <3>2 DEF Near
  <2> QED
    BY <2>2, <2>3
<1>7. Timed(timers) /\ Phase(timers[0]) <= Phase(timers[0])
  BY TimerAssumption DEF PlayInv, Timed, Whole, Timer, TimerWord, Phase
<1>8. n \in Nat /\ n <= MaxCost
  BY SoundAssumption
<1> HIDE DEF lead
<1> QED
  BY <1>1, <1>2, <1>3, <1>5, <1>6, <1>7, <1>8, PlayKeeps DEF lead

(* A channel is aimed at one port at the most. *)
LEMMA OnePort ==
  ASSUME Exclusive, Ported, NEW ch \in Channel
  PROVE  /\ \A a, b \in Aims(ch) : a = b
         /\ 0 \notin Aims(ch)
<1>1. ASSUME NEW a \in Aims(ch) PROVE \E f \in FifoId : a = Port[f]
  BY DEF Ported
<1>2. ASSUME NEW a \in Aims(ch), NEW b \in Aims(ch) PROVE a = b
  <2>1. PICK f \in FifoId : a = Port[f]
    BY <1>1
  <2>2. PICK g \in FifoId : b = Port[g]
    BY <1>1
  <2>3. f = g
    BY <2>1, <2>2 DEF Exclusive
  <2> QED
    BY <2>1, <2>2, <2>3
<1>3. 0 \notin Aims(ch)
  BY <1>1 DEF Exclusive
<1> QED
  BY <1>2, <1>3

LEMMA PlayStep ==
  ASSUME Exclusive, Halves, Ported, LeftAlone
  PROVE  PlayInv /\ [Next]_vars => PlayInv'
<1> SUFFICES ASSUME PlayInv, [Next]_vars PROVE PlayInv'
  OBVIOUS
<1>1. SoundInv'
  BY SoundStep DEF PlayInv
<1>2. /\ SoundInv /\ Sane(Now) /\ Now.channels = channels /\ Now.fifos = fifos
      /\ Now.select = select /\ (\A f \in FifoId : Now.select[f] = 0)
      /\ (\A ch \in Channel : Aimed(ch, channels[ch]))
      /\ Timed(timers) /\ age \in [Channel -> 0..MaxAge] /\ origin \in [Channel -> Addr]
      /\ Plays(Now, age, origin, Elapsed, Lead(timers, Elapsed))
      /\ (\A ch \in Channel : Coherent(channels[ch]))
  BY DEF PlayInv, SoundInv, Sane, Now, Plays
<1>3. Phase(timers[0]) <= Phase(timers[0])
  BY <1>2, TimerAssumption DEF Timed, Whole, Timer, TimerWord, Phase
<1>4. MaxCost \in Nat \ {0} /\ CHUNK_CAP \in Nat \ {0} /\ toVBlank \in Int
  BY SoundAssumption DEF PlayInv
<1>5. ASSUME NEW n \in Nat, n <= MaxCost \/ n <= toVBlank, toVBlank > 0,
             Step(timers, Now, n, primed), age' = Older(age, n), origin' = origin
      PROVE  PlayInv'
  BY <1>1, <1>2, <1>3, <1>5, PlayKeeps
<1>6. CASE Compute \/ Halt
  <2>1. PICK n \in 1..MaxCost : Step(timers, Now, n, primed) /\ age' = Older(age, n)
    BY <1>6 DEF Compute, Halt
  <2>2. toVBlank > 0 /\ origin' = origin
    BY <1>6 DEF Compute, Halt, Runnable
  <2> QED
    BY <1>4, <1>5, <2>1, <2>2
<1>7. CASE HaltChunk
  <2> DEFINE next == CyclesToNextFifoOverflow(timers)
             n == Least(Greatest(Least(toVBlank, next), 1), CHUNK_CAP)
  <2>1. toVBlank > 0 /\ origin' = origin /\ Step(timers, Now, n, primed) /\ age' = Older(age, n)
    BY <1>7 DEF HaltChunk
  <2>2. next \in Nat
    BY <1>2, SpanType
  <2> HIDE DEF next
  <2>3. n \in Nat /\ n <= toVBlank
    BY <1>4, <2>1, <2>2 DEF Least, Greatest
  <2> HIDE DEF n
  <2> QED
    BY <1>5, <2>1, <2>3
<1>8. ASSUME NEW i \in TimerId, NEW v \in TimerControls, WriteTimer(i, v) PROVE PlayInv'
  <2> DEFINE ts == [timers EXCEPT ![i] = WithTimerControl(@, v)]
  <2>1. PICK n \in 1..MaxCost : Step(ts, Now, n, primed) /\ age' = Older(age, n)
    BY <1>8 DEF WriteTimer
  <2>2. toVBlank > 0 /\ origin' = origin
    BY <1>8 DEF WriteTimer, Runnable
  <2>3. Timed(ts) /\ Phase(ts[0]) <= Phase(timers[0])
    <3>1. v \in Control
      BY SoundAssumption
    <3> QED
      BY <1>2, <3>1, WritePhase
  <2>4. n \in Nat /\ n <= MaxCost
    BY <1>4
  <2> HIDE DEF ts
  <2> QED
    BY <1>1, <1>2, <2>1, <2>2, <2>3, <2>4, PlayKeeps
<1>9. ASSUME NEW ch \in Channel, NEW v \in Sads, WriteSad(ch, v) PROVE PlayInv'
  <2> DEFINE c == [channels[ch] EXCEPT !.sad = v]
  <2>1. Aimed(ch, c) /\ Returned(channels[ch], c)
    BY <1>2, ChannelWrites, WritesReturn
  <2>2. WriteChannel(ch, c, age) /\ origin' = origin
    BY <1>9 DEF WriteSad
  <2>3. /\ c.active = channels[ch].active /\ c.control = channels[ch].control
        /\ c.dad = channels[ch].dad /\ c.internal_dad = channels[ch].internal_dad
        /\ c.internal_sad = channels[ch].internal_sad
    BY <1>2 DEF Aimed, DmaChannel
  <2> HIDE DEF c
  <2>4. Coherent(c) /\ (Runs(c) => Runs(channels[ch]))
    BY <1>2, <2>3 DEF Coherent, Runs
  <2> QED
    BY <1>1, <1>2, <2>1, <2>2, <2>3, <2>4, WritePlays
<1>10. ASSUME NEW ch \in Channel, NEW v \in Dads[ch], WriteDad(ch, v) PROVE PlayInv'
  <2> DEFINE c == [channels[ch] EXCEPT !.dad = v]
  <2>1. Aimed(ch, c) /\ Returned(channels[ch], c)
    BY <1>2, ChannelWrites, WritesReturn
  <2>2. WriteChannel(ch, c, age) /\ origin' = origin
    BY <1>10 DEF WriteDad
  <2>3. /\ c.active = channels[ch].active /\ c.control = channels[ch].control
        /\ c.dad = v /\ c.internal_dad = channels[ch].internal_dad
        /\ c.internal_sad = channels[ch].internal_sad
    BY <1>2 DEF Aimed, DmaChannel
  <2>4. v \in Aims(ch) /\ \A d \in Dads[ch] : d \in Aims(ch)
    BY DEF Aims
  <2>5. channels[ch].dad \in Dads[ch] \cup {0}
    BY <1>2 DEF Aimed
  <2> HIDE DEF c
  <2>6. Coherent(c)
    BY <1>2, <2>3, <2>4, OnePort DEF Coherent
  <2>7. ASSUME Runs(c) PROVE Runs(channels[ch])
    <3>1. channels[ch].internal_dad = v /\ v # 0
      BY <2>3, <2>4, <2>7, OnePort DEF Runs
    <3>2. channels[ch].dad # 0
      BY <1>2, <3>1 DEF Coherent
    <3>3. channels[ch].dad = v
      BY <2>4, <2>5, <3>2, OnePort
    <3> QED
      BY <2>3, <2>7, <3>1, <3>3 DEF Runs
  <2> QED
    BY <1>1, <1>2, <2>1, <2>2, <2>3, <2>6, <2>7, WritePlays
<1>11. ASSUME NEW ch \in Channel, NEW v \in DmaControls, WriteControl(ch, v) PROVE PlayInv'
  <2> DEFINE c == WithControl(ch, channels[ch], v)
             starts == Starts(channels[ch], v)
             ages == IF starts THEN [age EXCEPT ![ch] = 0] ELSE age
             from == IF starts THEN [origin EXCEPT ![ch] = channels[ch].sad % ADDR_MASK[ch]]
                     ELSE origin
  <2>1. v \in DmaControl /\ v.timing = "Special"
    BY SoundAssumption
  <2>2. Aimed(ch, c) /\ Returned(channels[ch], c)
    BY <1>2, <2>1, ChannelWrites, WritesReturn
  <2>3. WriteChannel(ch, c, ages) /\ origin' = from
    BY <1>11 DEF WriteControl
  <2>4. /\ channels[ch] \in DmaChannel /\ Coherent(channels[ch])
        /\ channels[ch].active \in BOOLEAN /\ v.enabled \in BOOLEAN
    BY <1>2, <2>1 DEF Aimed, DmaChannel, DmaControl
  <2>5. channels[ch].sad % ADDR_MASK[ch] \in Addr
    <3>1. Aimed(ch, [channels[ch] EXCEPT !.internal_sad = channels[ch].sad % ADDR_MASK[ch]])
      BY <1>2, ChannelWrites
    <3>2. [channels[ch] EXCEPT !.internal_sad = channels[ch].sad % ADDR_MASK[ch]].internal_sad
            = channels[ch].sad % ADDR_MASK[ch]
      BY <2>4 DEF DmaChannel
    <3> QED
      BY <3>1, <3>2 DEF Aimed, DmaChannel
  <2>6. ages \in [Channel -> 0..MaxAge] /\ from \in [Channel -> Addr]
    <3>1. 0 \in 0..MaxAge
      BY AgeType
    <3> QED
      BY <1>2, <2>5, <3>1
  <2>7. \A k \in Channel : k # ch => ages[k] = age[k] /\ from[k] = origin[k]
    BY <1>2
  <2>8. CASE starts
    <3>1. ages[ch] = 0
      BY <1>2, <2>8
    <3>2. ~(ages[ch] > WINDOW * FRAME + Elapsed)
      <4> DEFINE W == WINDOW * FRAME
      <4>1. W \in Nat /\ FRAME \in Nat /\ toVBlank \in Int /\ toVBlank <= FRAME
        BY AgeType DEF PlayInv
      <4> HIDE DEF W
      <4>2. ~(0 > W + (FRAME - toVBlank))
        BY <4>1
      <4> QED
        BY <3>1, <4>2 DEF Elapsed, W
    <3>3. /\ c.control = v /\ c.dad = channels[ch].dad
          /\ c.internal_dad = channels[ch].dad % ADDR_MASK[ch]
      BY <2>4, <2>8 DEF WithControl, Latch, DmaChannel
    <3>4. 0 % ADDR_MASK[ch] = 0
      <4> DEFINE m == ADDR_MASK[ch]
      <4>1. m \in Nat \ {0} /\ 0 \in 0..(m - 1)
        BY DmaAssumption
      <4> HIDE DEF m
      <4>2. 0 % m = 0
        BY <4>1, NoWrap
      <4> QED
        BY <4>2 DEF m
    <3> HIDE DEF c, ages, from, starts
    <3>5. Coherent(c)
      BY <2>1, <3>3, <3>4 DEF Coherent
    <3> QED
      BY <1>1, <1>2, <2>2, <2>3, <2>6, <2>7, <3>2, <3>5, WritePlays
  <2>9. CASE ~starts
    <3>1. c = [channels[ch] EXCEPT !.control = v, !.active = @ /\ v.enabled]
      BY <2>9 DEF WithControl
    <3> HIDE DEF c
    <3>2. /\ c.control = v /\ c.dad = channels[ch].dad
          /\ c.internal_dad = channels[ch].internal_dad
          /\ c.internal_sad = channels[ch].internal_sad
          /\ c.active => channels[ch].active
      BY <2>4, <3>1 DEF DmaChannel
    <3>3. Coherent(c) /\ (Runs(c) => Runs(channels[ch]))
      BY <2>1, <2>4, <3>2 DEF Coherent, Runs
    <3>4. ages[ch] = age[ch] /\ from[ch] = origin[ch]
      BY <2>9
    <3> HIDE DEF ages, from, starts
    <3> QED
      BY <1>1, <1>2, <2>2, <2>3, <2>6, <2>7, <3>2, <3>3, <3>4, WritePlays
  <2> QED
    BY <2>8, <2>9
<1>12. ASSUME NEW sel \in Selects, NEW resets \in SUBSET FifoId, WriteSoundCnt(sel, resets)
       PROVE  PlayInv'
  BY <1>12 DEF LeftAlone
<1>13. CASE VBlank
  <2> DEFINE lead == Lead(timers, 0)
  <2>1. /\ toVBlank' = FRAME /\ fifos' = fifos /\ select' = select /\ timers' = timers /\ age' = age
        /\ \A ch \in Channel :
             /\ channels'[ch] = IF Reanchored(ch)
                                THEN [channels[ch] EXCEPT !.internal_sad = channels[ch].sad % ADDR_MASK[ch]]
                                ELSE channels[ch]
             /\ origin'[ch] = IF Reanchored(ch) THEN channels'[ch].internal_sad ELSE origin[ch]
        /\ origin' = [ch \in Channel |-> origin'[ch]]
    <3>1. /\ toVBlank' = FRAME /\ fifos' = fifos /\ select' = select /\ timers' = timers
          /\ age' = age
      BY <1>13 DEF VBlank
    <3>2. channels' = [ch \in Channel |->
                         IF Reanchored(ch)
                         THEN [channels[ch] EXCEPT !.internal_sad = channels[ch].sad % ADDR_MASK[ch]]
                         ELSE channels[ch]]
      BY <1>13 DEF VBlank
    <3> DEFINE from == [ch \in Channel |->
                          IF Reanchored(ch) THEN channels'[ch].internal_sad ELSE origin[ch]]
    <3>3. origin' = from
      BY <1>13 DEF VBlank
    <3>4. from = [ch \in Channel |-> from[ch]]
      OBVIOUS
    <3>5. \A ch \in Channel :
            origin'[ch] = IF Reanchored(ch) THEN channels'[ch].internal_sad ELSE origin[ch]
      BY <3>3
    <3> HIDE DEF from
    <3>6. \A ch \in Channel :
            channels'[ch] = IF Reanchored(ch)
                            THEN [channels[ch] EXCEPT !.internal_sad = channels[ch].sad % ADDR_MASK[ch]]
                            ELSE channels[ch]
      BY <3>2
    <3> QED
      BY <3>1, <3>3, <3>4, <3>5, <3>6
  <2>2. FRAME \in Nat /\ Elapsed' = 0
    BY <2>1, SoundAssumption DEF Elapsed
  <2>3. Now'.channels = channels' /\ Now'.fifos = fifos'
    BY DEF Now
  <2>4. ASSUME NEW ch \in Channel
        PROVE  /\ channels'[ch].active = channels[ch].active /\ channels'[ch].control = channels[ch].control
               /\ channels'[ch].dad = channels[ch].dad
               /\ channels'[ch].internal_dad = channels[ch].internal_dad
               /\ channels'[ch].internal_sad \in Addr
    <3>1. Aimed(ch, channels[ch])
          /\ Aimed(ch, [channels[ch] EXCEPT !.internal_sad = channels[ch].sad % ADDR_MASK[ch]])
      BY <1>2, ChannelWrites
    <3>2. channels'[ch] \in DmaChannel
      BY <2>1, <3>1 DEF Aimed
    <3>3. channels'[ch].internal_sad \in Addr
      BY <3>2 DEF DmaChannel
    <3> QED
      BY <2>1, <3>1, <3>3 DEF Aimed, DmaChannel
  <2>5. origin' \in [Channel -> Addr]
    BY <1>2, <2>1, <2>4
  <2>6. lead \in Nat
    <3>1. /\ timers[0] \in Timer /\ timers[0].prescaler_counter < Slowest
      BY <1>2 DEF Timed, Whole
    <3>2. Slowest \in Nat
      <4>1. timers[0].control.prescaler \in Dividers
        BY <3>1 DEF Timer, Control
      <4> QED
        BY <4>1, SlowestThere
    <3>3. /\ timers[0].prescaler_counter \in Nat /\ timers[0].counter \in 0..(WRAP - 1)
          /\ WRAP \in Nat
      BY <3>1, TimerAssumption DEF Timer, TimerWord
    <3> QED
      BY <3>1, <3>2, <3>3 DEF Lead, Phase
  <2> HIDE DEF lead
  <2>7. ASSUME NEW ch \in Channel, Runs(channels'[ch]), age[ch] > WINDOW * FRAME + 0
        PROVE  Near(ch, Now', origin'[ch], lead)
    <3>1. Reanchored(ch)
      <4>1. channels[ch].active /\ channels[ch].control.timing = "Special"
        BY <2>4, <2>7 DEF Runs
      <4>2. age[ch] > WINDOW * FRAME
        BY <2>7, AgeType
      <4> QED
        BY <4>1, <4>2 DEF Reanchored
    <3> DEFINE a == channels'[ch].internal_sad
    <3>2. origin'[ch] = a /\ a \in Addr
      BY <2>1, <2>4, <3>1
    <3> HIDE DEF a
    <3>3. (a + 0) % ADDR_SPACE = a
      <4>1. a \in 0..(ADDR_SPACE - 1) /\ a + 0 = a /\ ADDR_SPACE \in Nat \ {0}
        BY <3>2, DmaAssumption DEF Addr
      <4> QED
        BY <4>1, NoWrap
    <3>4. /\ Now'.channels[ch].internal_sad = (origin'[ch] + 0) % ADDR_SPACE
          /\ \A f \in FifoId : 0 <= 0 + Now'.fifos[f].count
          /\ 0 <= 0 /\ WRAP * 0 <= lead
      <4>1. \A f \in FifoId : fifos[f].count \in Nat
        BY <1>2, FifoAssumption DEF Sane, Work, Fifo
      <4>2. WRAP * 0 = 0
        BY TimerAssumption
      <4> QED
        BY <2>1, <2>3, <2>6, <3>2, <3>3, <4>1, <4>2 DEF a
    <3>5. 0 \in Nat
      OBVIOUS
    <3> QED
      BY <3>4, <3>5 DEF Near
  <2>8. \A ch \in Channel : Coherent(channels'[ch])
    BY <1>2, <2>4 DEF Coherent
  <2>9. Plays(Now', age, origin', 0, lead)
    BY <2>3, <2>7, <2>8 DEF Plays
  <2>10. toVBlank' \in Int /\ toVBlank' > -MaxCost /\ toVBlank' <= FRAME
    BY <1>4, <2>1, <2>2
  <2> QED
    BY <1>1, <1>2, <2>1, <2>2, <2>5, <2>9, <2>10 DEF PlayInv, lead, Timed, Whole, Plays, Lead
<1>14. CASE UNCHANGED vars
  <2>1. /\ timers' = timers /\ select' = select /\ toVBlank' = toVBlank /\ age' = age
        /\ origin' = origin /\ Now' = Now
    BY <1>14 DEF vars, Now
  <2> QED
    BY <1>1, <2>1 DEF PlayInv, Timed, Whole, Plays, Lead, Elapsed
<1> QED
  BY <1>6, <1>7, <1>8, <1>9, <1>10, <1>11, <1>12, <1>13, <1>14 DEF Next

(* A channel that is near is no further than the samples of a frame and a  *)
(* full FIFO.                                                              *)
LEMMA NearBound ==
  ASSUME PlayInv
  PROVE  StaleStaysInBuffer
<1> SUFFICES ASSUME NEW ch \in Channel, age[ch] = MaxAge, Playing(ch)
             PROVE  Walked(ch) <= PerFrame + FIFO_CAPACITY
  BY DEF StaleStaysInBuffer
<1> DEFINE a == channels[ch].internal_sad
           o == origin[ch]
           X == FRAME + (MaxCost - 1) + (Slowest - 1)
<1>1. Runs(channels[ch])
  BY DEF Playing, Runs
<1>2. /\ toVBlank \in Int /\ toVBlank > -MaxCost /\ toVBlank <= FRAME /\ o \in Addr
      /\ FRAME \in Nat \ {0} /\ MaxCost \in Nat \ {0}
  BY SoundAssumption DEF PlayInv
<1>3. age[ch] > WINDOW * FRAME + Elapsed
  <2> DEFINE W == WINDOW * FRAME
  <2>1. W \in Nat /\ MaxAge = W + FRAME + MaxCost
    BY AgeType
  <2> HIDE DEF W
  <2>2. W + FRAME + MaxCost > W + (FRAME - toVBlank)
    BY <1>2, <2>1
  <2> QED
    BY <2>1, <2>2 DEF W, Elapsed
<1>4. Near(ch, Now, o, Lead(timers, Elapsed))
  BY <1>1, <1>3 DEF PlayInv, Plays, Now
<1>5. PICK w \in Nat, n \in Nat :
        /\ a = (o + w) % ADDR_SPACE
        /\ \A f \in FifoId : channels[ch].internal_dad = Port[f] => w <= n + fifos[f].count
        /\ w <= n \/ \E f \in FifoId : channels[ch].internal_dad = Port[f]
        /\ WRAP * n <= Lead(timers, Elapsed)
  BY <1>4 DEF Near, Now
<1>6. FIFO_CAPACITY \in Nat /\ \A f \in FifoId : fifos[f].count \in 0..FIFO_CAPACITY
  BY FifoAssumption DEF PlayInv, SoundInv, Sane, Work, Fifo, Now
<1>7. w <= n + FIFO_CAPACITY
  BY <1>5, <1>6
<1>8. WRAP \in Nat \ {0} /\ X \in Nat /\ Lead(timers, Elapsed) < WRAP + X
  <2>1. timers[0] \in Timer
    BY DEF PlayInv, Timed, Whole
  <2>2. timers[0].control.prescaler \in Dividers
    BY <2>1 DEF Timer, Control
  <2>3. Slowest \in Nat \ {0}
    BY <2>2, SlowestThere
  <2>4. Phase(timers[0]) \in Nat
    BY <2>1, TimerAssumption DEF Timer, TimerWord, Phase
  <2>5. WRAP \in Nat \ {0}
    BY TimerAssumption
  <2> QED
    BY <1>2, <2>3, <2>4, <2>5 DEF Lead, Elapsed
<1>9. PerFrame = (X \div WRAP) + 1
  BY DEF PerFrame
<1> HIDE DEF X
<1>10. n <= (X \div WRAP) + 1
  <2>1. X \div WRAP \in Nat
    BY <1>8, Division
  <2>2. CASE n = 0
    BY <2>1, <2>2
  <2>3. CASE n # 0
    <3> DEFINE m == n - 1
               l == Lead(timers, Elapsed)
    <3>1. m \in Nat /\ n = m + 1
      BY <2>3
    <3>2. l < WRAP + X /\ WRAP * n <= l
      BY <1>5, <1>8
    <3>3. l \in Int
      <4>1. timers[0] \in Timer
        BY DEF PlayInv, Timed, Whole
      <4>2. timers[0].control.prescaler \in Dividers
        BY <4>1 DEF Timer, Control
      <4>3. Slowest \in Nat \ {0}
        BY <4>2, SlowestThere
      <4>4. Phase(timers[0]) \in Nat
        BY <4>1, TimerAssumption DEF Timer, TimerWord, Phase
      <4> QED
        BY <1>2, <1>8, <4>3, <4>4 DEF Lead, Elapsed
    <3> HIDE DEF m, l
    <3>4. WRAP * n = WRAP + m * WRAP /\ m * WRAP \in Nat
      BY <1>8, <3>1
    <3> DEFINE y == m * WRAP
    <3>5. y \in Nat /\ WRAP + y <= l
      BY <3>2, <3>4
    <3> HIDE DEF y
    <3>6. X >= y
      BY <1>8, <3>2, <3>3, <3>5
    <3>7. X \div WRAP >= m
      BY <1>8, <3>1, <3>6, QuotientReaches DEF y
    <3> QED
      BY <2>1, <3>1, <3>7
  <2> QED
    BY <2>2, <2>3
<1>11. Walked(ch) <= w /\ Walked(ch) \in Nat
  <2>1. ADDR_SPACE \in Nat \ {0} /\ o \in Int
    BY <1>2, DmaAssumption DEF Addr
  <2>2. Walked(ch) = (a - o) % ADDR_SPACE
    BY DEF Walked
  <2> HIDE DEF a, o
  <2>3. (((o + w) % ADDR_SPACE) + (-o)) % ADDR_SPACE = ((o + w) + (-o)) % ADDR_SPACE
    <3>1. o + w \in Int /\ -o \in Int
      BY <2>1
    <3> QED
      BY <2>1, <3>1, WrapOnce
  <2>4. (o + w) + (-o) = w /\ a + (-o) = a - o
    <3>1. a \in Int
      BY <1>5, <2>1
    <3> QED
      BY <2>1, <3>1
  <2>5. Walked(ch) = w % ADDR_SPACE
    BY <1>5, <2>2, <2>3, <2>4
  <2>6. /\ w \div ADDR_SPACE \in Nat /\ w % ADDR_SPACE \in 0..(ADDR_SPACE - 1)
        /\ w = ADDR_SPACE * (w \div ADDR_SPACE) + (w % ADDR_SPACE)
    BY <2>1, Division
  <2> DEFINE q == w \div ADDR_SPACE
             z == w % ADDR_SPACE
  <2>7. q \in Nat /\ z \in Nat /\ w = ADDR_SPACE * q + z
    BY <2>1, <2>6
  <2> HIDE DEF q, z
  <2>8. ADDR_SPACE * q \in Nat
    BY <2>1, <2>7
  <2> QED
    BY <2>5, <2>7, <2>8 DEF z
<1>12. X \div WRAP \in Nat
  BY <1>8, Division
<1> QED
  BY <1>6, <1>7, <1>9, <1>10, <1>11, <1>12

(* A buffer that the guest leaves alone is replayed from its start: as     *)
(* long as a channel is programmed for one port, whatever the prescalers,  *)
(* cascades and lengths of instructions, the channel is never further than *)
(* the samples of a frame and a full FIFO from where it was last moved     *)
(* back to (the re-anchor at VBlank, handle_event).                        *)
THEOREM BufferReplayed ==
  ASSUME Exclusive, Halves, Ported, LeftAlone
  PROVE  Spec => []StaleStaysInBuffer
<1>1. Init => PlayInv
  BY PlayStart
<1>2. PlayInv /\ [Next]_vars => PlayInv'
  BY PlayStep
<1>3. PlayInv => StaleStaysInBuffer
  BY NearBound
<1> QED
  BY <1>1, <1>2, <1>3, PTL DEF Spec
=============================================================================
