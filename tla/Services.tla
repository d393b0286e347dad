------------------------------ MODULE Services ------------------------------
(***************************************************************************)
(* The services of the BIOS that move and unpack data and that divide      *)
(* (gba-core/src/bios.rs): the guest calls them by SWI, they run to their  *)
(* end before the next instruction, and what they leave in memory is what  *)
(* their callers live on.                                                  *)
(*                                                                         *)
(* Memory is an array of small bytes.  A packed stream is the sequence of  *)
(* its tokens; how flags and lengths are packed in bytes is left out.      *)
(***************************************************************************)
EXTENDS Integers, Sequences

CONSTANTS
  RAM,        \* bytes of the memory the services work on
  Fillings,   \* bound: its contents before a call
  LzStreams,  \* bound: sequences of [byte] and [length, offset] tokens
  RlStreams,  \* bound: sequences of [byte, length] and [bytes] tokens
  Units,      \* bound: sequences of numbers to be widened
  WORD,       \* bits of a word: 32
  Widths,     \* bound: bits of a widened unit
  ROUND,      \* words that CpuFastSet moves at a time: 8
  LIMIT       \* 2^31

VARIABLES
  ram,
  regs,    \* r0, r1 and r3
  due,     \* history: at most one: what is due in ram, or from Div
  called   \* did the guest call since it filled the memory?

serviceVars == <<ram, regs, due, called>>

Cells == 0..(RAM - 1)
Put(m, i, v) ==
  [j \in Cells |-> IF j \in i..(i + Len(v) - 1) THEN v[j - i + 1] ELSE m[j]]
-----------------------------------------------------------------------------
(* The decompressors share how they put out a byte: one by one, or, for    *)
(* VRAM, which takes no bytes, two at a time.                              *)
Start(pos, size) == [m |-> ram, pos |-> pos, remaining |-> size, buffer |-> 0, count |-> 0]

Emit(o, v, vram) ==
  IF o.remaining = 0 THEN o
  ELSE [o EXCEPT !.m = IF ~vram THEN Put(@, o.pos, <<v>>)
                       ELSE IF o.count % 2 = 0 THEN @
                       ELSE Put(@, o.pos - (o.pos % 2), <<o.buffer, v>>),
                 !.buffer = IF vram /\ o.count % 2 = 0 THEN v ELSE @,
                 !.count = @ + 1, !.pos = @ + 1, !.remaining = @ - 1]

(* A token is bytes to be taken as they are, one byte to be repeated, or a *)
(* reference to bytes that are in memory already, or are to be while it is *)
(* copied.                                                                 *)
Length(t) == IF "length" \in DOMAIN t THEN t.length ELSE Len(t.bytes)
ByteOf(m, pos, t, i) ==
  IF "offset" \in DOMAIN t THEN m[pos - t.offset]
  ELSE IF "byte" \in DOMAIN t THEN t.byte ELSE t.bytes[i]

EmitOf(o, t, i, vram) == Emit(o, ByteOf(o.m, o.pos, t, i), vram)
Token(o, t, vram) ==
  LET out[i \in 0..Length(t)] == IF i = 0 THEN o ELSE EmitOf(out[i - 1], t, i, vram)
  IN  out[Length(t)]
Unpack(pos, size, stream, vram) ==
  LET out[k \in 0..Len(stream)] ==
        IF k = 0 THEN Start(pos, size) ELSE Token(out[k - 1], stream[k], vram)
  IN  out[Len(stream)].m
lz77_decompress(pos, size, stream, vram) == Unpack(pos, size, stream, vram)
rl_decompress(pos, size, stream, vram) == Unpack(pos, size, stream, vram)

(* BitUnPack gathers units in a word, which it stores when it is full, and *)
(* once more in the end.  A word is a byte of ram here.  Units that fit    *)
(* their bits are joined by OR, which adds them; of others see BitUnPack.  *)
Widened(v, offset, zero) == IF v = 0 /\ ~zero THEN 0 ELSE v + offset
Gather(o, v, width, offset, zero) ==
  LET b == o.buffer + Widened(v, offset, zero) * 2^o.bits
  IN  IF o.bits + width < WORD THEN [o EXCEPT !.buffer = b, !.bits = @ + width]
      ELSE [m |-> Put(o.m, o.pos, <<b>>), pos |-> o.pos + 1, buffer |-> 0, bits |-> 0]
Gathered(pos, units, width, offset, zero) ==
  LET out[i \in 0..Len(units)] ==
        IF i = 0 THEN [m |-> ram, pos |-> pos, buffer |-> 0, bits |-> 0]
        ELSE Gather(out[i - 1], units[i], width, offset, zero)
  IN  out[Len(units)]
\* Mutant: a word that is not full in the end is not stored.
swi_bit_unpack_NoRest(pos, units, width, offset, zero) ==
  Gathered(pos, units, width, offset, zero).m
swi_bit_unpack(pos, units, width, offset, zero) ==
  LET o == Gathered(pos, units, width, offset, zero)
  IN  IF o.bits > 0 THEN Put(o.m, o.pos, <<o.buffer>>) ELSE o.m

(* The copies read and store one unit after the other, or fill with the    *)
(* first.                                                                  *)
Moved(m, src, dst, i, fixed) ==
  Put(m, dst + i - 1, <<IF fixed THEN ram[src] ELSE m[src + i - 1]>>)
Copy(src, dst, count, fixed) ==
  LET out[i \in 0..count] ==
        IF i = 0 THEN ram ELSE Moved(out[i - 1], src, dst, i, fixed)
  IN  out[count]
swi_cpu_set(src, dst, count, fixed) == Copy(src, dst, count, fixed)
Rounded(count) == ((count + ROUND - 1) \div ROUND) * ROUND
swi_cpu_fast_set(src, dst, count, fixed) == Copy(src, dst, Rounded(count), fixed)

(* Signed division towards zero; what overflows is left out, see Divisible.*)
Magnitude(n) == IF n < 0 THEN -n ELSE n
Quotient(n, d) == (IF (n < 0) = (d < 0) THEN 1 ELSE -1) * (Magnitude(n) \div Magnitude(d))
swi_div(n, d) ==
  IF d = 0 THEN [r0 |-> n, r1 |-> d, r3 |-> regs.r3]
  ELSE LET q == Quotient(n, d)
       IN  [r0 |-> q, r1 |-> n - q * d, r3 |-> Magnitude(q)]
swi_div_arm(d, n) == swi_div(n, d)
-----------------------------------------------------------------------------
(* How many bytes a stream stands for before each of its tokens.           *)
Begins(stream) ==
  LET begins[k \in 0..Len(stream)] ==
        IF k = 0 THEN 0 ELSE begins[k - 1] + Length(stream[k])
  IN  begins

(* A stream for VRAM must not refer to a byte whose pair is not full.      *)
ForVram(stream) ==
  \A k \in 1..Len(stream) : "offset" \in DOMAIN stream[k] => stream[k].offset > 1

Zeros == [r0 |-> 0, r1 |-> 0, r3 |-> 0]

Init ==
  /\ ram \in Fillings
  /\ regs = Zeros
  /\ due = {} /\ called = FALSE

Call == ~called /\ called' = TRUE
Leaves(m, promise) == Call /\ ram' = m /\ due' = promise /\ UNCHANGED regs

Unpacks(pos, size, stream, vram, m) ==
  /\ (vram => pos % 2 = 0) /\ pos + size <= RAM
  /\ size <= Begins(stream)[Len(stream)]
  /\ Leaves(m,
            IF vram /\ (~ForVram(stream) \/ size % 2 = 1) THEN {}
            ELSE {[pos |-> pos, size |-> size, stream |-> stream, was |-> ram]})
LZ77UnComp(pos, size, stream, vram) ==
  Unpacks(pos, size, stream, vram, lz77_decompress(pos, size, stream, vram))
RLUnComp(pos, size, stream, vram) ==
  Unpacks(pos, size, stream, vram, rl_decompress(pos, size, stream, vram))

(* A widened unit is in its bits of its word, if it fits there.            *)
PerWord(width) == WORD \div width
Counted(n, units, width, offset, zero, k, i) ==
  LET j == k * PerWord(width) + i
  IN  IF j > Len(units) THEN n
      ELSE n + Widened(units[j], offset, zero) * 2^((i - 1) * width)
Number(units, width, offset, zero, k) ==
  LET sum[i \in 0..PerWord(width)] ==
        IF i = 0 THEN 0 ELSE Counted(sum[i - 1], units, width, offset, zero, k, i)
  IN  sum[PerWord(width)]
BitUnPack(pos, units, width, offset, zero) ==
  LET words == (Len(units) + PerWord(width) - 1) \div PerWord(width)
  IN  /\ pos + words <= RAM
      /\ Leaves(swi_bit_unpack(pos, units, width, offset, zero),
                IF \E i \in 1..Len(units) : Widened(units[i], offset, zero) >= 2^width THEN {}
                ELSE {[ram |-> Put(ram, pos, [k \in 1..words |-> Number(units, width, offset, zero, k - 1)])]})

(* A copy is one, unless it runs into what it has still to read.           *)
Copied(src, dst, count, fixed) ==
  [ram |-> Put(ram, dst, [i \in 1..count |-> IF fixed THEN ram[src] ELSE ram[src + i - 1]])]
CpuSet(src, dst, count, fixed) ==
  /\ src + count <= RAM /\ dst + count <= RAM
  /\ Leaves(swi_cpu_set(src, dst, count, fixed),
            IF ~fixed /\ dst \in (src + 1)..(src + count - 1) THEN {}
            ELSE {Copied(src, dst, count, fixed)})
CpuFastSet(src, dst, count, fixed) ==
  LET n == Rounded(count)
  IN  /\ src + n <= RAM /\ dst + n <= RAM
      /\ Leaves(swi_cpu_fast_set(src, dst, count, fixed),
                IF ~fixed /\ dst \in (src + 1)..(src + n - 1) THEN {}
                ELSE {Copied(src, dst, n, fixed)})

(* The smallest number by -1 has no quotient: the emulator stops there.    *)
Integer == -LIMIT..(LIMIT - 1)
Divisible(n, d) == ~(n = -LIMIT /\ d = -1)
Div(n, d) ==
  /\ Call /\ Divisible(n, d)
  /\ regs' = swi_div(n, d) /\ due' = {[n |-> n, d |-> d]}
  /\ UNCHANGED ram
DivArm(d, n) ==
  /\ Call /\ Divisible(n, d)
  /\ regs' = swi_div_arm(d, n) /\ due' = IF d = 0 THEN {} ELSE {[n |-> n, d |-> d]}
  /\ UNCHANGED ram

(* The guest uses the memory and the registers for something else.         *)
Refill(m) ==
  /\ called /\ called' = FALSE
  /\ ram' = m /\ due' = {} /\ regs' = Zeros

Next ==
  \/ \E pos \in Cells, size \in Cells, vram \in BOOLEAN :
       \/ \E s \in LzStreams : LZ77UnComp(pos, size, s, vram)
       \/ \E s \in RlStreams : RLUnComp(pos, size, s, vram)
  \/ \E pos \in Cells, u \in Units, w \in Widths, offset \in {0, 1}, zero \in BOOLEAN :
       BitUnPack(pos, u, w, offset, zero)
  \/ \E src, dst, count \in Cells, fixed \in BOOLEAN :
       CpuSet(src, dst, count, fixed) \/ CpuFastSet(src, dst, count, fixed)
  \/ \E n, d \in Integer : Div(n, d) \/ DivArm(d, n)
  \/ \E m \in Fillings : Refill(m)

Spec == Init /\ [][Next]_serviceVars
-----------------------------------------------------------------------------
(* What a stream stands for is in memory: the bytes of a token are where   *)
(* it begins, and a reference repeats what is so far before it.            *)
Lies(m, p) ==
  LET begins == Begins(p.stream)
  IN  /\ \A k \in 1..Len(p.stream) : \A i \in 1..Length(p.stream[k]) :
           LET n == begins[k - 1] + i
           IN  n <= p.size => m[p.pos + n - 1] = ByteOf(m, p.pos + n - 1, p.stream[k], i)
      /\ \A j \in Cells : j \notin p.pos..(p.pos + p.size - 1) => m[j] = p.was[j]

(* A service leaves what its stream stands for where it was told to, cut   *)
(* at the size it was told, and nothing elsewhere, in VRAM as in work RAM; *)
(* a copy copies, and a fill fills.                                        *)
Unpacked ==
  \A p \in due : /\ "stream" \in DOMAIN p => Lies(ram, p)
                 /\ "ram" \in DOMAIN p => ram = p.ram

(* The quotient is rounded towards zero, the remainder has the sign of the *)
(* dividend, and the division by zero changes no register.                 *)
DivRight ==
  \A p \in due : "n" \in DOMAIN p =>
    IF p.d = 0 THEN regs.r0 = p.n /\ regs.r1 = 0
    ELSE /\ regs.r0 * p.d + regs.r1 = p.n
         /\ Magnitude(regs.r1) < Magnitude(p.d)
         /\ regs.r1 = 0 \/ (regs.r1 < 0) = (p.n < 0)
         /\ regs.r3 = Magnitude(regs.r0)
=============================================================================
