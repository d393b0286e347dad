------------------------------- MODULE Memory -------------------------------
(***************************************************************************)
(* The memories behind the bus (gba-core/src/bus/mod.rs): read8, read16,   *)
(* read32, write8, write16 and write32, which are written one by one for   *)
(* each region, with mirrors, alignment and bus widths of their own, and   *)
(* the halves of the I/O registers, which bytes and words are stored to    *)
(* by way of read_io16 and write_io16.                                     *)
(*                                                                         *)
(* The regions share nothing, and no register is stored to with another,   *)
(* but the two of a word: one behaviour uses one region, or one word of    *)
(* registers.  A value is the sequence of its bytes, the lowest first.     *)
(***************************************************************************)
EXTENDS Integers, Sequences

CONSTANTS
  SIZE,       \* bytes of a RAM: 256 K, 32 K, 1 K
  VWINDOW,    \* bytes of the VRAM window: 128 K, of which VRAM is 96
  Word, Half, Byte8, \* bound: a value of each width
  BITMAP,     \* is the display in a bitmap mode?
  OddBytes,   \* does the guest store bytes to odd addresses of VRAM?
  MaxStores,  \* bound
  BYTE,       \* values of an I/O byte: 256
  IoHalves, IoWords \* bound: the halfwords and words stored to registers

VARIABLES
  where,      \* the region of this behaviour, or the word of registers
  mem,        \* its bytes
  found,      \* history: what each byte may be, for all that was stored
  bios_latch, in_bios, \* the last word fetched from the BIOS; is the pc in it?
  io,         \* the two halves of the word of registers
  counter,    \* the timer that the register pair belongs to
  stored,     \* history: what each byte of the halves may be
  from,       \* history: what the counter may be
  stores      \* so far

memoryVars == <<where, mem, found, bios_latch, in_bios, io, counter, stored, from, stores>>
ramVars == <<mem, found, bios_latch, in_bios>>
ioVars == <<io, counter, stored, from>>

Rams == {"ewram", "iwram", "palette", "vram", "oam"}
Pairs == {"BG_CNT", "BG_OFS", "DISPSTAT", "BG_REF", "TIMER", "IE_IF", "POSTFLG"}
IsRegister == where \in Pairs

Extent == CASE where = "vram" -> VWINDOW - VWINDOW \div 4
            [] where \in {"bios", "rom"} -> 2 * SIZE [] OTHER -> SIZE
Window == IF where = "vram" THEN VWINDOW ELSE Extent

(* The index of an address: the windows repeat, and the last quarter of    *)
(* VRAM's is the quarter before it.                                        *)
\* Mutant: the window is cut off at the size of VRAM.
vram_addr_Cut(a) == a % (VWINDOW - VWINDOW \div 4)
vram_addr(a) ==
  LET o == a % VWINDOW
  IN  IF o >= VWINDOW - VWINDOW \div 4 THEN o - VWINDOW \div 4 ELSE o
Index(a) == IF where = "vram" THEN vram_addr(a) ELSE a % Extent

Aligned(a, w) == a - (a % w)
Bytes(i, w) == [k \in 1..w |-> mem[i + k - 1]]
-----------------------------------------------------------------------------
(* Loads.  From outside, the BIOS shows the word it fetched last; a load   *)
(* of one of its last three bytes alone is not latched.                    *)
LatchAfter(a) ==
  IF in_bios /\ Index(a) + 3 < Extent THEN Bytes(Aligned(Index(a), 4), 4) ELSE bios_latch
read_bios(a) == IF in_bios THEN Bytes(Index(a), 1) ELSE <<bios_latch[(a % 4) + 1]>>

read8(a) == IF where = "bios" THEN read_bios(a) ELSE Bytes(Index(a), 1)

read16(a) ==
  LET b == Aligned(a, 2)
  IN  CASE where = "bios" -> read8(b) \o read8(b + 1)
        [] where = "sram" -> Bytes(Index(b), 1) \o Bytes(Index(b), 1)
        [] OTHER -> Bytes(Index(b), 2)

read32(a) ==
  LET b == Aligned(a, 4)
  IN  CASE where \in {"bios", "vram", "rom"} -> read16(b) \o read16(b + 2)
        [] where = "sram" -> [k \in 1..4 |-> mem[Index(b)]]
        [] OTHER -> Bytes(Index(b), 4)

Put(i, v) ==
  [j \in DOMAIN mem |-> IF j \in i..(i + Len(v) - 1) THEN v[j - i + 1] ELSE mem[j]]

(* Stores.  The video memories have no byte stores: the palette doubles    *)
(* the byte, VRAM puts it here and behind, OAM drops it.  A cartridge has  *)
(* 8 bits: wider stores are dropped.                                       *)
write8(a, v) ==
  LET i == Index(a)
  IN  CASE where \in {"ewram", "iwram", "sram"} -> Put(i, v)
        [] where = "palette" -> Put(Aligned(i, 2), v \o v)
        [] where = "vram" /\ i + 1 < Extent -> Put(i, v \o v)
        [] OTHER -> mem

write16(a, v) == IF where \in Rams THEN Put(Index(Aligned(a, 2)), v) ELSE mem
write32(a, v) == IF where \in Rams THEN Put(Index(Aligned(a, 4)), v) ELSE mem
-----------------------------------------------------------------------------
(* The registers.  A half is two bytes, <<low, high>>; the values of a     *)
(* byte are cut to BYTE, the highest bit of a word to the unused ones.     *)
IoByte == 0..(BYTE - 1)
LOW == 1
HIGH == 2

(* The bits of one byte that are not in the other. *)
AndNot(x, v) ==
  LET kept[p \in IoByte \X IoByte] ==
        IF p[1] = 0 THEN 0
        ELSE (IF p[2] % 2 = 0 THEN p[1] % 2 ELSE 0) + 2 * kept[<<p[1] \div 2, p[2] \div 2>>]
  IN  kept[<<x, v>>]
(* An offset has 9 bits. *)
Offset9(v) == <<v[1], v[2] % 2>>
(* The lowest bit of DISPSTAT stands for its bits 0 to 2, which are read-only. *)
Writable(old, v) == <<2 * (v[1] \div 2) + (old[1] % 2), v[2]>>

(* A reference point: a signed number without its top bit.                 *)
Unused == (BYTE * BYTE * BYTE * BYTE) \div 2
Joined(h) == h[LOW][1] + BYTE * (h[LOW][2] + BYTE * (h[HIGH][1] + BYTE * h[HIGH][2]))
Split(n) == << <<n % BYTE, (n \div BYTE) % BYTE>>,
               <<(n \div (BYTE * BYTE)) % BYTE, n \div (BYTE * BYTE * BYTE)>> >>
sign_extend_28(h) ==
  LET n == Joined(h)
  IN  IF n % Unused >= Unused \div 2 THEN Split((n % Unused) + Unused) ELSE h

read_io16(h) ==
  CASE where \in {"BG_OFS", "BG_REF"} -> <<0, 0>>
    [] where = "TIMER" /\ h = LOW -> counter
    [] where = "POSTFLG" /\ h = HIGH -> <<0, 0>>
    [] OTHER -> io[h]

(* The halves, and the counter, after a halfword is stored.  A timer that  *)
(* starts takes its reload (write_control).                                *)
Starts(r, v) == r.io[HIGH][1] = 0 /\ v[1] # 0
write_io16(r, h, v) ==
  LET new == [r EXCEPT !.io[h] = v]
  IN  CASE where = "DISPSTAT" -> IF h = LOW THEN [r EXCEPT !.io[h] = Writable(@, v)] ELSE r
        [] where = "BG_OFS" -> [r EXCEPT !.io[h] = Offset9(v)]
        [] where = "BG_REF" -> [new EXCEPT !.io = sign_extend_28(@)]
        [] where = "TIMER" /\ h = HIGH /\ Starts(r, v) -> [new EXCEPT !.counter = r.io[LOW]]
        [] where = "IE_IF" /\ h = HIGH ->
             [r EXCEPT !.io[h] = <<AndNot(@[1], v[1]), AndNot(@[2], v[2])>>]
        [] where = "POSTFLG" -> IF h = LOW THEN [r EXCEPT !.io[h] = <<v[1], 0>>] ELSE r
        [] OTHER -> new

\* Mutant: the high half of a word is stored first.
WriteIo32_HighFirst(r, v) == write_io16(write_io16(r, HIGH, SubSeq(v, 3, 4)), LOW, SubSeq(v, 1, 2))
WriteIo32(r, v) == write_io16(write_io16(r, LOW, SubSeq(v, 1, 2)), HIGH, SubSeq(v, 3, 4))

(* A byte is merged with what the half reads as.  The byte above POSTFLG   *)
(* is HALTCNT, which is not kept.                                          *)
write_io8(r, a, v) ==
  LET h == a \div 2 + 1
  IN  IF where = "POSTFLG" /\ a = 1 THEN r
      ELSE write_io16(r, h, [read_io16(h) EXCEPT ![(a % 2) + 1] = v])
-----------------------------------------------------------------------------
Blank == [i \in 0..(Extent - 1) |-> IF where \in {"bios", "rom"} THEN i ELSE 0]

(* DISPSTAT and VCOUNT have bits that the display set, IF has requests.    *)
FirstHalves ==
  CASE where = "DISPSTAT" -> << <<1, 0>>, <<1, 0>> >>
    [] where = "IE_IF"    -> << <<0, 0>>, <<BYTE - 1, 1>> >>
    [] OTHER              -> << <<0, 0>>, <<0, 0>> >>

Init ==
  /\ where \in Rams \cup {"bios", "rom", "sram"} \cup Pairs
  /\ mem = Blank /\ found = [i \in DOMAIN mem |-> {mem[i]}]
  /\ bios_latch = <<0, 0, 0, 0>> /\ in_bios = FALSE
  /\ io = FirstHalves /\ counter = <<0, 0>>
  /\ stored = [h \in {LOW, HIGH} |-> [b \in 1..2 |-> {io[h][b]}]] /\ from = {counter}
  /\ stores = 0

Address == 0..(2 * Window - 1)

(* What a store is to leave in the bytes: an array, but that a byte is     *)
(* doubled over its halfword in the palette and in VRAM, and ignored where *)
(* a bitmap mode keeps the objects' tiles, from 0x14000 on.                *)
ObjRegion == (5 * VWINDOW) \div 8
Touched(a, v) ==
  LET i == Index(Aligned(a, Len(v)))
      byte == Len(v) = 1
      dropped == \/ where = "oam" /\ byte
                 \/ where = "vram" /\ byte /\ BITMAP /\ i >= ObjRegion
                 \/ where = "sram" /\ ~byte
                 \/ where \in {"rom", "bios"}
      doubled == byte /\ where \in {"palette", "vram"}
  IN  [j \in DOMAIN mem |->
         CASE dropped -> found[j]
           [] ~dropped /\ doubled /\ j \div 2 = i \div 2 -> {v[1]}
           [] ~dropped /\ ~doubled /\ j \in i..(i + Len(v) - 1) -> {v[j - i + 1]}
           [] OTHER -> found[j]]

AtOddByte(a, v) == where = "vram" /\ Len(v) = 1 /\ Index(a) % 2 = 1

Store(a, v) ==
  /\ ~IsRegister /\ stores < MaxStores /\ (AtOddByte(a, v) => OddBytes)
  /\ mem' = CASE Len(v) = 1 -> write8(a, v) [] Len(v) = 2 -> write16(a, v) [] OTHER -> write32(a, v)
  /\ found' = Touched(a, v)
  /\ stores' = stores + 1
  /\ UNCHANGED <<where, bios_latch, in_bios, ioVars>>

(* The program runs into the BIOS and out of it; loads there are latched.  *)
EnterOrLeave ==
  /\ where = "bios"
  /\ in_bios' = ~in_bios
  /\ UNCHANGED <<where, mem, found, bios_latch, ioVars, stores>>

FetchBios(a) ==
  /\ where = "bios"
  /\ bios_latch' = LatchAfter(a)
  /\ UNCHANGED <<where, mem, found, in_bios, ioVars, stores>>

(* What a halfword is to leave in the bytes of its half ...                *)
HalfStored(p, h, v) ==
  CASE (where = "DISPSTAT" /\ h = HIGH) \/ (where = "POSTFLG" /\ h = HIGH) -> p
    [] where = "DISPSTAT" /\ h = LOW -> [p EXCEPT ![h] = <<{2 * (v[1] \div 2) + 1}, {v[2]}>>]
    [] where = "POSTFLG" /\ h = LOW -> [p EXCEPT ![h] = <<{v[1]}, {0}>>]
    [] where = "BG_OFS" -> [p EXCEPT ![h] = <<{v[1]}, {v[2] % 2}>>]
    [] where = "IE_IF" /\ h = HIGH ->
         [p EXCEPT ![h] = [b \in 1..2 |-> {AndNot(x, v[b]) : x \in @[b]}]]
    [] OTHER -> [p EXCEPT ![h] = <<{v[1]}, {v[2]}>>]

(* ... and a byte: nothing but its own, if the other one can be read; if   *)
(* it cannot, it may be lost, and a byte stored to IF may acknowledge      *)
(* what is pending in the other.                                           *)
Lost(p, h, b) ==
  CASE where \in {"BG_OFS", "BG_REF"} \/ (where = "IE_IF" /\ h = HIGH) -> p[h][b] \cup {0}
    [] where = "TIMER" /\ h = LOW -> IoByte
    [] OTHER -> p[h][b]
ByteStored(p, a, v) ==
  LET h == a \div 2 + 1
      b == (a % 2) + 1
  IN  IF where = "POSTFLG" /\ a = 1 THEN p
      ELSE [HalfStored(p, h, [k \in 1..2 |-> v]) EXCEPT ![h][3 - b] = Lost(p, h, 3 - b)]

(* The values the timer may count from when it starts.                     *)
Reloads(p) == {<<x, y>> : x \in p[LOW][1], y \in p[LOW][2]}

StoreTo(r, p) ==
  /\ IsRegister
  /\ io' = r.io /\ counter' = r.counter
  /\ stored' = p
  /\ from' = IF io[HIGH][1] = 0 /\ io'[HIGH][1] # 0 THEN Reloads(p) ELSE from
  /\ UNCHANGED <<where, ramVars, stores>>

Registers == [io |-> io, counter |-> counter]
StoreIo8(a, v) == StoreTo(write_io8(Registers, a, v), ByteStored(stored, a, v))
StoreIo16(h, v) == StoreTo(write_io16(Registers, h, v), HalfStored(stored, h, v))
StoreIo32(v) ==
  StoreTo(WriteIo32(Registers, v),
          HalfStored(HalfStored(stored, LOW, SubSeq(v, 1, 2)), HIGH, SubSeq(v, 3, 4)))

(* The machine is started again; a cartridge keeps its bytes.              *)
PowerCycle ==
  /\ ~IsRegister
  /\ stores' = 0
  /\ IF where = "sram" THEN UNCHANGED <<mem, found>>
     ELSE mem' = Blank /\ found' = [i \in DOMAIN mem |-> {mem'[i]}]
  /\ bios_latch' = <<0, 0, 0, 0>> /\ in_bios' = FALSE
  /\ UNCHANGED <<where, ioVars>>

Next ==
  \/ PowerCycle
  \/ \E a \in Address, v \in {Word, Half, Byte8} : Store(a, v)
  \/ EnterOrLeave
  \/ \E a \in Address : FetchBios(a)
  \/ \E a \in 0..3, v \in IoByte : StoreIo8(a, v)
  \/ \E h \in {LOW, HIGH}, v \in IoHalves : StoreIo16(h, v)
  \/ \E v \in IoWords : StoreIo32(v)

Spec == Init /\ [][Next]_memoryVars
-----------------------------------------------------------------------------
(* A load of any width, at any mirror and alignment, gives the bytes that  *)
(* the loads of the other widths give, and those that the stores of all    *)
(* widths before it have left there: no store reaches a byte that is not   *)
(* its own or the other of a byte's halfword, and none is lost but where   *)
(* the bus is too narrow for it (bus/mod.rs, the comments of write8).      *)
LoadsSeeStores ==
  ~IsRegister =>
    /\ \A i \in DOMAIN mem : mem[i] \in found[i]
    /\ \A a \in Address :
         LET b == Aligned(a, 2)
             c == Aligned(a, 4)
         IN  IF where = "sram"
             THEN read32(a) = read16(c) \o read16(c) /\ read16(a) = read8(b) \o read8(b)
             ELSE read32(a) = read16(c) \o read16(c + 2) /\ read16(a) = read8(b) \o read8(b + 1)
    /\ \A a \in Address : read8(a) = read8(a + Window)
    /\ where = "bios" /\ ~in_bios => \A a \in Address : read32(a) = bios_latch

(* A half holds the bytes last stored to it, whatever widths they came in, *)
(* and what the hardware alone may set stays; a reference point is the     *)
(* signed number of its two halves, if the guest leaves the unused bit     *)
(* clear; and a timer that a word starts counts from the reload of that    *)
(* word (write_io8, write_io16, write32).                                  *)
Signed(h) == IF Joined(h) % Unused >= Unused \div 2 THEN (Joined(h) % Unused) + Unused ELSE Joined(h) % Unused
HalvesKept ==
  IsRegister =>
    /\ where # "BG_REF" => \A h \in {LOW, HIGH}, b \in 1..2 : io[h][b] \in stored[h][b]
    /\ where = "BG_REF" =>
         \E w, x, y, z \in IoByte :
           /\ w \in stored[LOW][1] /\ x \in stored[LOW][2]
           /\ y \in stored[HIGH][1] /\ z \in stored[HIGH][2]
           /\ z < BYTE \div 2 => Joined(io) = Signed(<< <<w, x>>, <<y, z>> >>)
    /\ where = "TIMER" => counter \in from
=============================================================================
