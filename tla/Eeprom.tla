------------------------------- MODULE Eeprom -------------------------------
(***************************************************************************)
(* The EEPROM of a cartridge (gba-core/src/backup/eeprom.rs): a serial     *)
(* machine that takes one bit per write and gives one per read, and that   *)
(* has to guess its own size.  The guest's save library drives it by DMA   *)
(* (Bus::run_dma tells the chip the length of a command), and may be       *)
(* restarted between two transfers; the frontend exports the data and      *)
(* imports them into a new chip at the next start.                         *)
(*                                                                         *)
(* Widths are parameters.  bit_buf is the sequence of the bits it holds,   *)
(* so that bits_in is its length; read_buf with read_bits_left is the      *)
(* sequence of the bits still to be read.                                  *)
(***************************************************************************)
EXTENDS Integers, Sequences, SequencesExt

CONSTANTS
  SMALL, LARGE, \* address bits: 6, 14
  SMALL_BLOCKS, LARGE_BLOCKS, \* blocks: 512 bytes, 8 KB
  BITS,         \* data bits of a block: 64
  DUMMIES,      \* bits before the data: 4
  Contents      \* bound: the blocks the guest writes, sequences of BITS bits

VARIABLES
  chip,     \* data, state, size, addr_width, cmd, bit_buf, address, out
  width,    \* the address bits of the chip the game was made for
  library,  \* what the save library is doing
  inStep,   \* history: no read was broken off since the last one that was not
  saved     \* history: what each block may hold

eepromVars == <<chip, width, library, inStep, saved>>

Ones == [i \in 1..BITS |-> 1]
Fresh(n) == [b \in 0..(n - 1) |-> Ones]

(* Data resized to n blocks.                                               *)
Resized(data, n) == [b \in 0..(n - 1) |-> IF b \in DOMAIN data THEN data[b] ELSE Ones]

NewChip ==
  [data |-> Fresh(LARGE_BLOCKS), state |-> "Idle", size |-> "Unknown", addr_width |-> 0,
   cmd |-> <<0, 0>>, bit_buf |-> <<>>, address |-> 0, out |-> <<>>]

READ == <<1, 1>>
WRITE == <<1, 0>>
-----------------------------------------------------------------------------
AsSmall(c) ==
  [c EXCEPT !.size = "Small", !.addr_width = SMALL, !.data = Resized(@, SMALL_BLOCKS)]
AsLarge(c) == [c EXCEPT !.size = "Large", !.addr_width = LARGE]

effective_addr_width(c) ==
  CASE c.size = "Small" -> SMALL
    [] c.size = "Large" -> LARGE
    [] OTHER -> IF c.addr_width > 0 THEN c.addr_width ELSE LARGE

\* Mutant: the length of a write command counts without its dummy bit.
set_addr_width_from_dma_NoDummy(c, count) ==
  CASE c.size # "Unknown" -> c
    [] c.size = "Unknown" /\ count \in {3 + SMALL, 2 + SMALL + BITS} -> AsSmall(c)
    [] c.size = "Unknown" /\ count \in {3 + LARGE, 2 + LARGE + BITS} -> AsLarge(c)
    [] OTHER -> c
set_addr_width_from_dma(c, count) ==
  CASE c.size # "Unknown" -> c
    [] c.size = "Unknown" /\ count \in {3 + SMALL, 3 + SMALL + BITS} -> AsSmall(c)
    [] c.size = "Unknown" /\ count \in {3 + LARGE, 3 + LARGE + BITS} -> AsLarge(c)
    [] OTHER -> c

Number(bits) == FoldLeft(LAMBDA n, b : 2 * n + b, 0, bits)

TakeAddressBit(c, bits) ==
  LET d == IF c.size # "Unknown" THEN c
           ELSE IF Len(bits) <= SMALL THEN AsSmall(c) ELSE AsLarge(c)
  IN  IF Len(bits) < effective_addr_width(c) THEN [c EXCEPT !.bit_buf = bits]
      ELSE [d EXCEPT !.address = Number(bits), !.bit_buf = <<>>, !.state = "Data"]

begin_read(c) ==
  LET block == IF c.address \in DOMAIN c.data THEN c.data[c.address] ELSE Ones
  IN  [c EXCEPT !.out = [i \in 1..DUMMIES |-> 0] \o block, !.state = "ReadOut"]

store_data(c, bits) ==
  IF c.address \in DOMAIN c.data THEN [c EXCEPT !.data[c.address] = bits] ELSE c

TakeDataBit(c, bits) ==
  CASE Len(bits) < BITS -> [c EXCEPT !.bit_buf = bits]
    [] Len(bits) = BITS -> [store_data(c, bits) EXCEPT !.bit_buf = bits]
    [] OTHER            -> [c EXCEPT !.bit_buf = <<>>, !.state = "WriteDone"]

\* Mutant: the trailing bit of a write is not waited for.
TakeBit_NoTrailer(c, bit) ==
  LET bits == Append(c.bit_buf, bit)
  IN  CASE c.state \in {"Idle", "WriteDone"} ->
             [c EXCEPT !.bit_buf = <<bit>>, !.state = "CmdType"]
        [] c.state = "CmdType" ->
             [c EXCEPT !.cmd = bits, !.bit_buf = <<>>,
                       !.state = IF bits \in {READ, WRITE} THEN "Address" ELSE "Idle"]
        [] c.state = "Address" -> TakeAddressBit(c, bits)
        [] c.state = "Data" /\ c.cmd = READ -> begin_read(c)
        [] c.state = "Data" /\ c.cmd = WRITE ->
             IF Len(bits) < BITS THEN TakeDataBit(c, bits)
             ELSE [store_data(c, bits) EXCEPT !.bit_buf = <<>>, !.state = "WriteDone"]
        [] c.state = "ReadOut" -> c
(* Eeprom::write.                                                          *)
TakeBit(c, bit) ==
  LET bits == Append(c.bit_buf, bit)
  IN  CASE c.state \in {"Idle", "WriteDone"} ->
             [c EXCEPT !.bit_buf = <<bit>>, !.state = "CmdType"]
        [] c.state = "CmdType" ->
             [c EXCEPT !.cmd = bits, !.bit_buf = <<>>,
                       !.state = IF bits \in {READ, WRITE} THEN "Address" ELSE "Idle"]
        [] c.state = "Address" -> TakeAddressBit(c, bits)
        [] c.state = "Data" /\ c.cmd = READ -> begin_read(c)
        [] c.state = "Data" /\ c.cmd = WRITE -> TakeDataBit(c, bits)
        [] c.state = "ReadOut" -> c

(* read_bit: the bit, and the chip after it.                               *)
ReadBit(c) == IF c.state = "ReadOut" THEN Head(c.out) ELSE 1
AfterRead(c) ==
  IF c.state # "ReadOut" THEN c
  ELSE [c EXCEPT !.out = Tail(@), !.state = IF Len(c.out) = 1 THEN "Idle" ELSE @]

(* Gba::import_save of exported data into the chip of a new machine.       *)
import_save(c, data) ==
  [c EXCEPT !.data = [b \in DOMAIN @ |-> IF b \in DOMAIN data THEN data[b] ELSE @[b]]]
-----------------------------------------------------------------------------
(* Bus::run_dma to the chip: it learns the length, then gets the bits.     *)
DmaTo(c, bits) ==
  LET after[k \in 0..Len(bits)] ==
        IF k = 0 THEN set_addr_width_from_dma(c, Len(bits)) ELSE TakeBit(after[k - 1], bits[k])
  IN  after[Len(bits)]

(* ... and from the chip: the bits, and the chip after them.               *)
DmaFrom(c, n) ==
  LET after[k \in 0..n] ==
        IF k = 0 THEN [bits |-> <<>>, c |-> c]
        ELSE [bits |-> Append(after[k - 1].bits, ReadBit(after[k - 1].c)), c |-> AfterRead(after[k - 1].c)]
  IN  after[n]

(* The addresses the library can send, and those that have a block.        *)
AddressBits == [1..width -> {0, 1}]
Address == {Number(bits) : bits \in AddressBits}
Blocks == Address \cap (0..((IF width = SMALL THEN SMALL_BLOCKS ELSE LARGE_BLOCKS) - 1))

Init ==
  /\ chip = NewChip /\ width \in {SMALL, LARGE}
  /\ library = [doing |-> "nothing"]
  /\ inStep = TRUE
  /\ saved = [a \in Blocks |-> {Ones}]

Free == library.doing # "asked"

WriteBlock(bits, d) ==
  /\ Free
  /\ chip' = DmaTo(chip, WRITE \o bits \o d \o <<0>>)
  /\ saved' = [b \in Blocks |->
       IF Number(bits) # b THEN saved[b] ELSE IF inStep THEN {d} ELSE saved[b] \cup {d}]
  /\ library' = [doing |-> "wrote"]
  /\ UNCHANGED <<width, inStep>>

(* The library polls until it reads a 1.                                   *)
Poll ==
  /\ library.doing = "wrote"
  /\ chip' = AfterRead(chip)
  /\ library' = IF ReadBit(chip) = 1 THEN [doing |-> "nothing"] ELSE library
  /\ UNCHANGED <<width, inStep, saved>>

AskBlock(bits) ==
  /\ Free
  /\ chip' = DmaTo(chip, READ \o bits \o <<0>>)
  /\ library' = [doing |-> "asked", address |-> Number(bits), fresh |-> inStep]
  /\ UNCHANGED <<width, inStep, saved>>

ReadBack ==
  /\ library.doing = "asked"
  /\ LET r == DmaFrom(chip, DUMMIES + BITS)
     IN  /\ chip' = r.c
         /\ library' = [doing |-> "got", address |-> library.address, fresh |-> library.fresh,
                        bits |-> r.bits]
  /\ inStep' = TRUE
  /\ UNCHANGED <<width, saved>>

(* A restarted guest does not fetch what it asked for.                     *)
Restart ==
  /\ library' = [doing |-> "nothing"]
  /\ inStep' = (inStep /\ Free)
  /\ UNCHANGED <<chip, width, saved>>

(* The emulator is closed and opened again: the save goes through a file.  *)
PowerCycle ==
  /\ chip' = import_save(NewChip, chip.data)
  /\ library' = [doing |-> "nothing"]
  /\ inStep' = TRUE
  /\ UNCHANGED <<width, saved>>

Next ==
  \/ \E bits \in AddressBits : AskBlock(bits) \/ \E d \in Contents : WriteBlock(bits, d)
  \/ Poll \/ ReadBack \/ Restart \/ PowerCycle

Spec == Init /\ [][Next]_eepromVars
-----------------------------------------------------------------------------
(* The chip is an array of blocks: what was last written to a block in     *)
(* step with the chip is there, whatever the chip knew of its size then,   *)
(* however the save went through files since, and whatever was written     *)
(* elsewhere; a command sent while the chip was still reading out is       *)
(* carried out or lost, but damages nothing.                               *)
BlocksKept == \A a \in Blocks : a \in DOMAIN chip.data /\ chip.data[a] \in saved[a]

(* A block that is asked for in step with the chip comes back behind the   *)
(* dummy bits, and after any whole read, even one that finds the rest of a *)
(* read that was broken off, the chip is ready for a command.              *)
ReadsBack ==
  library.doing = "got" =>
    /\ chip.state \in {"Idle", "WriteDone"}
    /\ library.fresh =>
         \E block \in (IF library.address \in Blocks THEN saved[library.address] ELSE {Ones}) :
           library.bits = [i \in 1..DUMMIES |-> 0] \o block
=============================================================================
