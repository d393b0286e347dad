-------------------------------- MODULE Bus --------------------------------
(***************************************************************************)
(* All that the guest reaches by loads, stores and service calls, but the  *)
(* devices of Machine, Timers, Dma and Apu: the memories, the cartridge's  *)
(* chips, and the services of the BIOS, which are loads and stores, too.   *)
(* None of the three has state in common with another, so that a guest     *)
(* that uses one of them at a time shows all that can go wrong.            *)
(***************************************************************************)
EXTENDS Cartridge

CONSTANTS
  SIZE, VWINDOW, BITMAP, OddBytes, Word, Half, Byte8, MaxStores, BYTE, IoHalves, IoWords,
  RAM, Fillings, LzStreams, RlStreams, Units, WORD, Widths, ROUND, LIMIT

(* Whole words fit the RAMs, and VRAM's window has quarters of them; a     *)
(* byte has bits.                                                          *)
ASSUME BusAssumption ==
  /\ SIZE \in Nat \ {0} /\ SIZE % 4 = 0
  /\ VWINDOW \in Nat \ {0} /\ VWINDOW % 16 = 0 /\ BITMAP \in BOOLEAN /\ OddBytes \in BOOLEAN
  /\ Word \in [1..4 -> Nat] /\ Half \in [1..2 -> Nat] /\ Byte8 \in [1..1 -> Nat]
  /\ BYTE \in Nat \ {0} /\ BYTE % 2 = 0
  /\ IoHalves \subseteq [1..2 -> 0..(BYTE - 1)] /\ IoWords \subseteq [1..4 -> 0..(BYTE - 1)]
  /\ LIMIT \in Nat

VARIABLES
  use,     \* the part that the guest of this behaviour uses
  where, mem, found, bios_latch, in_bios, io, counter, stored, from, stores,
  ram, regs, due, called

M == INSTANCE Memory
S == INSTANCE Services

(* A stream is made of tokens whose references are to bytes that it stands *)
(* for itself; the units of a word fill it.                                *)
Tokens ==
  [bytes : Seq(Nat)] \cup [byte : Nat, length : Nat] \cup [length : Nat, offset : Nat \ {0}]
ASSUME ServicesAssumption ==
  /\ RAM \in Nat /\ Fillings \subseteq [0..(RAM - 1) -> Nat]
  /\ LzStreams \subseteq Seq(Tokens) /\ RlStreams \subseteq Seq(Tokens)
  /\ \A s \in LzStreams \cup RlStreams : \A k \in 1..Len(s) :
       "offset" \in DOMAIN s[k] => s[k].offset <= S!Begins(s)[k - 1]
  /\ Units \subseteq Seq(Nat) /\ ROUND \in Nat \ {0}
  /\ WORD \in Nat \ {0} /\ \A w \in Widths : w \in Nat \ {0} /\ WORD % w = 0

memoryVars == <<where, mem, found, bios_latch, in_bios, io, counter, stored, from, stores>>
serviceVars == <<ram, regs, due, called>>
busVars == <<use, cartVars, memoryVars, serviceVars>>

Init1 == M!Init /\ (use # "memory" => where = "ewram")
Init2 == S!Init /\ (use # "services" => ram = CHOOSE m \in Fillings : TRUE)

BusInit ==
  /\ use \in {"cartridge", "memory", "services"}
  /\ CartInit /\ (use # "cartridge" => rom = CHOOSE r \in Roms : TRUE)
  /\ Init1 /\ Init2

UseCartridge == use = "cartridge" /\ CartNext /\ UNCHANGED <<use, memoryVars, serviceVars>>
UseMemory == use = "memory" /\ M!Next /\ UNCHANGED <<use, cartVars, serviceVars>>
UseServices == use = "services" /\ S!Next /\ UNCHANGED <<use, cartVars, memoryVars>>

BusNext == UseCartridge \/ UseMemory \/ UseServices

BusSpec == BusInit /\ [][BusNext]_busVars
-----------------------------------------------------------------------------
(* A load of any width, at any mirror and alignment, gives the bytes that  *)
(* the stores of all widths before it have left there (bus/mod.rs).        *)
LoadsSeeStores == use = "memory" => M!LoadsSeeStores

(* The halves of the I/O registers hold what was last stored to them in    *)
(* bytes, halfwords and words; a timer that a word starts counts from the  *)
(* reload of that word (bus/mod.rs, write_io8 and write32).                *)
HalvesKept == use = "memory" => M!HalvesKept

(* Decompression, unpacking and copying leave what they were asked for     *)
(* where they were asked to, and nothing elsewhere (bios.rs).              *)
Unpacked == use = "services" => S!Unpacked

(* Div and DivArm round towards zero (bios.rs, swi_div).                   *)
DivRight == use = "services" => S!DivRight
=============================================================================
