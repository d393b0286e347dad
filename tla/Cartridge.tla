----------------------------- MODULE Cartridge -----------------------------
(***************************************************************************)
(* What a game finds behind the ROM: the backup chip that the ROM's        *)
(* signature asks for (gba-core/src/backup/mod.rs) and, beside it, the     *)
(* real-time clock if there is one (Rtc::detect).  The chips are those of  *)
(* Flash, Eeprom and Rtc, and SRAM, which is an array; all of them live    *)
(* through restarts of the guest and through the save file.                *)
(***************************************************************************)
EXTENDS Flash

CONSTANTS
  Roms,           \* bound: the signatures the ROMs hold, a set of sets
  SRAM_SIZE, SramBytes,
  SMALL, LARGE, SMALL_BLOCKS, LARGE_BLOCKS, BITS, DUMMIES, Contents,
  Clocks, Transactions, MaxRestarts

(* The lengths of the commands of a small EEPROM are not those of a large  *)
(* one: 9 and 73, 17 and 81 (eeprom.rs, set_addr_width_from_dma).          *)
ASSUME EepromAssumption ==
  /\ SMALL \in Nat \ {0} /\ LARGE \in Nat /\ SMALL < LARGE /\ LARGE # SMALL + BITS
  /\ SMALL_BLOCKS \in Nat /\ LARGE_BLOCKS \in Nat /\ SMALL_BLOCKS <= LARGE_BLOCKS
  /\ BITS \in Nat \ {0} /\ DUMMIES \in Nat
  /\ Contents \subseteq [1..BITS -> {0, 1}]

VARIABLES
  rom,      \* the signatures in this ROM
  sram,     \* Sram::data
  eeprom, width, eepromLibrary, inStep, saved,
  gpio, rtc, clock, rtcLibrary, got, since, allowed, restarts

E == INSTANCE Eeprom WITH chip <- eeprom, library <- eepromLibrary
R == INSTANCE Rtc WITH chip <- rtc, library <- rtcLibrary

(* Time is counted in whole seconds, and the guest knows the protocol.     *)
ASSUME RtcAssumption == Clocks \subseteq Int /\ Transactions \subseteq R!Transaction

eepromVars == <<eeprom, width, eepromLibrary, inStep, saved>>
rtcVars == <<gpio, rtc, clock, rtcLibrary, got, since, allowed, restarts>>
cartVars == <<vars, rom, sram, eepromVars, rtcVars>>

(* Signatures are looked for in this order.                                *)
detect_backup_type(r) ==
  IF r \cap {"SRAM_V", "SRAM_F_V"} # {} THEN "Sram"
  ELSE IF "FLASH1M_V" \in r THEN "Flash128"
  ELSE IF r \cap {"FLASH_V", "FLASH512_V"} # {} THEN "Flash64"
  ELSE IF "EEPROM_V" \in r THEN "Eeprom" ELSE "None"

Chip == detect_backup_type(rom)
HasFlash == Chip \in {"Flash64", "Flash128"}
HasRtc == "SIIRTC_V" \in rom
-----------------------------------------------------------------------------
NewSram == [a \in 0..(SRAM_SIZE - 1) |-> xFF]

(* The runs that do not use a chip need not choose its inputs.             *)
CartInit ==
  /\ rom \in Roms
  /\ Init /\ banks = (IF Chip = "Flash128" THEN 2 ELSE 1)
  /\ sram = NewSram
  /\ E!Init /\ (Chip # "Eeprom" => width = SMALL)
  /\ R!Init /\ (~HasRtc => \A t \in Clocks : clock <= t)

FlashIdle == UNCHANGED vars
SramIdle == UNCHANGED sram
EepromIdle == UNCHANGED eepromVars
RtcIdle == UNCHANGED rtcVars

(* A byte the guest stores to the SRAM region, which mirrors the chip.     *)
WriteSram(a, v) ==
  /\ Chip = "Sram"
  /\ sram' = [sram EXCEPT ![a % SRAM_SIZE] = v]
  /\ UNCHANGED rom /\ FlashIdle /\ EepromIdle /\ RtcIdle

UseFlash == HasFlash /\ Next /\ UNCHANGED rom /\ SramIdle /\ EepromIdle /\ RtcIdle
UseEeprom == Chip = "Eeprom" /\ E!Next /\ UNCHANGED rom /\ FlashIdle /\ SramIdle /\ RtcIdle
UseRtc == HasRtc /\ R!Next /\ UNCHANGED rom /\ FlashIdle /\ SramIdle /\ EepromIdle

CartNext ==
  \/ UseFlash \/ UseEeprom \/ UseRtc
  \/ \E a \in 0..(2 * SRAM_SIZE - 1), v \in SramBytes : WriteSram(a, v)

CartSpec == CartInit /\ [][CartNext]_cartVars
-----------------------------------------------------------------------------
(* What the guest last wrote to a block of the EEPROM, it finds: through   *)
(* the detection of its size, through save files, and next to commands     *)
(* that were lost because a read had been broken off (eeprom.rs).          *)
BlocksKept == Chip = "Eeprom" => E!BlocksKept

(* A block asked for in step with the EEPROM comes back whole, and a whole *)
(* read brings any library back in step (eeprom.rs, read_bit).             *)
ReadsBack == Chip = "Eeprom" => E!ReadsBack

(* A transaction with the clock gets an answer that was right at one       *)
(* instant, whatever was broken off before it (rtc.rs, pin_update).        *)
ReadsOneInstant == HasRtc => R!ReadsOneInstant

(* The clock's dates follow each other as in the calendar (days_to_ymd).   *)
DaysInOrder == R!DaysInOrder
CalendarRight == clock >= 0 => DaysInOrder
=============================================================================
