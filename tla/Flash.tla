------------------------------- MODULE Flash -------------------------------
(***************************************************************************)
(* The flash chip of a cartridge (gba-core/src/backup/flash.rs): the state *)
(* machine that Flash::write steps at every byte the guest stores to       *)
(* 0x0E000000, and Flash::read.  The guest's save library sends commands   *)
(* of several writes; the guest may be restarted in the middle of one      *)
(* (SoftReset does not touch the chip), or store to the region without     *)
(* meaning the chip.                                                       *)
(*                                                                         *)
(* A byte is the set of its bits that are 1, so that & is \cap.  The trace *)
(* log and busy_cycles, which only a debugging experiment reads, are left  *)
(* out.                                                                    *)
(***************************************************************************)
EXTENDS Integers, Sequences

CONSTANTS
  Offset,       \* bound: the offsets in a bank that are used
  Programs,     \* bound: the <<offset, byte>> pairs the guest programs
  Strays,       \* bound: the <<offset, byte>> pairs of stray stores
  Manufacturer, \* reported_id.0
  Device        \* reported_id.1

Byte == SUBSET (0..7)
ADDR1 == 21845  \* 0x5555
ADDR2 == 10922  \* 0x2AAA
BankSize == 65536

ASSUME FlashAssumption ==
  /\ {0, ADDR1, ADDR2} \subseteq Offset /\ Offset \subseteq 0..(BankSize - 1)
  /\ Programs \subseteq Offset \X Byte /\ Strays \subseteq Offset \X Byte
  /\ Manufacturer \in Byte /\ Device \in Byte

VARIABLES
  state,    \* FlashState
  bank,     \* selected bank
  banks,    \* 1: 64 KB, 2: 128 KB
  data,     \* the bytes of each bank
  command,  \* the command the save library sends, or sent last
  todo,     \* the writes of it that are left
  settled,  \* history: a whole command was sent since something went astray
  want      \* history: at most one: what is due when the command is over

chipVars == <<state, bank, banks, data>>
vars == <<chipVars, command, todo, settled, want>>

(* Bytes with a meaning. *)
xFF == 0..7
xAA == {1, 3, 5, 7}
x55 == {0, 2, 4, 6}
READ_ID == {4, 7}         \* 0x90
EXIT_ID == {4, 5, 6, 7}   \* 0xF0
ERASE == {7}              \* 0x80
PROGRAM == {5, 7}         \* 0xA0
SELECT_BANK == {4, 5, 7}  \* 0xB0
ERASE_CHIP == {4}         \* 0x10
ERASE_SECTOR == {4, 5}    \* 0x30

Blank == [o \in Offset |-> xFF]
Sector(o) == o \div 4096
-----------------------------------------------------------------------------
(* Flash::write, and what it does to the state, the data and the bank.     *)
Unlock1(o, v) == o = ADDR1 /\ v = xAA
Unlock2(o, v) == o = ADDR2 /\ v = x55

\* Mutant: a 64 KB chip selects banks, too.
AfterCommand_AnySize(v) ==
  CASE v = READ_ID     -> "ChipId"
    [] v = ERASE       -> "PrepareErase"
    [] v = PROGRAM     -> "WriteByte"
    [] v = SELECT_BANK -> "BankSwitch"
    [] OTHER           -> "Ready"
AfterCommand(v) ==
  CASE v = READ_ID                  -> "ChipId"
    [] v = ERASE                    -> "PrepareErase"
    [] v = PROGRAM                  -> "WriteByte"
    [] v = SELECT_BANK /\ banks = 2 -> "BankSwitch"
    [] OTHER                        -> "Ready"

\* Mutant: an erase goes on waiting for its last write.
NextState_EraseWaits(o, v) ==
  CASE state \in {"Ready", "ChipId"} /\ Unlock1(o, v) -> "Cmd1"
    [] state = "ChipId" /\ ~Unlock1(o, v) /\ v # EXIT_ID -> "ChipId"
    [] state = "Cmd1" /\ Unlock2(o, v) -> "Cmd2"
    [] state = "Cmd2" /\ o = ADDR1 -> AfterCommand(v)
    [] state = "PrepareErase" /\ Unlock1(o, v) -> "Erase1"
    [] state = "Erase1" /\ Unlock2(o, v) -> "Erase2"
    [] state = "Erase2" /\ v \notin {ERASE_CHIP, ERASE_SECTOR} -> "Erase2"
    [] OTHER -> "Ready"
NextState(o, v) ==
  CASE state \in {"Ready", "ChipId"} /\ Unlock1(o, v) -> "Cmd1"
    [] state = "ChipId" /\ ~Unlock1(o, v) /\ v # EXIT_ID -> "ChipId"
    [] state = "Cmd1" /\ Unlock2(o, v) -> "Cmd2"
    [] state = "Cmd2" /\ o = ADDR1 -> AfterCommand(v)
    [] state = "PrepareErase" /\ Unlock1(o, v) -> "Erase1"
    [] state = "Erase1" /\ Unlock2(o, v) -> "Erase2"
    [] OTHER -> "Ready"

\* Mutant: the sector of the first bank is erased.
Erased_Bank0(o) == [data EXCEPT ![0] =
  [p \in Offset |-> IF Sector(p) = Sector(o) THEN xFF ELSE data[0][p]]]
Erased(o) == [data EXCEPT ![bank] =
  [p \in Offset |-> IF Sector(p) = Sector(o) THEN xFF ELSE data[bank][p]]]

\* Mutant: a byte is programmed without an erase.
Programmed_Set(o, v) == [data EXCEPT ![bank][o] = v]
Programmed(o, v) == [data EXCEPT ![bank][o] = @ \cap v]

AllBlank == [b \in 0..(banks - 1) |-> Blank]

NextData(o, v) ==
  CASE state = "Erase2" /\ o = ADDR1 /\ v = ERASE_CHIP -> AllBlank
    [] state = "Erase2" /\ v = ERASE_SECTOR -> Erased(o)
    [] state = "WriteByte" -> Programmed(o, v)
    [] OTHER -> data

NextBank(o, v) ==
  IF state = "BankSwitch" /\ o = 0 THEN (IF 0 \in v THEN 1 ELSE 0) ELSE bank

Write(o, v) ==
  /\ state' = NextState(o, v) /\ data' = NextData(o, v) /\ bank' = NextBank(o, v)
  /\ UNCHANGED banks

(* Flash::read *)
IdByte(o) == CASE o = 0 -> Manufacturer [] o = 1 -> Device [] OTHER -> {}
Read(o) == IF state = "ChipId" THEN IdByte(o) ELSE data[bank][o]
-----------------------------------------------------------------------------
(* The save library: its commands, the writes each is made of, and what    *)
(* the command is to leave in the chip.                                    *)
Command ==
  [op : {"program"}, at : Programs] \cup [op : {"erase_sector"}, at : Programs]
    \cup [op : {"erase_chip", "enter_id", "leave_id"}]
    \cup [op : {"select_bank"}, to : {0, 1}]

Writes(c) ==
  LET u1 == <<ADDR1, xAA>>  u2 == <<ADDR2, x55>>  code(v) == <<ADDR1, v>>
  IN  CASE c.op = "program"      -> <<u1, u2, code(PROGRAM), c.at>>
        [] c.op = "erase_sector" -> <<u1, u2, code(ERASE), u1, u2, <<c.at[1], ERASE_SECTOR>> >>
        [] c.op = "erase_chip"   -> <<u1, u2, code(ERASE), u1, u2, code(ERASE_CHIP)>>
        [] c.op = "enter_id"     -> <<u1, u2, code(READ_ID)>>
        [] c.op = "leave_id"     -> <<u1, u2, code(EXIT_ID)>>
        [] c.op = "select_bank"  -> <<u1, u2, code(SELECT_BANK), <<0, IF c.to = 1 THEN {0} ELSE {}>> >>

Promise(c) ==
  [bank |-> IF c.op = "select_bank" /\ banks = 2 THEN c.to ELSE bank,
   data |-> [b \in 0..(banks - 1) |-> [o \in Offset |->
     CASE c.op = "program" /\ b = bank /\ o = c.at[1] -> data[b][o] \cap c.at[2]
       [] c.op = "erase_sector" /\ b = bank /\ Sector(o) = Sector(c.at[1]) -> xFF
       [] c.op = "erase_chip" -> xFF
       [] OTHER -> data[b][o]]]]

Idle == todo = <<>>

Init ==
  /\ state = "Ready" /\ bank = 0 /\ banks \in {1, 2}
  /\ data = AllBlank
  /\ command = [op |-> "leave_id"] /\ todo = <<>>
  /\ settled = TRUE /\ want = {}

Begin(c) ==
  /\ Idle
  /\ command' = c /\ todo' = Writes(c)
  /\ want' = IF settled THEN {Promise(c)} ELSE {}
  /\ UNCHANGED <<chipVars, settled>>

(* A library out of step with the chip is in step again after one command, *)
(* but for one that ends like the beginning of another.                    *)
EndsLikeUnlock(c) == c.op = "program" /\ c.at = <<ADDR1, xAA>>
Send ==
  /\ ~Idle
  /\ Write(Head(todo)[1], Head(todo)[2])
  /\ todo' = Tail(todo)
  /\ settled' = (settled \/ (todo' = <<>> /\ ~EndsLikeUnlock(command)))
  /\ UNCHANGED <<command, want>>

GoAstray == todo' = <<>> /\ settled' = FALSE /\ want' = {} /\ UNCHANGED command
SoftReset == GoAstray /\ UNCHANGED chipVars
Stray(o, v) == Idle /\ Write(o, v) /\ GoAstray

(* The emulator is closed and opened again: the data go through a file to  *)
(* a new chip (Gba::import_save, Flash::new_with_rom).                     *)
PowerCycle ==
  /\ state' = "Ready" /\ bank' = 0
  /\ todo' = <<>> /\ settled' = TRUE /\ want' = {}
  /\ UNCHANGED <<banks, data, command>>

Next ==
  \/ \E c \in Command : Begin(c)
  \/ Send
  \/ SoftReset
  \/ \E w \in Strays : Stray(w[1], w[2])
  \/ PowerCycle

Spec == Init /\ [][Next]_vars
-----------------------------------------------------------------------------
(* A command that a library in step with the chip sends does what it       *)
(* promises and nothing else, and after it the guest reads the selected    *)
(* bank, or the chip's id if that is what it asked for (the protocol at    *)
(* the head of flash.rs).                                                  *)
CommandTakesEffect ==
  Idle => \A w \in want :
    /\ data = w.data /\ bank = w.bank
    /\ \A o \in Offset :
         Read(o) = IF command.op = "enter_id" THEN IdByte(o) ELSE w.data[w.bank][o]

(* Whichever command a restarted guest left unfinished, and whatever       *)
(* stores strayed into the chip, after the next whole command the chip     *)
(* waits for a new one.                                                    *)
SequenceRecovers == Idle /\ settled => state \in {"Ready", "ChipId"}

(* "Flash write can only clear bits" (flash.rs): no sequence of stores     *)
(* gets a bit back but by the erasure of its whole sector.                 *)
ErasedInSectors ==
  [][\A b \in 0..(banks - 1) : \A o, p \in Offset :
       ~(data'[b][o] \subseteq data[b][o]) /\ Sector(p) = Sector(o) => data'[b][p] = xFF]_vars
=============================================================================
