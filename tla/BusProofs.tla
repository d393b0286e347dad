----------------------------- MODULE BusProofs -----------------------------
(***************************************************************************)
(* What the guest finds where it stored: in the flash chip, in memories of *)
(* any size, in the registers and in the EEPROM.                           *)
(***************************************************************************)
EXTENDS Bus, Numbers, SequenceTheorems

(***************************************************************************)
(* The flash chip: what it never does, for every set of offsets and every  *)
(* byte.                                                                   *)
(***************************************************************************)
(* The array has its shape and the selected bank exists. *)
Inv ==
  /\ banks \in {1, 2} /\ bank \in 0..(banks - 1)
  /\ data \in [0..(banks - 1) -> [Offset -> Byte]]
  /\ state = "BankSwitch" => banks = 2

(* A new chip. *)
LEMMA InitInv == Init => Inv
  BY SMTT(40) DEF Init, Inv, AllBlank, Blank, xFF, Byte

(* One store: its effect on the data is one of four. *)
LEMMA DataEffect ==
  ASSUME NEW o, NEW v
  PROVE  \/ NextData(o, v) = AllBlank
         \/ NextData(o, v) = Erased(o)
         \/ NextData(o, v) = Programmed(o, v)
         \/ NextData(o, v) = data
<1>1. CASE state = "Erase2" /\ o = ADDR1 /\ v = ERASE_CHIP
  <2>1. v # ERASE_SECTOR
    BY <1>1 DEF ERASE_CHIP, ERASE_SECTOR
  <2> QED
    BY <1>1, <2>1 DEF NextData
<1>2. CASE state = "Erase2" /\ v = ERASE_SECTOR
  <2>1. v # ERASE_CHIP
    BY <1>2 DEF ERASE_CHIP, ERASE_SECTOR
  <2> QED
    BY <1>2, <2>1 DEF NextData
<1>3. CASE state = "WriteByte"
  BY <1>3 DEF NextData
<1> QED
  BY <1>1, <1>2, <1>3 DEF NextData

(* What an erased sector looks like. *)
LEMMA ErasedEffect ==
  ASSUME Inv, NEW o, NEW b \in 0..(banks - 1), NEW p \in Offset
  PROVE  Erased(o)[b][p] = IF b = bank /\ Sector(p) = Sector(o) THEN xFF ELSE data[b][p]
  BY DEF Erased, Inv

(* What a programmed byte looks like. *)
LEMMA ProgrammedEffect ==
  ASSUME Inv, NEW o, NEW v, NEW b \in 0..(banks - 1), NEW p \in Offset
  PROVE  Programmed(o, v)[b][p] = IF b = bank /\ p = o THEN data[b][p] \cap v ELSE data[b][p]
  BY DEF Programmed, Inv

(* The shape of the array survives a store. *)
LEMMA DataType ==
  ASSUME Inv, NEW o, NEW v
  PROVE  NextData(o, v) \in [0..(banks - 1) -> [Offset -> Byte]]
<1>1. AllBlank \in [0..(banks - 1) -> [Offset -> Byte]]
  BY DEF AllBlank, Blank, xFF, Byte
<1>2. Erased(o) \in [0..(banks - 1) -> [Offset -> Byte]]
  <2>1. [p \in Offset |-> IF Sector(p) = Sector(o) THEN xFF ELSE data[bank][p]]
          \in [Offset -> Byte]
    BY DEF Inv, xFF, Byte
  <2> QED
    BY <2>1 DEF Inv, Erased
<1>3. Programmed(o, v) \in [0..(banks - 1) -> [Offset -> Byte]]
  <2>1. data[bank] \in [Offset -> Byte]
    BY DEF Inv
  <2>2. [data[bank] EXCEPT ![o] = @ \cap v] \in [Offset -> Byte]
    BY <2>1 DEF Byte
  <2> QED
    BY <2>2 DEF Inv, Programmed
<1> QED
  BY <1>1, <1>2, <1>3, DataEffect DEF Inv

(* A store leaves an existing bank selected; on a small chip, the only one. *)
LEMMA WriteInv ==
  ASSUME Inv, NEW o, NEW v, Write(o, v)
  PROVE  Inv'
<1>1. banks' = banks /\ data' = NextData(o, v)
  BY DEF Write
<1>2. data' \in [0..(banks' - 1) -> [Offset -> Byte]]
  BY <1>1, DataType
<1>3. bank' \in 0..(banks' - 1)
  BY <1>1 DEF Write, NextBank, Inv
<1>4. state' = "BankSwitch" => banks' = 2
  <2>1. NextState(o, v) = "BankSwitch" => NextState(o, v) = AfterCommand(v)
    BY Zenon DEF NextState
  <2>2. AfterCommand(v) = "BankSwitch" => banks = 2
    BY Zenon DEF AfterCommand
  <2> QED
    BY <2>1, <2>2, <1>1 DEF Write
<1> QED
  BY <1>1, <1>2, <1>3, <1>4 DEF Inv

(* Every step is a store to the chip, or leaves its data alone and at most *)
(* brings it back to its first state.                                      *)
LEMMA StepIsWrite ==
  ASSUME [Next]_vars
  PROVE  \/ UNCHANGED chipVars
         \/ UNCHANGED <<banks, data>> /\ state' = "Ready" /\ bank' = 0
         \/ \E o, v : Write(o, v)
<1>1. CASE \E c \in Command : Begin(c)
  BY <1>1 DEF Begin
<1>2. CASE Send
  BY <1>2 DEF Send
<1>3. CASE SoftReset
  BY <1>3 DEF SoftReset
<1>4. CASE \E w \in Strays : Stray(w[1], w[2])
  BY <1>4 DEF Stray
<1>5. CASE PowerCycle
  BY <1>5 DEF PowerCycle
<1>6. CASE UNCHANGED vars
  BY <1>6 DEF vars
<1> QED
  BY <1>1, <1>2, <1>3, <1>4, <1>5, <1>6 DEF Next

(* Nothing but a store can change the chip. *)
LEMMA StepInv == Inv /\ [Next]_vars => Inv'
<1> SUFFICES ASSUME Inv, [Next]_vars PROVE Inv'
  OBVIOUS
<1>1. CASE UNCHANGED chipVars
  BY <1>1 DEF chipVars, Inv
<1>2. CASE \E o, v : Write(o, v)
  BY <1>2, WriteInv
<1>3. CASE UNCHANGED <<banks, data>> /\ state' = "Ready" /\ bank' = 0
  BY <1>3 DEF Inv
<1> QED
  BY <1>1, <1>2, <1>3, StepIsWrite

(* No sequence of stores, by whatever program, gets a bit of a byte back   *)
(* without erasing the whole sector of that byte: Flash::write.            *)
THEOREM ErasureBySector == Spec => ErasedInSectors
<1> DEFINE Kept ==
      \A b \in 0..(banks - 1) : \A o, p \in Offset :
        ~(data'[b][o] \subseteq data[b][o]) /\ Sector(p) = Sector(o) => data'[b][p] = xFF
<1>1. Inv /\ [Next]_vars => [Kept]_vars
  <2> SUFFICES ASSUME Inv, [Next]_vars,
                      NEW b \in 0..(banks - 1), NEW o \in Offset, NEW p \in Offset,
                      ~(data'[b][o] \subseteq data[b][o]), Sector(p) = Sector(o)
               PROVE  data'[b][p] = xFF
    BY Zenon
  <2>1. PICK a, v : Write(a, v)
    BY StepIsWrite DEF chipVars
  <2>2. data' = NextData(a, v)
    BY <2>1 DEF Write
  <2>3. CASE data' = AllBlank
    BY <2>3 DEF AllBlank, Blank
  <2>4. CASE data' = Erased(a)
    BY <2>4, ErasedEffect
  <2>5. CASE data' = Programmed(a, v)
    <3>1. data'[b][o] = IF b = bank /\ o = a THEN data[b][o] \cap v ELSE data[b][o]
      BY <2>5, ProgrammedEffect
    <3>2. data'[b][o] \subseteq data[b][o]
      BY <3>1
    <3> QED
      BY <3>2
  <2>6. CASE data' = data
    BY <2>6
  <2> QED
    BY <2>2, <2>3, <2>4, <2>5, <2>6, DataEffect
<1> HIDE DEF Kept
<1>2. Spec => [][Kept]_vars
  BY <1>1, InitInv, StepInv, PTL DEF Spec
<1> QED
  BY <1>2 DEF ErasedInSectors, Kept
-----------------------------------------------------------------------------
(* The commands.  The save library and the chip are two state machines;    *)
(* what follows relates the writes a command has left to the states the    *)
(* chip can be in: one if the two are in step, a few if they are not.      *)

(* The lengths of the commands and their third bytes. *)
Length(c) ==
  CASE c.op \in {"program", "select_bank"}      -> 4
    [] c.op \in {"erase_sector", "erase_chip"}  -> 6
    [] c.op \in {"enter_id", "leave_id"}        -> 3

Code(c) ==
  CASE c.op = "program"                        -> PROGRAM
    [] c.op \in {"erase_sector", "erase_chip"} -> ERASE
    [] c.op = "enter_id"                       -> READ_ID
    [] c.op = "leave_id"                       -> EXIT_ID
    [] c.op = "select_bank"                    -> SELECT_BANK

(* The last byte and its offset, of the commands that have more than three. *)
LastAt(c) ==
  CASE c.op \in {"program", "erase_sector"} -> c.at[1]
    [] c.op = "erase_chip"                  -> ADDR1
    [] c.op = "select_bank"                 -> 0

LastByte(c) ==
  CASE c.op = "program"      -> c.at[2]
    [] c.op = "erase_sector" -> ERASE_SECTOR
    [] c.op = "erase_chip"   -> ERASE_CHIP
    [] c.op = "select_bank"  -> IF c.to = 1 THEN {0} ELSE {}

(* What is left of a command after its first k writes. *)
Left(c, k) == SubSeq(Writes(c), k + 1, Length(c))

(* The bytes that mean something are different bytes. *)
LEMMA BytesDiffer ==
  /\ xAA \notin {x55, READ_ID, EXIT_ID, ERASE, PROGRAM, SELECT_BANK, ERASE_CHIP, ERASE_SECTOR}
  /\ x55 # EXIT_ID
  /\ READ_ID \notin {ERASE, PROGRAM, SELECT_BANK, EXIT_ID}
  /\ EXIT_ID \notin {ERASE, PROGRAM, SELECT_BANK}
  /\ ERASE \notin {PROGRAM, SELECT_BANK} /\ PROGRAM # SELECT_BANK
  /\ ERASE_SECTOR \notin {READ_ID, EXIT_ID, ERASE, PROGRAM, SELECT_BANK, ERASE_CHIP}
  /\ ERASE_CHIP \notin {READ_ID, EXIT_ID, ERASE, PROGRAM, SELECT_BANK}
  BY DEF xAA, x55, READ_ID, EXIT_ID, ERASE, PROGRAM, SELECT_BANK, ERASE_CHIP, ERASE_SECTOR

(* They are bytes. *)
LEMMA BytesType ==
  /\ {xAA, x55, READ_ID, EXIT_ID, ERASE, PROGRAM, SELECT_BANK, ERASE_CHIP, ERASE_SECTOR}
       \subseteq Byte
  /\ {{0}, {}} \subseteq Byte
  BY DEF xAA, x55, READ_ID, EXIT_ID, ERASE, PROGRAM, SELECT_BANK, ERASE_CHIP, ERASE_SECTOR, Byte

(* A command has one of six names. *)
LEMMA CommandKinds ==
  ASSUME NEW c \in Command
  PROVE  /\ c.op \in {"program", "erase_sector", "erase_chip", "enter_id", "leave_id", "select_bank"}
         /\ c.op \in {"program", "erase_sector"} => c.at \in Offset \X Byte
         /\ c.op = "select_bank" => c.to \in {0, 1}
<1>0. Programs \subseteq Offset \X Byte
  BY FlashAssumption, Zenon
<1>1. c \in [op : {"program"}, at : Programs]
        => c.op = "program" /\ c.at \in Offset \X Byte
  BY <1>0
<1>2. c \in [op : {"erase_sector"}, at : Programs]
        => c.op = "erase_sector" /\ c.at \in Offset \X Byte
  BY <1>0
<1>3. c \in [op : {"erase_chip", "enter_id", "leave_id"}]
        => c.op \in {"erase_chip", "enter_id", "leave_id"}
  OBVIOUS
<1>4. c \in [op : {"select_bank"}, to : {0, 1}] => c.op = "select_bank" /\ c.to \in {0, 1}
  OBVIOUS
<1> QED
  BY <1>1, <1>2, <1>3, <1>4 DEF Command

(* The writes of a command, one by one. *)
LEMMA WritesShape ==
  ASSUME NEW c \in Command
  PROVE  /\ Writes(c) \in Seq(Offset \X Byte)
         /\ Len(Writes(c)) = Length(c) /\ Length(c) \in {3, 4, 6}
         /\ Writes(c)[1] = <<ADDR1, xAA>>
         /\ Writes(c)[2] = <<ADDR2, x55>>
         /\ Writes(c)[3] = <<ADDR1, Code(c)>>
         /\ Length(c) = 6 => Writes(c)[4] = <<ADDR1, xAA>> /\ Writes(c)[5] = <<ADDR2, x55>>
         /\ Length(c) # 3 => Writes(c)[Length(c)] = <<LastAt(c), LastByte(c)>>
<1> DEFINE W == Offset \X Byte
<1>0. ADDR1 \in Offset /\ ADDR2 \in Offset /\ 0 \in Offset
  BY FlashAssumption
<1>1. CASE c.op = "program"
  <2>1. Writes(c) = << <<ADDR1, xAA>>, <<ADDR2, x55>>, <<ADDR1, PROGRAM>>, c.at >>
    BY <1>1 DEF Writes
  <2>2. c.at = <<LastAt(c), LastByte(c)>> /\ c.at \in W
    BY <1>1, CommandKinds DEF LastAt, LastByte
  <2>3. Length(c) = 4 /\ Code(c) = PROGRAM
    BY <1>1 DEF Length, Code
  <2>4. Writes(c) \in Seq(W)
    BY <2>1, <2>2, <1>0, BytesType
  <2> QED
    BY <2>1, <2>2, <2>3, <2>4
<1>2. CASE c.op = "erase_sector"
  <2>1. Writes(c) = << <<ADDR1, xAA>>, <<ADDR2, x55>>, <<ADDR1, ERASE>>,
                       <<ADDR1, xAA>>, <<ADDR2, x55>>, <<c.at[1], ERASE_SECTOR>> >>
    BY <1>2 DEF Writes
  <2>2. c.at[1] \in Offset /\ LastAt(c) = c.at[1] /\ LastByte(c) = ERASE_SECTOR
    BY <1>2, CommandKinds DEF LastAt, LastByte
  <2>3. Length(c) = 6 /\ Code(c) = ERASE
    BY <1>2 DEF Length, Code
  <2>4. Writes(c) \in Seq(W)
    BY <2>1, <2>2, <1>0, BytesType
  <2> QED
    BY <2>1, <2>2, <2>3, <2>4
<1>3. CASE c.op = "erase_chip"
  <2>1. Writes(c) = << <<ADDR1, xAA>>, <<ADDR2, x55>>, <<ADDR1, ERASE>>,
                       <<ADDR1, xAA>>, <<ADDR2, x55>>, <<ADDR1, ERASE_CHIP>> >>
    BY <1>3 DEF Writes
  <2>2. LastAt(c) = ADDR1 /\ LastByte(c) = ERASE_CHIP
    BY <1>3 DEF LastAt, LastByte
  <2>3. Length(c) = 6 /\ Code(c) = ERASE
    BY <1>3 DEF Length, Code
  <2>4. Writes(c) \in Seq(W)
    BY <2>1, <2>2, <1>0, BytesType
  <2> QED
    BY <2>1, <2>2, <2>3, <2>4
<1>4. CASE c.op \in {"enter_id", "leave_id"}
  <2>1. Writes(c) = << <<ADDR1, xAA>>, <<ADDR2, x55>>, <<ADDR1, Code(c)>> >>
    BY <1>4 DEF Writes, Code
  <2>2. Length(c) = 3 /\ Code(c) \in {READ_ID, EXIT_ID}
    BY <1>4 DEF Length, Code
  <2>3. Writes(c) \in Seq(W)
    BY <2>1, <2>2, <1>0, BytesType
  <2> QED
    BY <2>1, <2>2, <2>3
<1>5. CASE c.op = "select_bank"
  <2>1. Writes(c) = << <<ADDR1, xAA>>, <<ADDR2, x55>>, <<ADDR1, SELECT_BANK>>,
                       <<0, IF c.to = 1 THEN {0} ELSE {}>> >>
    BY <1>5 DEF Writes
  <2>2. LastAt(c) = 0 /\ LastByte(c) = (IF c.to = 1 THEN {0} ELSE {}) /\ LastByte(c) \in Byte
    BY <1>5, BytesType DEF LastAt, LastByte
  <2>3. Length(c) = 4 /\ Code(c) = SELECT_BANK
    BY <1>5 DEF Length, Code
  <2>4. Writes(c) \in Seq(W)
    BY <2>1, <2>2, <1>0, BytesType, SMTT(40)
  <2> QED
    BY <2>1, <2>2, <2>3, <2>4
<1> QED
  BY <1>1, <1>2, <1>3, <1>4, <1>5, CommandKinds

(* Sending takes the writes of a command one after the other. *)
LEMMA LeftShrinks ==
  ASSUME NEW c \in Command, NEW k \in 0..(Length(c) - 1)
  PROVE  /\ Left(c, k) # <<>>
         /\ Head(Left(c, k)) = Writes(c)[k + 1]
         /\ Tail(Left(c, k)) = Left(c, k + 1)
<1> DEFINE n == Length(c)
           W == Offset \X Byte
<1>1. Writes(c) \in Seq(W) /\ Len(Writes(c)) = n /\ n \in {3, 4, 6}
  BY WritesShape
<1> HIDE DEF n, W
<1>2. k + 1 \in 1..(Len(Writes(c)) + 1) /\ n \in k + 1..Len(Writes(c)) /\ k + 1 \in 1..n
  BY <1>1 DEF n
<1>3. /\ Head(SubSeq(Writes(c), k + 1, n)) = Writes(c)[k + 1]
      /\ Tail(SubSeq(Writes(c), k + 1, n)) = SubSeq(Writes(c), k + 1 + 1, n)
  BY <1>1, <1>2, HeadTailOfSubSeq
<1>4. Len(SubSeq(Writes(c), k + 1, n)) = n - (k + 1) + 1
  BY <1>1, <1>2, SubSeqProperties
<1> QED
  BY <1>1, <1>2, <1>3, <1>4, SMTT(40) DEF Left, n

(* Nothing is left in the end, and all of it at the beginning. *)
LEMMA LeftEnds ==
  ASSUME NEW c \in Command
  PROVE  Left(c, Length(c)) = <<>> /\ Left(c, 0) = Writes(c)
<1>1. Writes(c) \in Seq(Offset \X Byte) /\ Len(Writes(c)) = Length(c) /\ Length(c) \in Nat
  BY WritesShape
<1>2. SubSeq(Writes(c), Length(c) + 1, Length(c)) = <<>>
  BY <1>1, SubSeqEmpty
<1>3. SubSeq(Writes(c), 1, Length(c)) = Writes(c)
  BY <1>1, SubSeqFull
<1> QED
  BY <1>2, <1>3, <1>1 DEF Left
-----------------------------------------------------------------------------
(* What the writes of a command do to the state of the chip. *)
States == {"Ready", "Cmd1", "Cmd2", "ChipId", "PrepareErase", "Erase1", "Erase2", "WriteByte",
           "BankSwitch"}

(* A byte without a meaning of its own ends a command sequence. *)
LEMMA NoCommand ==
  ASSUME NEW v \in {xAA, EXIT_ID, ERASE_CHIP, ERASE_SECTOR}
  PROVE  AfterCommand(v) = "Ready"
<1>1. v \notin {READ_ID, ERASE, PROGRAM, SELECT_BANK}
  BY BytesDiffer
<1> QED
  BY <1>1, Zenon DEF AfterCommand

(* The states that follow the third write of a command. *)
LEMMA Commands ==
  /\ AfterCommand(READ_ID) = "ChipId"
  /\ AfterCommand(ERASE) = "PrepareErase"
  /\ AfterCommand(PROGRAM) = "WriteByte"
  /\ AfterCommand(SELECT_BANK) = IF banks = 2 THEN "BankSwitch" ELSE "Ready"
<1>1. /\ ERASE # READ_ID /\ PROGRAM # READ_ID /\ SELECT_BANK # READ_ID
      /\ PROGRAM # ERASE /\ SELECT_BANK # ERASE /\ SELECT_BANK # PROGRAM
  BY BytesDiffer
<1>2. AfterCommand(READ_ID) = "ChipId" /\ AfterCommand(ERASE) = "PrepareErase"
  BY <1>1, Zenon DEF AfterCommand
<1>3. AfterCommand(PROGRAM) = "WriteByte"
  BY <1>1, Zenon DEF AfterCommand
<1>4. AfterCommand(SELECT_BANK) = IF banks = 2 THEN "BankSwitch" ELSE "Ready"
  BY <1>1, Zenon DEF AfterCommand
<1> QED
  BY <1>2, <1>3, <1>4

(* The first write of a command, or the fourth. *)
LEMMA Unlock1Step ==
  ASSUME state \in States
  PROVE  NextState(ADDR1, xAA) =
           IF state \in {"Ready", "ChipId"} THEN "Cmd1"
           ELSE IF state = "PrepareErase" THEN "Erase1" ELSE "Ready"
<1>1. Unlock1(ADDR1, xAA) /\ ~Unlock2(ADDR1, xAA)
  BY BytesDiffer DEF Unlock1, Unlock2, ADDR1, ADDR2
<1>2. AfterCommand(xAA) = "Ready"
  BY NoCommand
<1> QED
  BY <1>1, <1>2 DEF NextState, States

(* The second write of a command, or the fifth. *)
LEMMA Unlock2Step ==
  ASSUME state \in States
  PROVE  NextState(ADDR2, x55) =
           CASE state = "Cmd1"   -> "Cmd2"
             [] state = "Erase1" -> "Erase2"
             [] state = "ChipId" -> "ChipId"
             [] OTHER            -> "Ready"
<1>1. Unlock2(ADDR2, x55) /\ ~Unlock1(ADDR2, x55) /\ ADDR1 # ADDR2 /\ x55 # EXIT_ID
  BY BytesDiffer DEF Unlock1, Unlock2, ADDR1, ADDR2
<1> QED
  BY <1>1 DEF NextState, States

(* The third write of a command, or the last one of an erasure. *)
LEMMA CodeStep ==
  ASSUME state \in States \ {"ChipId"}, NEW v, v # xAA
  PROVE  NextState(ADDR1, v) = IF state = "Cmd2" THEN AfterCommand(v) ELSE "Ready"
<1>1. ~Unlock1(ADDR1, v) /\ ~Unlock2(ADDR1, v)
  BY DEF Unlock1, Unlock2, ADDR1, ADDR2
<1> QED
  BY <1>1 DEF NextState, States

(* The last write of a command ends it, whatever it writes. *)
LEMMA LastStep ==
  ASSUME state \in {"Erase2", "WriteByte", "BankSwitch"}, NEW o, NEW v
  PROVE  NextState(o, v) = "Ready"
  BY DEF NextState

(* A write that has no meaning does nothing to a chip that is ready. *)
LEMMA ReadyStep ==
  ASSUME state = "Ready", NEW o, NEW v, ~Unlock1(o, v)
  PROVE  NextState(o, v) = "Ready"
  BY DEF NextState

(* Only the states that await the last write of a command touch the data   *)
(* or the selected bank.                                                   *)
LEMMA NoEffect ==
  ASSUME state \notin {"Erase2", "WriteByte", "BankSwitch"}, NEW o, NEW v, Write(o, v)
  PROVE  UNCHANGED <<data, bank, banks>>
  BY DEF Write, NextData, NextBank
-----------------------------------------------------------------------------
(* The state in which the chip expects the write after the first k of c,   *)
(* and the states that a chip can be in when those k writes found it in    *)
(* any state: an erasure that waited for its own unlocking, or a command   *)
(* cut short, which leaves the chip ready.                                 *)
InStep(c, k) ==
  CASE k = 0 -> {"Ready", "ChipId"}
    [] k = 1 -> {"Cmd1"}
    [] k = 2 -> {"Cmd2"}
    [] k = 3 -> {AfterCommand(Code(c))}
    [] k = 4 -> {"Erase1"}
    [] k = 5 -> {"Erase2"}

Astray(c, k) ==
  CASE k = 0 -> States
    [] k = 1 -> {"Cmd1", "Erase1", "Ready"}
    [] k = 2 -> {"Cmd2", "Erase2", "Ready"}
    [] k = 3 -> {AfterCommand(Code(c)), "Ready"}
    [] k = 4 -> {"Erase1", "Cmd1"}
    [] k = 5 -> {"Erase2", "Cmd2"}

(* The states after the third write of a long command. *)
LEMMA CodeShape ==
  ASSUME NEW c \in Command
  PROVE  /\ Code(c) # xAA /\ Code(c) \in Byte
         /\ Length(c) = 3 <=> c.op \in {"enter_id", "leave_id"}
         /\ Length(c) = 4 <=> c.op \in {"program", "select_bank"}
         /\ Length(c) = 6 <=> c.op \in {"erase_sector", "erase_chip"}
         /\ Length(c) = 6 => AfterCommand(Code(c)) = "PrepareErase"
         /\ c.op = "program" => AfterCommand(Code(c)) = "WriteByte"
         /\ c.op = "select_bank" =>
              AfterCommand(Code(c)) = IF banks = 2 THEN "BankSwitch" ELSE "Ready"
         /\ c.op = "enter_id" => AfterCommand(Code(c)) = "ChipId"
         /\ c.op = "leave_id" => AfterCommand(Code(c)) = "Ready"
<1>1. CASE c.op = "program"
  BY <1>1, BytesDiffer, BytesType, Commands DEF Length, Code
<1>2. CASE c.op = "select_bank"
  BY <1>2, BytesDiffer, BytesType, Commands DEF Length, Code
<1>3. CASE c.op \in {"erase_sector", "erase_chip"}
  BY <1>3, BytesDiffer, BytesType, Commands DEF Length, Code
<1>4. CASE c.op = "enter_id"
  BY <1>4, BytesDiffer, BytesType, Commands DEF Length, Code
<1>5. CASE c.op = "leave_id"
  BY <1>5, BytesDiffer, BytesType, NoCommand DEF Length, Code
<1> QED
  BY <1>1, <1>2, <1>3, <1>4, <1>5, CommandKinds

(* A chip in step stays in step until the last write, and one astray gets  *)
(* no further astray.                                                      *)
LEMMA OnTheWay ==
  ASSUME NEW c \in Command, NEW k \in 0..(Length(c) - 1), k + 1 < Length(c), state \in States,
         NEW o, NEW v, Writes(c)[k + 1] = <<o, v>>
  PROVE  /\ state \in InStep(c, k) => NextState(o, v) \in InStep(c, k + 1)
         /\ state \in InStep(c, k) => state \notin {"Erase2", "WriteByte", "BankSwitch"}
         /\ state \in Astray(c, k) => NextState(o, v) \in Astray(c, k + 1)
<1>1. Length(c) \in {3, 4, 6} /\ k \in {0, 1, 2, 3, 4} /\ (k > 2 => Length(c) = 6)
  BY WritesShape
<1>2. CASE k = 0
  <2>1. o = ADDR1 /\ v = xAA
    BY <1>2, WritesShape
  <2> QED
    BY <1>2, <2>1, Unlock1Step DEF InStep, Astray, States
<1>3. CASE k = 1
  <2>1. o = ADDR2 /\ v = x55
    BY <1>3, WritesShape
  <2> QED
    BY <1>3, <2>1, Unlock2Step DEF InStep, Astray, States
<1>4. CASE k = 2
  <2>1. o = ADDR1 /\ v = Code(c) /\ v # xAA
    BY <1>4, WritesShape, CodeShape
  <2>2. InStep(c, k) = {"Cmd2"} /\ Astray(c, k) = {"Cmd2", "Erase2", "Ready"}
    BY <1>4 DEF InStep, Astray
  <2>3. /\ InStep(c, k + 1) = {AfterCommand(Code(c))}
        /\ Astray(c, k + 1) = {AfterCommand(Code(c)), "Ready"}
    BY <1>4 DEF InStep, Astray
  <2> QED
    BY <2>1, <2>2, <2>3, CodeStep
<1>5. CASE k = 3
  <2>1. o = ADDR1 /\ v = xAA /\ AfterCommand(Code(c)) = "PrepareErase"
    BY <1>1, <1>5, WritesShape, CodeShape
  <2> QED
    BY <1>5, <2>1, Unlock1Step DEF InStep, Astray, States
<1>6. CASE k = 4
  <2>1. o = ADDR2 /\ v = x55
    BY <1>1, <1>6, WritesShape
  <2> QED
    BY <1>6, <2>1, Unlock2Step DEF InStep, Astray, States
<1> QED
  BY <1>1, <1>2, <1>3, <1>4, <1>5, <1>6

(* The last write brings the chip back to a state that waits for commands, *)
(* to ChipId if that was the command; from astray, unless it looks like    *)
(* the first write of a command.                                           *)
LEMMA Arrival ==
  ASSUME NEW c \in Command, NEW k \in 0..(Length(c) - 1), k + 1 = Length(c), state \in States,
         NEW o, NEW v, Writes(c)[k + 1] = <<o, v>>
  PROVE  /\ state \in InStep(c, k) =>
              NextState(o, v) = IF c.op = "enter_id" THEN "ChipId" ELSE "Ready"
         /\ state \in Astray(c, k) /\ ~EndsLikeUnlock(c) => NextState(o, v) \in {"Ready", "ChipId"}
<1>1. Length(c) \in {3, 4, 6} /\ k \in {2, 3, 5}
  BY WritesShape
<1>2. CASE k = 2
  <2>1. o = ADDR1 /\ v = Code(c) /\ v # xAA /\ c.op \in {"enter_id", "leave_id"}
    BY <1>2, WritesShape, CodeShape
  <2>2. InStep(c, k) = {"Cmd2"} /\ Astray(c, k) = {"Cmd2", "Erase2", "Ready"}
    BY <1>2 DEF InStep, Astray
  <2>3. AfterCommand(Code(c)) = IF c.op = "enter_id" THEN "ChipId" ELSE "Ready"
    BY <2>1, CodeShape
  <2> QED
    BY <2>1, <2>2, <2>3, CodeStep
<1>3. CASE k = 3
  <2>1. o = LastAt(c) /\ v = LastByte(c) /\ c.op \in {"program", "select_bank"}
    BY <1>3, WritesShape, CodeShape
  <2>2. InStep(c, k) = {AfterCommand(Code(c))} /\ Astray(c, k) = {AfterCommand(Code(c)), "Ready"}
    BY <1>3 DEF InStep, Astray
  <2>3. AfterCommand(Code(c)) \in {"WriteByte", "BankSwitch", "Ready"}
    BY <2>1, CodeShape
  <2>4. c.op = "select_bank" => ~Unlock1(o, v)
    BY <2>1 DEF LastAt, Unlock1, ADDR1
  <2>5. c.op = "program" /\ ~EndsLikeUnlock(c) => ~Unlock1(o, v)
    <3>1. c.op = "program" => c.at = <<o, v>>
      BY <2>1, CommandKinds DEF LastAt, LastByte
    <3> QED
      BY <3>1 DEF EndsLikeUnlock, Unlock1
  <2>6. state \in {"WriteByte", "BankSwitch"} => NextState(o, v) = "Ready"
    BY LastStep
  <2>7. state = "Ready" /\ ~Unlock1(o, v) => NextState(o, v) = "Ready"
    BY ReadyStep
  <2>8. state \in InStep(c, k) => c.op = "select_bank" \/ state = "WriteByte"
    BY <2>1, <2>2, CodeShape
  <2> QED
    BY <2>1, <2>2, <2>3, <2>4, <2>5, <2>6, <2>7, <2>8
<1>4. CASE k = 5
  <2>1. v = LastByte(c) /\ o = LastAt(c) /\ c.op \in {"erase_sector", "erase_chip"}
    BY <1>4, WritesShape, CodeShape, SMTT(40)
  <2>2. v \in {ERASE_SECTOR, ERASE_CHIP}
    BY <2>1 DEF LastByte
  <2>3. InStep(c, k) = {"Erase2"} /\ Astray(c, k) = {"Erase2", "Cmd2"}
    BY <1>4 DEF InStep, Astray
  <2>4. state = "Cmd2" => NextState(o, v) \in {AfterCommand(v), "Ready"}
    <3>1. v # xAA
      BY <2>2, BytesDiffer
    <3> QED
      BY <3>1, Zenon DEF NextState, Unlock1
  <2>5. AfterCommand(v) = "Ready"
    BY <2>2, NoCommand
  <2>6. state = "Erase2" => NextState(o, v) = "Ready"
    BY LastStep
  <2> QED
    BY <2>1, <2>3, <2>4, <2>5, <2>6
<1> QED
  BY <1>1, <1>2, <1>3, <1>4
-----------------------------------------------------------------------------
(* What a command promises is what its last write does, in step. *)
LEMMA Delivery ==
  ASSUME Inv, NEW c \in Command, NEW k \in 0..(Length(c) - 1), k + 1 = Length(c),
         state \in InStep(c, k), NEW o, NEW v, Writes(c)[k + 1] = <<o, v>>
  PROVE  NextData(o, v) = Promise(c).data /\ NextBank(o, v) = Promise(c).bank
<1> DEFINE K == [0..(banks - 1) -> [Offset -> Byte]]
           P == Promise(c).data
<1>0. Length(c) \in {3, 4, 6} /\ k \in {2, 3, 5}
  BY WritesShape
<1>1. P = [b \in 0..(banks - 1) |-> [p \in Offset |->
             CASE c.op = "program" /\ b = bank /\ p = c.at[1] -> data[b][p] \cap c.at[2]
               [] c.op = "erase_sector" /\ b = bank /\ Sector(p) = Sector(c.at[1]) -> xFF
               [] c.op = "erase_chip" -> xFF
               [] OTHER -> data[b][p]]]
  BY DEF Promise
<1>2. Promise(c).bank = IF c.op = "select_bank" /\ banks = 2 THEN c.to ELSE bank
  BY DEF Promise
<1>3. ASSUME NEW d \in K,
             \A b \in 0..(banks - 1) : \A p \in Offset :
               d[b][p] = CASE c.op = "program" /\ b = bank /\ p = c.at[1] -> data[b][p] \cap c.at[2]
                           [] c.op = "erase_sector" /\ b = bank /\ Sector(p) = Sector(c.at[1]) -> xFF
                           [] c.op = "erase_chip" -> xFF
                           [] OTHER -> data[b][p]
      PROVE  d = P
  <2> DEFINE F(b, p) ==
        CASE c.op = "program" /\ b = bank /\ p = c.at[1] -> data[b][p] \cap c.at[2]
          [] c.op = "erase_sector" /\ b = bank /\ Sector(p) = Sector(c.at[1]) -> xFF
          [] c.op = "erase_chip" -> xFF
          [] OTHER -> data[b][p]
  <2>1. \A b \in 0..(banks - 1) : \A p \in Offset : d[b][p] = F(b, p)
    BY <1>3
  <2>2. P = [b \in 0..(banks - 1) |-> [p \in Offset |-> F(b, p)]]
    BY <1>1
  <2> HIDE DEF F, P
  <2>3. \A b \in 0..(banks - 1) : d[b] = [p \in Offset |-> F(b, p)]
    BY <1>3, <2>1
  <2> QED
    BY <1>3, <2>2, <2>3
<1> HIDE DEF P
<1>4. data \in K
  BY DEF Inv
<1>5. CASE c.op = "program"
  <2>1. o = c.at[1] /\ v = c.at[2] /\ k = 3
    BY <1>5, <1>0, WritesShape, CodeShape, SMTT(40) DEF LastAt, LastByte
  <2>2. state = "WriteByte"
    BY <1>5, <2>1, CodeShape DEF InStep
  <2>3. NextData(o, v) = Programmed(o, v) /\ NextBank(o, v) = bank
    BY <2>2 DEF NextData, NextBank
  <2>4. NextData(o, v) \in K
    BY DataType
  <2>5. ASSUME NEW b \in 0..(banks - 1), NEW p \in Offset
        PROVE  NextData(o, v)[b][p] =
                 IF b = bank /\ p = c.at[1] THEN data[b][p] \cap c.at[2] ELSE data[b][p]
    <3>1. Programmed(o, v)[b][p] = IF b = bank /\ p = o THEN data[b][p] \cap v ELSE data[b][p]
      BY ONLY Inv, b \in 0..(banks - 1), p \in Offset, ProgrammedEffect, SMTT(40)
    <3> QED
      BY <2>1, <2>3, <3>1
  <2>6. NextData(o, v) = P
    BY <1>3, <1>5, <2>4, <2>5, ZenonT(60)
  <2> QED
    BY <1>2, <1>5, <2>3, <2>6 DEF P
<1>6. CASE c.op = "erase_sector"
  <2>1. o = c.at[1] /\ v = ERASE_SECTOR /\ k = 5
    BY <1>6, <1>0, WritesShape, CodeShape DEF LastAt, LastByte
  <2>2. state = "Erase2" /\ v # ERASE_CHIP
    BY <2>1, BytesDiffer DEF InStep
  <2>3. NextData(o, v) = Erased(o) /\ NextBank(o, v) = bank
    BY <2>1, <2>2 DEF NextData, NextBank
  <2>4. NextData(o, v) \in K
    BY DataType
  <2>5. ASSUME NEW b \in 0..(banks - 1), NEW p \in Offset
        PROVE  NextData(o, v)[b][p] =
                 IF b = bank /\ Sector(p) = Sector(c.at[1]) THEN xFF ELSE data[b][p]
    BY <2>1, <2>3, ErasedEffect
  <2>6. NextData(o, v) = P
    BY <1>3, <1>6, <2>4, <2>5, Zenon
  <2> QED
    BY <1>2, <1>6, <2>3, <2>6 DEF P
<1>7. CASE c.op = "erase_chip"
  <2>1. o = ADDR1 /\ v = ERASE_CHIP /\ k = 5
    BY <1>7, <1>0, WritesShape, CodeShape DEF LastAt, LastByte
  <2>2. state = "Erase2" /\ v # ERASE_SECTOR
    BY <2>1, BytesDiffer DEF InStep
  <2>3. NextData(o, v) = AllBlank /\ NextBank(o, v) = bank
    BY <2>1, <2>2 DEF NextData, NextBank
  <2>4. NextData(o, v) \in K
    BY DataType
  <2>5. ASSUME NEW b \in 0..(banks - 1), NEW p \in Offset
        PROVE  NextData(o, v)[b][p] = xFF
    BY <2>3 DEF AllBlank, Blank
  <2>6. NextData(o, v) = P
    BY <1>3, <1>7, <2>4, <2>5
  <2> QED
    BY <1>2, <1>7, <2>3, <2>6 DEF P
<1>8. CASE c.op \in {"enter_id", "leave_id", "select_bank"}
  <2>1. data = P
    BY <1>3, <1>4, <1>8
  <2>2. state \in {"Cmd2", "BankSwitch", "Ready"} /\ (state = "BankSwitch" <=> c.op = "select_bank" /\ banks = 2)
    BY <1>8, <1>0, CodeShape DEF InStep
  <2>3. NextData(o, v) = data
    BY <2>2 DEF NextData
  <2>4. CASE c.op = "select_bank" /\ banks = 2
    <3>1. o = 0 /\ v = (IF c.to = 1 THEN {0} ELSE {}) /\ c.to \in {0, 1}
      BY <2>4, <1>0, WritesShape, CodeShape, CommandKinds DEF LastAt, LastByte
    <3>2. NextBank(o, v) = c.to
      BY <3>1, <2>2, <2>4 DEF NextBank
    <3> QED
      BY <3>2, <2>4, <1>2, <2>1, <2>3 DEF P
  <2>5. CASE ~(c.op = "select_bank" /\ banks = 2)
    <3>1. NextBank(o, v) = bank
      BY <2>2, <2>5 DEF NextBank
    <3> QED
      BY <3>1, <2>5, <1>2, <2>1, <2>3 DEF P
  <2> QED
    BY <2>4, <2>5
<1> QED
  BY <1>5, <1>6, <1>7, <1>8, CommandKinds
-----------------------------------------------------------------------------
(* The library and the chip.  While a command is sent, the chip is where   *)
(* the writes sent so far have brought it, from the state it waits for     *)
(* commands in if the two were in step, from anywhere if not; and what is  *)
(* promised is counted from the data as they are, since the writes before  *)
(* the last one do not touch them.                                         *)
Sending ==
  ~Idle => /\ \E k \in 0..(Length(command) - 1) :
                /\ todo = Left(command, k)
                /\ state \in IF settled THEN InStep(command, k) ELSE Astray(command, k)
           /\ want = IF settled THEN {Promise(command)} ELSE {}

Kept ==
  Idle => \A w \in want :
    data = w.data /\ bank = w.bank /\ (state = "ChipId" <=> command.op = "enter_id")

Protocol ==
  /\ Inv /\ state \in States /\ command \in Command /\ settled \in BOOLEAN
  /\ Sending /\ SequenceRecovers /\ Kept

(* A store changes the state to one of the nine. *)
LEMMA NextStates ==
  ASSUME NEW o, NEW v
  PROVE  NextState(o, v) \in States
<1>1. AfterCommand(v) \in States
  BY Zenon DEF AfterCommand, States
<1>2. \/ NextState(o, v) \in {"Cmd1", "ChipId", "Cmd2", "Erase1", "Erase2", "Ready"}
      \/ NextState(o, v) = AfterCommand(v)
  BY Zenon DEF NextState
<1> QED
  BY <1>1, <1>2 DEF States

(* A new chip and a library that has sent nothing. *)
LEMMA InitProtocol == Init => Protocol
<1> SUFFICES ASSUME Init PROVE Protocol
  OBVIOUS
<1>1. [op |-> "leave_id"] \in Command
  <2>1. [op |-> "leave_id"] \in [op : {"erase_chip", "enter_id", "leave_id"}]
    OBVIOUS
  <2> QED
    BY <2>1 DEF Command
<1> QED
  BY <1>1, InitInv DEF Init, Protocol, States, Sending, Idle, SequenceRecovers, Kept

(* One write of a command, sent to the chip. *)
LEMMA SendProtocol == Protocol /\ Send => Protocol'
<1> SUFFICES ASSUME Protocol, Send PROVE Protocol'
  OBVIOUS
<1> DEFINE c == command
           o == Head(todo)[1]
           v == Head(todo)[2]
<1>0. c \in Command /\ Inv /\ state \in States /\ settled \in BOOLEAN
  BY DEF Protocol
<1>1. PICK k \in 0..(Length(c) - 1) :
        /\ todo = Left(c, k)
        /\ state \in IF settled THEN InStep(c, k) ELSE Astray(c, k)
  BY DEF Protocol, Sending, Send
<1>2. /\ Head(todo) = Writes(c)[k + 1] /\ todo' = Left(c, k + 1)
      /\ k + 1 < Length(c) => Left(c, k + 1) # <<>>
      /\ k + 1 = Length(c) => Left(c, k + 1) = <<>>
  <2>1. Head(Left(c, k)) = Writes(c)[k + 1] /\ Tail(Left(c, k)) = Left(c, k + 1)
    BY <1>0, <1>1, LeftShrinks
  <2>2. k + 1 < Length(c) => Left(c, k + 1) # <<>>
    <3>1. k + 1 < Length(c) => k + 1 \in 0..(Length(c) - 1)
      BY <1>0, <1>1, WritesShape
    <3> QED
      BY <1>0, <3>1, LeftShrinks
  <2>3. Left(c, Length(c)) = <<>>
    BY <1>0, LeftEnds
  <2> QED
    BY <1>1, <2>1, <2>2, <2>3 DEF Send
<1>3. Head(todo) \in Offset \X Byte
  <2>1. Writes(c) \in Seq(Offset \X Byte) /\ k + 1 \in 1..Len(Writes(c))
    BY <1>0, <1>1, WritesShape
  <2> QED
    BY <2>1, <1>2, ElementOfSeq
<1>4. Writes(c)[k + 1] = <<o, v>>
  BY <1>2, <1>3
<1>5. /\ Write(o, v) /\ state' = NextState(o, v) /\ data' = NextData(o, v)
      /\ bank' = NextBank(o, v) /\ banks' = banks /\ command' = c /\ want' = want
      /\ settled' = (settled \/ (todo' = <<>> /\ ~EndsLikeUnlock(c)))
  BY DEF Send, Write
<1>6. Inv' /\ state' \in States /\ command' \in Command /\ settled' \in BOOLEAN
  BY <1>0, <1>5, WriteInv, NextStates
<1>7. want = IF settled THEN {Promise(c)} ELSE {}
  BY DEF Protocol, Sending, Send
<1>8. CASE k + 1 < Length(c)
  <2>1. todo' # <<>> /\ settled' = settled
    BY <1>0, <1>2, <1>5, <1>8
  <2>2. state' \in IF settled THEN InStep(c, k + 1) ELSE Astray(c, k + 1)
    BY <1>0, <1>1, <1>4, <1>5, <1>8, OnTheWay
  <2>3. settled => UNCHANGED <<data, bank, banks>>
    BY <1>0, <1>1, <1>4, <1>5, <1>8, OnTheWay, NoEffect
  <2>4. InStep(c, k + 1)' = InStep(c, k + 1) /\ Astray(c, k + 1)' = Astray(c, k + 1)
    BY <1>5 DEF InStep, Astray, AfterCommand
  <2>5. settled => Promise(c)' = Promise(c)
    BY <1>5, <2>3, Zenon DEF Promise
  <2>6. k + 1 \in 0..(Length(c) - 1)
    BY <1>0, <1>1, <1>8, WritesShape
  <2>7. Sending'
    BY <1>2, <1>5, <1>7, <2>1, <2>2, <2>4, <2>5, <2>6 DEF Sending
  <2> QED
    BY <1>6, <2>1, <2>7 DEF Protocol, SequenceRecovers, Kept, Idle
<1>9. CASE k + 1 = Length(c)
  <2>1. todo' = <<>>
    BY <1>2, <1>9
  <2>2. settled => state' = IF c.op = "enter_id" THEN "ChipId" ELSE "Ready"
    BY <1>0, <1>1, <1>4, <1>5, <1>9, Arrival
  <2>3. settled => data' = Promise(c).data /\ bank' = Promise(c).bank
    BY <1>0, <1>1, <1>4, <1>5, <1>9, Delivery
  <2>4. SequenceRecovers'
    <3>1. ~settled /\ ~EndsLikeUnlock(c) => state' \in {"Ready", "ChipId"}
      BY <1>0, <1>1, <1>4, <1>5, <1>9, Arrival
    <3> QED
      BY <3>1, <2>1, <2>2, <1>5 DEF SequenceRecovers
  <2>5. Kept'
    BY <2>2, <2>3, <1>5, <1>7 DEF Kept
  <2> QED
    BY <1>6, <2>1, <2>4, <2>5 DEF Protocol, Sending, Idle
<1> QED
  BY <1>1, <1>8, <1>9, <1>0, WritesShape

(* The other steps begin a command or end the talk between the two. *)
LEMMA StepProtocol == Protocol /\ [Next]_vars => Protocol'
<1> SUFFICES ASSUME Protocol, [Next]_vars PROVE Protocol'
  OBVIOUS
<1>0. Inv' /\ Inv
  BY StepInv DEF Protocol
<1>1. ASSUME NEW c \in Command, Begin(c) PROVE Protocol'
  <2>1. /\ command' = c /\ todo' = Writes(c) /\ want' = IF settled THEN {Promise(c)} ELSE {}
        /\ UNCHANGED <<state, bank, banks, data, settled>> /\ Idle
    BY <1>1 DEF Begin, chipVars
  <2>2. Writes(c) = Left(c, 0) /\ 0 \in 0..(Length(c) - 1) /\ Writes(c) # <<>>
    BY LeftEnds, LeftShrinks, WritesShape
  <2>3. state \in IF settled THEN InStep(c, 0) ELSE Astray(c, 0)
    BY <2>1 DEF Protocol, SequenceRecovers, InStep, Astray
  <2>4. InStep(c, 0)' = InStep(c, 0) /\ Astray(c, 0)' = Astray(c, 0) /\ Promise(c)' = Promise(c)
    BY <2>1 DEF InStep, Astray, Promise, AfterCommand
  <2>5. Sending'
    BY <2>1, <2>2, <2>3, <2>4 DEF Sending
  <2> QED
    BY <1>0, <2>1, <2>2, <2>5 DEF Protocol, SequenceRecovers, Kept, Idle
<1>2. CASE Send
  BY <1>2, SendProtocol
<1>3. CASE SoftReset
  BY <1>0, <1>3 DEF SoftReset, GoAstray, chipVars, Protocol, Sending, SequenceRecovers, Kept, Idle
<1>4. ASSUME NEW w \in Strays, Stray(w[1], w[2]) PROVE Protocol'
  <2>1. state' \in States
    BY <1>4, NextStates DEF Stray, Write
  <2> QED
    BY <1>0, <1>4, <2>1 DEF Stray, GoAstray, Protocol, Sending, SequenceRecovers, Kept, Idle
<1>5. CASE PowerCycle
  BY <1>0, <1>5 DEF PowerCycle, Protocol, States, Sending, SequenceRecovers, Kept, Idle
<1>6. CASE UNCHANGED vars
  <2>1. UNCHANGED <<state, bank, banks, data, command, todo, settled, want>>
    BY <1>6 DEF vars, chipVars
  <2>2. ASSUME NEW k PROVE InStep(command, k)' = InStep(command, k) /\ Astray(command, k)' = Astray(command, k)
    BY <2>1 DEF InStep, Astray, AfterCommand
  <2>3. Promise(command)' = Promise(command)
    BY <2>1 DEF Promise
  <2>4. Sending'
    BY <2>1, <2>2, <2>3 DEF Protocol, Sending, Idle
  <2> QED
    BY <1>0, <2>1, <2>4 DEF Protocol, SequenceRecovers, Kept, Idle
<1> QED
  BY <1>1, <1>2, <1>3, <1>4, <1>5, <1>6 DEF Next

(* Whatever a restarted guest left unfinished and whatever strayed into    *)
(* the chip, the next whole command finds or leaves it waiting for one.    *)
THEOREM Recovery == Spec => []SequenceRecovers
<1>1. Protocol => SequenceRecovers
  BY DEF Protocol
<1> QED
  BY <1>1, InitProtocol, StepProtocol, PTL DEF Spec

(* A command that a library in step with the chip sends does what it       *)
(* promises, for any bytes at any offsets of either bank, and nothing      *)
(* else.                                                                   *)
THEOREM CommandsKeepPromises == Spec => []CommandTakesEffect
<1>1. Protocol => CommandTakesEffect
  <2> SUFFICES ASSUME Protocol, Idle, NEW w \in want
               PROVE  /\ data = w.data /\ bank = w.bank
                      /\ \A o \in Offset : Read(o) = IF command.op = "enter_id" THEN IdByte(o)
                                                     ELSE w.data[w.bank][o]
    BY DEF CommandTakesEffect
  <2>1. data = w.data /\ bank = w.bank /\ (state = "ChipId" <=> command.op = "enter_id")
    BY DEF Protocol, Kept
  <2> QED
    BY <2>1 DEF Read
<1> QED
  BY <1>1, InitProtocol, StepProtocol, PTL DEF Spec

(* The chip of a cartridge is such a chip.                                 *)
LEMMA FlashPart == BusSpec => Spec
<1>1. BusInit => Init
  BY DEF BusInit, CartInit
<1>2. [BusNext]_busVars => [Next]_vars
  <2>1. UseCartridge => [Next]_vars
    BY DEF UseCartridge, CartNext, UseFlash, UseEeprom, UseRtc, WriteSram, FlashIdle
  <2>2. UseMemory \/ UseServices \/ UNCHANGED busVars => UNCHANGED vars
    BY DEF UseMemory, UseServices, busVars, cartVars
  <2> QED
    BY <2>1, <2>2 DEF BusNext
<1> QED
  BY <1>1, <1>2, PTL DEF BusSpec, Spec

(* The three promises of the chip, kept behind the bus.                    *)
THEOREM CartridgeKeepsPromises ==
  BusSpec => []CommandTakesEffect /\ []SequenceRecovers /\ ErasedInSectors
BY FlashPart, ErasureBySector, Recovery, CommandsKeepPromises
-----------------------------------------------------------------------------
(***************************************************************************)
(* The memories.                                                           *)
(***************************************************************************)
Places == M!Rams \cup {"bios", "rom", "sram"}

(* A multiple of a multiple is a multiple. *)
LEMMA MultipleOf ==
  ASSUME NEW d \in Nat \ {0}, NEW e \in Nat \ {0}, NEW q \in Nat, d = e * q, NEW a \in Nat
  PROVE  (a % d) % e = a % e
<1> DEFINE p == a \div d
           r == a % d
           pp == r \div e
           rr == r % e
<1>1. p \in Nat /\ r \in 0..(d - 1) /\ a = d * p + r
  BY Division
<1> HIDE DEF p, r
<1>7. r \in Nat
  BY <1>1
<1>2. pp \in Nat /\ rr \in 0..(e - 1) /\ r = e * pp + rr
  BY <1>7, Division
<1> HIDE DEF pp, rr
<1>3. d * p = e * (q * p) /\ q * p \in Nat
  <2>1. \A x, y, z \in Nat : (x * y) * z = x * (y * z)
    OBVIOUS
  <2> QED
    BY <1>1, <2>1
<1> DEFINE t == q * p
<1>4. t \in Nat /\ d * p = e * t
  BY <1>3
<1> HIDE DEF t
<1>5. a = e * (t + pp) + rr /\ t + pp \in Nat
  <2>1. e * (t + pp) = e * t + e * pp
    BY <1>2, <1>4 
  <2> QED
    BY <1>1, <1>2, <1>4, <2>1
<1>6. a % e = rr
  <2> DEFINE x == t + pp
  <2>1. x \in Nat /\ a = e * x + rr /\ rr \in 0..(e - 1)
    BY <1>2, <1>5
  <2> HIDE DEF x
  <2> QED
    BY <2>1, Quotient
<1> QED
  BY <1>6 DEF r, rr

(* What the sizes of the memories are multiples of. *)
LEMMA Extents ==
  ASSUME where \in Places
  PROVE  /\ M!Extent \in Nat \ {0} /\ M!Extent % 4 = 0
         /\ M!Window \in Nat \ {0} /\ M!Window % 4 = 0
         /\ where = "vram" => \E q \in Nat \ {0} : /\ VWINDOW \div 4 = 4 * q /\ VWINDOW = 4 * (4 * q)
                                                   /\ M!Extent = 12 * q /\ M!Window = 16 * q
         /\ where # "vram" => M!Window = M!Extent
<1>1. SIZE \in Nat \ {0} /\ SIZE % 4 = 0 /\ (2 * SIZE) % 4 = 0
  BY BusAssumption
<1>2. PICK q \in Nat \ {0} : VWINDOW = 16 * q
  <2> DEFINE q == VWINDOW \div 16
  <2>1. q \in Nat /\ VWINDOW = 16 * q + 0
    BY BusAssumption, Division
  <2> HIDE DEF q
  <2>2. q # 0
    BY <2>1, BusAssumption
  <2> QED
    BY <2>1, <2>2
<1>3. VWINDOW \div 4 = 4 * q
  BY <1>2
<1>4. CASE where = "vram"
  BY <1>1, <1>2, <1>3, <1>4 DEF M!Extent, M!Window
<1>5. CASE where # "vram"
  BY <1>1, <1>5 DEF M!Extent, M!Window
<1> QED
  BY <1>4, <1>5

(* A remainder goes along with its number. *)
LEMMA RemainderMoves ==
  ASSUME NEW d \in Nat \ {0}, NEW a \in Nat
  PROVE  /\ a % d \in 0..(d - 1)
         /\ \A k \in Nat : (a % d) + k < d => (a + k) % d = (a % d) + k
         /\ (a + d) % d = a % d
<1> DEFINE p == a \div d
           r == a % d
<1>1. p \in Nat /\ r \in 0..(d - 1) /\ a = d * p + r
  BY Division
<1> HIDE DEF p, r
<1>2. ASSUME NEW k \in Nat, r + k < d PROVE (a + k) % d = r + k
  <2> DEFINE t == r + k
  <2>1. t \in 0..(d - 1) /\ a + k = d * p + t
    BY <1>1, <1>2
  <2> HIDE DEF t
  <2>2. (a + k) % d = t
    BY <1>1, <2>1, Quotient
  <2> QED
    BY <2>2 DEF t
<1>3. (a + d) % d = r
  <2> DEFINE t == p + 1
  <2>1. t \in Nat /\ a + d = d * t + r
    <3>1. d * (p + 1) = d * p + d /\ d * p \in Nat
      BY <1>1
    <3> QED
      BY <1>1, <3>1
  <2> HIDE DEF t
  <2> QED
    BY <1>1, <2>1, Quotient
<1> QED
  BY <1>1, <1>2, <1>3 DEF r

(* Where an address leads: the next ones in a word lead to the next bytes, *)
(* and the mirror to the same.                                             *)
LEMMA Indices ==
  ASSUME where \in Places, NEW a \in Nat
  PROVE  /\ M!Index(a) \in 0..(M!Extent - 1) /\ M!Index(a) % 4 = a % 4
         /\ a % 4 = 0 => M!Index(a + 2) = M!Index(a) + 2
         /\ a % 2 = 0 => M!Index(a + 1) = M!Index(a) + 1
         /\ M!Index(a + M!Window) = M!Index(a)
<1>1. /\ M!Extent \in Nat \ {0} /\ M!Extent % 4 = 0 /\ M!Window \in Nat \ {0}
      /\ where = "vram" => \E q \in Nat \ {0} : /\ VWINDOW \div 4 = 4 * q /\ VWINDOW = 4 * (4 * q)
                                                /\ M!Extent = 12 * q /\ M!Window = 16 * q
      /\ where # "vram" => M!Window = M!Extent
  BY Extents
<1>2. CASE where # "vram"
  <2> DEFINE X == M!Extent
             r == a % X
  <2>1. X \in Nat \ {0} /\ \E q \in Nat : X = 4 * q
    <3> DEFINE q == X \div 4
    <3>1. X = 4 * q /\ q \in Nat
      BY <1>1
    <3> QED
      BY <1>1, <3>1
  <2>2. \A b : M!Index(b) = b % X
    BY <1>2 DEF M!Index
  <2> HIDE DEF X
  <2>3. r \in 0..(X - 1) /\ (\A k \in Nat : r + k < X => (a + k) % X = r + k) /\ (a + X) % X = r
    BY <2>1, RemainderMoves
  <2>4. r % 4 = a % 4
    <3>1. PICK q \in Nat : X = 4 * q
      BY <2>1
    <3>2. 4 \in Nat \ {0}
      OBVIOUS
    <3> QED
      BY ONLY <2>1, <3>1, <3>2, MultipleOf, a \in Nat, ZenonT(60) DEF r
  <2> HIDE DEF r
  <2>5. a % 4 = 0 => r + 2 < X
    BY <2>1, <2>3, <2>4
  <2>6. a % 2 = 0 => r + 1 < X
    BY <2>1, <2>3, <2>4
  <2>7. M!Index(a) = r /\ M!Index(a + 2) = (a + 2) % X /\ M!Index(a + 1) = (a + 1) % X
        /\ M!Index(a + M!Window) = (a + X) % X
    BY <1>1, <1>2, <2>2 DEF r, X
  <2> QED
    BY <2>3, <2>4, <2>5, <2>6, <2>7 DEF X
<1>3. CASE where = "vram"
  <2>1. PICK q \in Nat \ {0} : /\ VWINDOW \div 4 = 4 * q /\ VWINDOW = 4 * (4 * q)
                               /\ M!Extent = 12 * q /\ M!Window = 16 * q
    BY <1>1, <1>3
  <2> DEFINE V == VWINDOW
             r == a % V
             To(o) == IF o >= 12 * q THEN o - 4 * q ELSE o
  <2>2. V \in Nat \ {0} /\ V = 4 * (4 * q) /\ 4 * q \in Nat /\ V - V \div 4 = 12 * q
    BY <2>1
  <2>3. \A b : M!Index(b) = To(b % V)
    BY <1>3, <2>1, <2>2 DEF M!Index, M!vram_addr
  <2> HIDE DEF V
  <2>4. r \in 0..(V - 1) /\ (\A k \in Nat : r + k < V => (a + k) % V = r + k) /\ (a + V) % V = r
    BY <2>2, RemainderMoves, ZenonT(60)
  <2>5. r % 4 = a % 4
    <3> DEFINE w == 4 * q
    <3>1. w \in Nat /\ V = 4 * w
      BY <2>2
    <3> DEFINE four == 4
    <3>2. four \in Nat \ {0} /\ V = four * w /\ V \in Nat \ {0} /\ w \in Nat
      BY <2>2, <3>1
    <3> HIDE DEF w, four
    <3>3. (a % V) % four = a % four
      BY ONLY <3>2, MultipleOf, a \in Nat, ZenonT(60)
    <3> QED
      BY <3>3 DEF r, four
  <2> HIDE DEF r
  <2>6. a % 4 = 0 => r + 2 < V
    BY <2>2, <2>4, <2>5
  <2>7. a % 2 = 0 => r + 1 < V
    BY <2>2, <2>4, <2>5
  <2>8. M!Index(a) = To(r) /\ M!Index(a + 2) = To((a + 2) % V) /\ M!Index(a + 1) = To((a + 1) % V)
        /\ M!Index(a + M!Window) = To((a + V) % V)
    <3>1. M!Window = V
      BY <2>1, <2>2
    <3> HIDE DEF To
    <3> QED
      BY <2>3, <3>1 DEF r
  <2>9. To(r) \in 0..(12 * q - 1) /\ To(r) % 4 = r % 4
    BY <2>2, <2>4
  <2>10. a % 4 = 0 => To(r + 2) = To(r) + 2
    BY <2>2, <2>4, <2>5
  <2>11. a % 2 = 0 => To(r + 1) = To(r) + 1
    BY <2>2, <2>4, <2>5
  <2> HIDE DEF To
  <2> QED
    BY <2>1, <2>4, <2>5, <2>6, <2>7, <2>8, <2>9, <2>10, <2>11
<1> QED
  BY <1>2, <1>3

(* An address within its word or half. *)
LEMMA AlignedAt ==
  ASSUME NEW a \in Nat, NEW w \in {1, 2, 4}
  PROVE  M!Aligned(a, w) \in Nat /\ M!Aligned(a, w) % w = 0
         /\ (a % w = 0 => M!Aligned(a, w) = a)
<1>1. CASE w = 1
  BY <1>1 DEF M!Aligned
<1>2. CASE w = 2
  BY <1>2 DEF M!Aligned
<1>3. CASE w = 4
  BY <1>3 DEF M!Aligned
<1> QED
  BY <1>1, <1>2, <1>3

(* Two texts side by side. *)
LEMMA SideBySide ==
  ASSUME NEW K, NEW s \in Seq(K), NEW t \in Seq(K)
  PROVE  /\ s \o t \in Seq(K) /\ Len(s \o t) = Len(s) + Len(t)
         /\ \A k \in 1..Len(s) : (s \o t)[k] = s[k]
         /\ \A k \in 1..Len(t) : (s \o t)[Len(s) + k] = t[k]
<1> DEFINE m == Len(s)
           n == Len(t)
<1>1. s \o t \in Seq(K) /\ Len(s \o t) = m + n /\ m \in Nat /\ n \in Nat
      /\ \A i \in 1..(m + n) : (s \o t)[i] = IF i <= m THEN s[i] ELSE t[i - m]
  BY ConcatProperties, LenProperties
<1> HIDE DEF m, n
<1>2. ASSUME NEW k \in 1..m PROVE (s \o t)[k] = s[k]
  BY <1>1
<1>3. ASSUME NEW k \in 1..n PROVE (s \o t)[m + k] = t[k]
  <2>1. m + k \in 1..(m + n) /\ ~(m + k <= m) /\ (m + k) - m = k
    BY <1>1
  <2> QED
    BY <1>1, <2>1
<1> QED
  BY <1>1, <1>2, <1>3 DEF m, n

LEMMA Beside ==
  ASSUME NEW K, NEW s \in Seq(K), NEW t \in Seq(K), Len(s) = 1, Len(t) = 1
  PROVE  s \o t \in Seq(K) /\ Len(s \o t) = 2 /\ (s \o t)[1] = s[1] /\ (s \o t)[2] = t[1]
<1> DEFINE c == s \o t
           m == Len(s)
           n == Len(t)
<1>1. c \in Seq(K) /\ Len(c) = m + n /\ (\A k \in 1..m : c[k] = s[k]) /\ (\A k \in 1..n : c[m + k] = t[k])
  BY ONLY s \in Seq(K), t \in Seq(K), SideBySide
<1>2. m = 1 /\ n = 1
  OBVIOUS
<1> HIDE DEF c, m, n
<1> QED
  BY <1>1, <1>2 DEF c

LEMMA BesideTwo ==
  ASSUME NEW K, NEW s \in Seq(K), NEW t \in Seq(K), Len(s) = 2, Len(t) = 2
  PROVE  /\ s \o t \in Seq(K) /\ Len(s \o t) = 4
         /\ (s \o t)[1] = s[1] /\ (s \o t)[2] = s[2] /\ (s \o t)[3] = t[1] /\ (s \o t)[4] = t[2]
<1> DEFINE c == s \o t
           m == Len(s)
           n == Len(t)
<1>1. c \in Seq(K) /\ Len(c) = m + n /\ (\A k \in 1..m : c[k] = s[k]) /\ (\A k \in 1..n : c[m + k] = t[k])
  BY ONLY s \in Seq(K), t \in Seq(K), SideBySide
<1>2. m = 2 /\ n = 2
  OBVIOUS
<1> HIDE DEF c, m, n
<1> QED
  BY <1>1, <1>2 DEF c

(* Bytes side by side. *)
Found == {mem[i] : i \in Int}
LEMMA BytesJoin ==
  ASSUME NEW i \in Nat, NEW v \in 1..2, NEW w \in 1..2
  PROVE  M!Bytes(i, v) \o M!Bytes(i + v, w) = M!Bytes(i, v + w)
<1> DEFINE s == M!Bytes(i, v)
           t == M!Bytes(i + v, w)
           u == M!Bytes(i, v + w)
<1>1. s \in Seq(Found) /\ Len(s) = v /\ \A k \in 1..v : s[k] = mem[i + k - 1]
  BY DEF M!Bytes, Found
<1>2. t \in Seq(Found) /\ Len(t) = w /\ \A k \in 1..w : t[k] = mem[(i + v) + k - 1]
  BY DEF M!Bytes, Found
<1>3. u \in Seq(Found) /\ Len(u) = v + w /\ \A k \in 1..(v + w) : u[k] = mem[i + k - 1]
  BY DEF M!Bytes, Found
<1> HIDE DEF s, t, u
<1>4. s \o t \in Seq(Found) /\ Len(s \o t) = v + w
  BY <1>1, <1>2, ConcatProperties
<1>5. ASSUME NEW k \in 1..(v + w) PROVE (s \o t)[k] = u[k]
  <2>1. /\ \A j \in 1..v : (s \o t)[j] = s[j]
        /\ \A j \in 1..w : (s \o t)[v + j] = t[j]
    <3>1. /\ \A j \in 1..Len(s) : (s \o t)[j] = s[j]
          /\ \A j \in 1..Len(t) : (s \o t)[Len(s) + j] = t[j]
      BY <1>1, <1>2, SideBySide, SMTT(40)
    <3> QED
      BY <1>1, <1>2, <3>1
  <2>2. CASE k <= v
    <3>1. k \in 1..v
      BY <2>2
    <3> QED
      BY <1>1, <1>3, <2>1, <3>1
  <2>3. CASE k > v
    <3> DEFINE j == k - v
    <3>1. j \in 1..w /\ k = v + j /\ (i + v) + j - 1 = i + k - 1
      BY <2>3
    <3> HIDE DEF j
    <3>2. (s \o t)[k] = t[j] /\ t[j] = mem[(i + v) + j - 1]
      BY <1>2, <2>1, <3>1
    <3> QED
      BY <1>3, <3>1, <3>2
  <2>4. k \in Nat /\ v \in Nat
    OBVIOUS
  <2>5. k <= v \/ k > v
    BY <2>4
  <2> QED
    BY <2>2, <2>3, <2>5
<1>6. s \o t = u
  BY <1>3, <1>4, <1>5, SeqEqual
<1> QED
  BY <1>6 DEF s, t, u

LEMMA BytesPair ==
  ASSUME NEW i \in Nat
  PROVE  /\ M!Bytes(i, 1) \o M!Bytes(i + 1, 1) = M!Bytes(i, 2)
         /\ M!Bytes(i, 2) \o M!Bytes(i + 2, 2) = M!Bytes(i, 4)
<1>1. \A v, w \in 1..2 : M!Bytes(i, v) \o M!Bytes(i + v, w) = M!Bytes(i, v + w)
  BY BytesJoin
<1>2. 1 \in 1..2 /\ 2 \in 1..2 /\ 1 + 1 = 2 /\ 2 + 2 = 4
  OBVIOUS
<1> QED
  BY <1>1, <1>2

(* A load of one width gives what loads of the next one give. *)
LEMMA LoadsAgree ==
  ASSUME where \in Places, NEW a \in Nat
  PROVE  LET b == M!Aligned(a, 2)
             c == M!Aligned(a, 4)
         IN  IF where = "sram"
             THEN M!read32(a) = M!read16(c) \o M!read16(c) /\ M!read16(a) = M!read8(b) \o M!read8(b)
             ELSE M!read32(a) = M!read16(c) \o M!read16(c + 2) /\ M!read16(a) = M!read8(b) \o M!read8(b + 1)
<1> DEFINE b == M!Aligned(a, 2)
           c == M!Aligned(a, 4)
<1>1. b \in Nat /\ b % 2 = 0 /\ c \in Nat /\ c % 4 = 0
  BY AlignedAt
<1> HIDE DEF b, c
<1>2. c % 2 = 0 /\ (c + 2) % 2 = 0 /\ c + 2 \in Nat
  BY <1>1
<1>3. M!Aligned(c, 2) = c /\ M!Aligned(c + 2, 2) = c + 2 /\ M!Aligned(b, 2) = b
  BY <1>1, <1>2, AlignedAt
<1>4. /\ M!Index(c) \in 0..(M!Extent - 1) /\ M!Index(c + 2) = M!Index(c) + 2
      /\ M!Index(b) \in 0..(M!Extent - 1) /\ M!Index(b + 1) = M!Index(b) + 1
  BY <1>1, Indices
<1>5. M!Extent \in Nat
  BY Extents
<1>6. M!Index(c) \in Nat /\ M!Index(b) \in Nat
  BY <1>4, <1>5
<1>7. CASE where = "sram"
  <2>1. M!read16(a) = M!read8(b) \o M!read8(b)
    BY <1>7 DEF M!read16, M!read8, b
  <2>2. M!read32(a) = [k \in 1..4 |-> mem[M!Index(c)]]
    BY <1>7 DEF M!read32, c
  <2>3. M!read16(c) = M!Bytes(M!Index(c), 1) \o M!Bytes(M!Index(c), 1)
    BY <1>3, <1>7 DEF M!read16
  <2> DEFINE s == M!Bytes(M!Index(c), 1)
             t == s \o s
             u == t \o t
  <2>4. s \in Seq(Found) /\ Len(s) = 1 /\ s[1] = mem[M!Index(c)]
    BY <1>6 DEF M!Bytes, Found
  <2> HIDE DEF s
  <2>5. t \in Seq(Found) /\ Len(t) = 2 /\ t[1] = mem[M!Index(c)] /\ t[2] = mem[M!Index(c)]
    BY <2>4, Beside
  <2> HIDE DEF t
  <2>6. u \in Seq(Found) /\ Len(u) = 4 /\ \A k \in 1..4 : u[k] = mem[M!Index(c)]
    <3>1. u \in Seq(Found) /\ Len(u) = 4 /\ u[1] = t[1] /\ u[2] = t[2] /\ u[3] = t[1] /\ u[4] = t[2]
      BY <2>5, BesideTwo
    <3>2. 1..4 = {1, 2, 3, 4}
      OBVIOUS
    <3> QED
      BY <2>5, <3>1, <3>2
  <2> HIDE DEF u
  <2> DEFINE w == [k \in 1..4 |-> mem[M!Index(c)]]
  <2>7. w \in Seq(Found) /\ Len(w) = 4 /\ \A k \in 1..4 : w[k] = mem[M!Index(c)]
    BY <1>6 DEF Found
  <2> HIDE DEF w
  <2>8. w = u
    BY <2>6, <2>7, SeqEqual
  <2> QED
    BY <1>7, <2>1, <2>2, <2>3, <2>8 DEF s, t, u, w, b, c
<1>8. CASE where = "bios"
  BY <1>8 DEF M!read16, M!read32, b, c
<1>9. CASE where \in {"vram", "rom"}
  <2>1. M!read32(a) = M!read16(c) \o M!read16(c + 2)
    BY <1>9 DEF M!read32, c
  <2>2. M!read16(a) = M!Bytes(M!Index(b), 2)
    BY <1>9 DEF M!read16, b
  <2>3. M!read8(b) = M!Bytes(M!Index(b), 1) /\ M!read8(b + 1) = M!Bytes(M!Index(b) + 1, 1)
    BY <1>4, <1>9 DEF M!read8
  <2>4. M!Bytes(M!Index(b), 1) \o M!Bytes(M!Index(b) + 1, 1) = M!Bytes(M!Index(b), 2)
    BY <1>6, BytesPair
  <2> QED
    BY <1>9, <2>1, <2>2, <2>3, <2>4 DEF b, c
<1>10. CASE where \notin {"sram", "bios", "vram", "rom"}
  <2>1. M!read32(a) = M!Bytes(M!Index(c), 4)
    BY <1>10 DEF M!read32, c
  <2>2. M!read16(a) = M!Bytes(M!Index(b), 2) /\ M!read16(c) = M!Bytes(M!Index(c), 2)
        /\ M!read16(c + 2) = M!Bytes(M!Index(c) + 2, 2)
    BY <1>3, <1>4, <1>10 DEF M!read16, b
  <2>3. M!read8(b) = M!Bytes(M!Index(b), 1) /\ M!read8(b + 1) = M!Bytes(M!Index(b) + 1, 1)
    BY <1>4, <1>10 DEF M!read8
  <2>4. M!Bytes(M!Index(b), 1) \o M!Bytes(M!Index(b) + 1, 1) = M!Bytes(M!Index(b), 2)
    BY <1>6, BytesPair
  <2>5. M!Bytes(M!Index(c), 2) \o M!Bytes(M!Index(c) + 2, 2) = M!Bytes(M!Index(c), 4)
    BY <1>6, BytesPair
  <2> QED
    BY <1>10, <2>1, <2>2, <2>3, <2>4, <2>5 DEF b, c
<1> QED
  BY <1>7, <1>8, <1>9, <1>10 DEF b, c

(* The mirror of an address holds the same. *)
LEMMA MirrorsAgree ==
  ASSUME where \in Places, NEW a \in Nat
  PROVE  M!read8(a) = M!read8(a + M!Window)
<1>1. M!Index(a + M!Window) = M!Index(a)
  BY Indices
<1>2. (a + M!Window) % 4 = a % 4
  BY Extents
<1> QED
  BY <1>1, <1>2 DEF M!read8, M!read_bios

(* Outside of the BIOS every load gives the latch. *)
LEMMA LatchLoads ==
  ASSUME where = "bios", ~in_bios, NEW a \in Nat, bios_latch \in Seq(Int), Len(bios_latch) = 4
  PROVE  M!read32(a) = bios_latch
<1> DEFINE c == M!Aligned(a, 4)
           Get(k) == <<bios_latch[k]>>
<1>1. c \in Nat /\ c % 4 = 0
  BY AlignedAt
<1> HIDE DEF c
<1>2. c % 2 = 0 /\ (c + 2) % 2 = 0 /\ c + 2 \in Nat
  BY <1>1
<1>3. M!Aligned(c, 2) = c /\ M!Aligned(c + 2, 2) = c + 2
  BY <1>1, <1>2, AlignedAt
<1>4. M!read32(a) = M!read16(c) \o M!read16(c + 2)
  BY DEF M!read32, c
<1>5. M!read16(c) = M!read8(c) \o M!read8(c + 1) /\ M!read16(c + 2) = M!read8(c + 2) \o M!read8((c + 2) + 1)
  BY <1>3 DEF M!read16
<1>6. \A d : M!read8(d) = Get((d % 4) + 1)
  BY DEF M!read8, M!read_bios
<1>7. (c % 4) + 1 = 1 /\ ((c + 1) % 4) + 1 = 2 /\ ((c + 2) % 4) + 1 = 3 /\ (((c + 2) + 1) % 4) + 1 = 4
  BY <1>1
<1> HIDE DEF Get
<1>8. M!read32(a) = (Get(1) \o Get(2)) \o (Get(3) \o Get(4))
  BY <1>4, <1>5, <1>6, <1>7
<1>9. \A k \in 1..4 : Get(k) \in Seq(Int) /\ Len(Get(k)) = 1 /\ Get(k)[1] = bios_latch[k]
  <2>1. bios_latch \in [1..4 -> Int]
    BY LenProperties
  <2> QED
    BY <2>1 DEF Get
<1> DEFINE s == Get(1) \o Get(2)
           t == Get(3) \o Get(4)
           u == s \o t
<1>10. s \in Seq(Int) /\ Len(s) = 2 /\ s[1] = bios_latch[1] /\ s[2] = bios_latch[2]
  <2>1. 1 \in 1..4 /\ 2 \in 1..4
    OBVIOUS
  <2> QED
    BY <1>9, <2>1, Beside, SMTT(40)
<1>11. t \in Seq(Int) /\ Len(t) = 2 /\ t[1] = bios_latch[3] /\ t[2] = bios_latch[4]
  <2>1. 3 \in 1..4 /\ 4 \in 1..4
    OBVIOUS
  <2> QED
    BY <1>9, <2>1, Beside, SMTT(40)
<1> HIDE DEF s, t
<1>12. u \in Seq(Int) /\ Len(u) = 4 /\ \A k \in 1..4 : u[k] = bios_latch[k]
  <2>1. u \in Seq(Int) /\ Len(u) = 4 /\ u[1] = s[1] /\ u[2] = s[2] /\ u[3] = t[1] /\ u[4] = t[2]
    BY <1>10, <1>11, BesideTwo
  <2>3. 1..4 = {1, 2, 3, 4}
    OBVIOUS
  <2> QED
    BY <1>10, <1>11, <2>1, <2>3
<1> HIDE DEF u
<1>13. bios_latch \in Seq(Int) /\ Len(bios_latch) = 4
  OBVIOUS
<1>14. u = bios_latch
  BY <1>12, <1>13, SeqEqual
<1> QED
  BY <1>8, <1>14 DEF s, t, u

(* Each byte is one that it may be; the latch is a word.                   *)
Cell == 0..(M!Extent - 1)
MemoryInv ==
  /\ where \in Places \cup M!Pairs
  /\ where \in Places =>
       /\ mem \in [Cell -> Int] /\ DOMAIN found = Cell
       /\ \A i \in Cell : mem[i] \in found[i]
       /\ bios_latch \in Seq(Int) /\ Len(bios_latch) = 4

(* What is put into a memory. *)
LEMMA PutEffect ==
  ASSUME mem \in [Cell -> Int], NEW i \in Nat, NEW v \in Seq(Int)
  PROVE  /\ M!Put(i, v) \in [Cell -> Int]
         /\ \A j \in Cell : M!Put(i, v)[j] = IF j \in i..(i + Len(v) - 1) THEN v[j - i + 1] ELSE mem[j]
<1> DEFINE n == Len(v)
<1>1. n \in Nat /\ v \in [1..n -> Int]
  BY LenProperties
<1>4. M!Put(i, v) = [j \in Cell |-> IF j \in i..(i + n - 1) THEN v[j - i + 1] ELSE mem[j]]
  BY DEF M!Put
<1> HIDE DEF n
<1>2. \A j \in Cell : j \in i..(i + n - 1) => v[j - i + 1] \in Int
  <2>1. SUFFICES ASSUME NEW j \in Cell, j \in i..(i + n - 1) PROVE v[j - i + 1] \in Int
    OBVIOUS
  <2>2. j - i + 1 \in 1..n
    BY <1>1, <2>1
  <2> QED
    BY <1>1, <2>2
<1> QED
  BY <1>2, <1>4 DEF n

(* A function on the first numbers is a sequence. *)
LEMMA Spells ==
  ASSUME NEW n \in Nat, NEW v \in [1..n -> Int]
  PROVE  v \in Seq(Int) /\ Len(v) = n
  OBVIOUS

(* A byte twice. *)
LEMMA Doubled ==
  ASSUME NEW n \in {1}, NEW v \in [1..n -> Int]
  PROVE  \E m \in {2} : v \o v \in [1..m -> Int] /\ (v \o v)[1] = v[1] /\ (v \o v)[2] = v[1]
<1>1. v \in Seq(Int) /\ Len(v) = n
  <2>1. n \in Nat
    OBVIOUS
  <2> QED
    BY <2>1, Spells
<1>2. v \o v \in Seq(Int) /\ Len(v \o v) = 2 /\ (v \o v)[1] = v[1] /\ (v \o v)[2] = v[1]
  BY <1>1, Beside
<1>3. v \o v \in [1..Len(v \o v) -> Int]
  BY <1>2, LenProperties
<1> QED
  BY <1>2, <1>3

(* A halfword or a word. *)
LEMMA WideStores ==
  ASSUME MemoryInv, where \in Places, NEW a \in Nat, NEW n \in {2, 4}, NEW v \in [1..n -> Int],
         NEW m, m = IF where \in M!Rams THEN M!Put(M!Index(M!Aligned(a, n)), v) ELSE mem
  PROVE  m \in [Cell -> Int] /\ DOMAIN M!Touched(a, v) = Cell
         /\ \A j \in Cell : m[j] \in M!Touched(a, v)[j]
<1> DEFINE i == M!Index(M!Aligned(a, n))
<1>1. i \in Nat /\ n \in 1..4 /\ Len(v) = n /\ mem \in [Cell -> Int] /\ n # 1
      /\ \A j \in Cell : mem[j] \in found[j]
  <2>1. M!Aligned(a, n) \in Nat
    BY AlignedAt
  <2>2. i \in 0..(M!Extent - 1) /\ M!Extent \in Nat
    BY <2>1, Indices, Extents
  <2> QED
    BY <2>2, LenProperties DEF MemoryInv
<1> HIDE DEF i
<1>2. M!Touched(a, v) = [j \in Cell |->
         CASE ~((where = "sram") \/ where \in {"rom", "bios"}) /\ j \in i..(i + n - 1) -> {v[j - i + 1]}
           [] OTHER -> found[j]]
  BY <1>1 DEF M!Touched, i
<1>3. M!Put(i, v) \in [Cell -> Int]
      /\ \A j \in Cell : M!Put(i, v)[j] = IF j \in i..(i + n - 1) THEN v[j - i + 1] ELSE mem[j]
  <2>1. n \in Nat
    OBVIOUS
  <2>2. v \in Seq(Int) /\ Len(v) = n
    BY <2>1, Spells
  <2>3. /\ M!Put(i, v) \in [Cell -> Int]
        /\ \A j \in Cell : M!Put(i, v)[j] = IF j \in i..(i + Len(v) - 1) THEN v[j - i + 1] ELSE mem[j]
    BY ONLY <1>1, <2>2, PutEffect
  <2> QED
    BY <2>2, <2>3
<1>4. CASE where \in M!Rams
  <2>1. where # "sram" /\ where \notin {"rom", "bios"}
    BY <1>4 DEF M!Rams
  <2>2. m = M!Put(i, v)
    BY <1>4 DEF i
  <2>3. ASSUME NEW j \in Cell PROVE m[j] \in M!Touched(a, v)[j]
    <3>1. CASE j \in i..(i + n - 1)
      BY <1>2, <1>3, <2>1, <2>2, <3>1
    <3>2. CASE j \notin i..(i + n - 1)
      BY <1>1, <1>2, <1>3, <2>1, <2>2, <3>2
    <3> QED
      BY <3>1, <3>2
  <2> QED
    BY <1>2, <1>3, <2>2, <2>3
<1>5. CASE where \notin M!Rams
  <2>1. where = "sram" \/ where \in {"rom", "bios"}
    BY <1>5 DEF Places
  <2>2. m = mem
    BY <1>5
  <2>3. ASSUME NEW j \in Cell PROVE m[j] \in M!Touched(a, v)[j]
    BY <1>1, <1>2, <2>1, <2>2
  <2> QED
    BY <1>1, <1>2, <2>2, <2>3
<1> QED
  BY <1>4, <1>5

(* A byte, at an even address if it is stored to VRAM. *)
LEMMA ByteStores ==
  ASSUME MemoryInv, where \in Places, NEW a \in Nat, NEW n \in {1}, NEW v \in [1..n -> Int],
         ~BITMAP, where = "vram" => M!Index(a) % 2 = 0
  PROVE  M!write8(a, v) \in [Cell -> Int] /\ DOMAIN M!Touched(a, v) = Cell
         /\ \A j \in Cell : M!write8(a, v)[j] \in M!Touched(a, v)[j]
<1> DEFINE i == M!Index(a)
           b == i - (i % 2)
           X == M!Extent
           m == M!write8(a, v)
<1>1. i \in 0..(X - 1) /\ X \in Nat \ {0} /\ X % 4 = 0 /\ Len(v) = n /\ mem \in [Cell -> Int]
      /\ Cell = 0..(X - 1) /\ \A j \in Cell : mem[j] \in found[j]
  <2>1. i \in 0..(X - 1)
    BY Indices
  <2>2. X \in Nat \ {0} /\ X % 4 = 0
    BY Extents
  <2>3. Len(v) = n
    BY LenProperties
  <2> QED
    BY <2>1, <2>2, <2>3 DEF MemoryInv, Cell
<1>2. M!Aligned(a, n) = a /\ n = 1 /\ n \in 1..4
  BY DEF M!Aligned
<1>15. M!Touched(a, v) = [j \in Cell |->
         CASE where \in {"oam", "rom", "bios"} -> found[j]
           [] where \notin {"oam", "rom", "bios"} /\ where \in {"palette", "vram"} /\ j \div 2 = i \div 2 -> {v[1]}
           [] where \notin {"oam", "rom", "bios"} /\ where \notin {"palette", "vram"}
              /\ j \in i..(i + n - 1) -> {v[j - i + 1]}
           [] OTHER -> found[j]]
  <2>1. DOMAIN mem = Cell
    BY <1>1
  <2> DEFINE dropped == \/ where = "oam" /\ n = 1
                        \/ where = "vram" /\ n = 1 /\ BITMAP /\ i >= M!ObjRegion
                        \/ where = "sram" /\ ~(n = 1)
                        \/ where \in {"rom", "bios"}
             doubled == n = 1 /\ where \in {"palette", "vram"}
  <2>2. (dropped <=> where \in {"oam", "rom", "bios"}) /\ (doubled <=> where \in {"palette", "vram"})
    BY <1>2
  <2> HIDE DEF Cell
  <2>3. M!Touched(a, v) = [j \in Cell |->
          CASE dropped -> found[j]
            [] ~dropped /\ doubled /\ j \div 2 = i \div 2 -> {v[1]}
            [] ~dropped /\ ~doubled /\ j \in i..(i + n - 1) -> {v[j - i + 1]}
            [] OTHER -> found[j]]
    BY <1>1, <1>2, <2>1 DEF M!Touched
  <2> HIDE DEF dropped, doubled, i
  <2> QED
    BY <2>2, <2>3
<1>3. \A j \in Cell : M!Touched(a, v)[j] =
        IF where \in {"oam", "rom", "bios"} THEN found[j]
        ELSE IF where \in {"palette", "vram"} THEN (IF j \div 2 = i \div 2 THEN {v[1]} ELSE found[j])
        ELSE (IF j \in i..(i + n - 1) THEN {v[j - i + 1]} ELSE found[j])
  <2> HIDE DEF i, Cell
  <2> QED
    BY <1>15
<1>4. m = CASE where \in {"ewram", "iwram", "sram"} -> M!Put(i, v)
            [] where = "palette" -> M!Put(b, v \o v)
            [] where = "vram" /\ i + 1 < X -> M!Put(i, v \o v)
            [] OTHER -> mem
  BY DEF M!write8, M!Aligned
<1> HIDE DEF i, X, m, Cell
<1>5. i \in Nat /\ b \in Nat /\ (b = i \/ b = i - 1)
  BY <1>1
<1>6. M!Put(i, v) \in [Cell -> Int]
      /\ \A j \in Cell : M!Put(i, v)[j] = IF j \in i..(i + n - 1) THEN v[j - i + 1] ELSE mem[j]
  <2>1. n \in Nat
    OBVIOUS
  <2>2. v \in Seq(Int)
    BY <2>1, Spells
  <2>3. M!Put(i, v) \in [Cell -> Int]
        /\ \A j \in Cell : M!Put(i, v)[j] = IF j \in i..(i + Len(v) - 1) THEN v[j - i + 1] ELSE mem[j]
    BY <1>1, <1>5, <2>2, PutEffect, Zenon
  <2> QED
    BY <1>1, <2>3
<1>7. PICK two \in {2} : v \o v \in [1..two -> Int] /\ (v \o v)[1] = v[1] /\ (v \o v)[2] = v[1]
  BY Doubled
<1>8. ASSUME NEW p \in Nat
      PROVE  /\ M!Put(p, v \o v) \in [Cell -> Int]
             /\ \A j \in Cell : M!Put(p, v \o v)[j] = IF j \in {p, p + 1} THEN v[1] ELSE mem[j]
  <2> DEFINE w == v \o v
  <2>1. w \in [1..two -> Int] /\ w[1] = v[1] /\ w[2] = v[1]
    BY <1>7
  <2> HIDE DEF w
  <2>2. M!Put(p, w) \in [Cell -> Int]
        /\ \A j \in Cell : M!Put(p, w)[j] = IF j \in p..(p + two - 1) THEN w[j - p + 1] ELSE mem[j]
    <3>1. two \in Nat
      OBVIOUS
    <3>2. w \in Seq(Int) /\ Len(w) = two
      BY <2>1, <3>1, Spells
    <3>3. M!Put(p, w) \in [Cell -> Int]
          /\ \A j \in Cell : M!Put(p, w)[j] = IF j \in p..(p + Len(w) - 1) THEN w[j - p + 1] ELSE mem[j]
      BY <1>1, <3>2, PutEffect, ZenonT(60)
    <3> QED
      BY <3>2, <3>3
  <2>3. ASSUME NEW j \in Cell PROVE M!Put(p, w)[j] = IF j \in {p, p + 1} THEN v[1] ELSE mem[j]
    <3>1. j \in Int
      BY <1>1
    <3>2. CASE j = p
      <4>1. j \in p..(p + two - 1) /\ j - p + 1 = 1
        BY <3>2
      <4> QED
        BY <2>1, <2>2, <3>2, <4>1
    <3>3. CASE j = p + 1
      <4>1. j \in p..(p + two - 1) /\ j - p + 1 = 2
        BY <3>3
      <4> QED
        BY <2>1, <2>2, <3>3, <4>1
    <3>4. CASE j # p /\ j # p + 1
      <4>1. j \notin p..(p + two - 1)
        BY <3>1, <3>4
      <4> QED
        BY <2>2, <3>4, <4>1
    <3> QED
      BY <3>2, <3>3, <3>4
  <2> QED
    BY <2>2, <2>3 DEF w
<1>9. DOMAIN M!Touched(a, v) = Cell
  BY <1>15
<1>10. CASE where \in {"ewram", "iwram", "sram"}
  <2>1. m = M!Put(i, v)
    BY <1>4, <1>10
  <2>2. ASSUME NEW j \in Cell PROVE m[j] \in M!Touched(a, v)[j]
    <3>1. j \in Int 
      BY <1>1
    <3>2. CASE j = i
      <4>1. j - i + 1 = 1 /\ j \in i..(i + n - 1)
        BY <1>5, <3>2
      <4> QED
        BY <1>3, <1>6, <1>10, <2>1, <4>1
    <3>3. CASE j # i
      <4>1. j \notin i..(i + n - 1)
        BY <1>5, <3>1, <3>3
      <4> QED
        <5>1. m[j] = mem[j]
          BY <1>6, <2>1, <4>1
        <5>2. M!Touched(a, v)[j] = found[j]
          BY <1>3, <1>10, <4>1
        <5> QED
          BY <1>1, <5>1, <5>2
    <3> QED
      BY <3>2, <3>3
  <2> QED
    BY <1>6, <1>9, <2>1, <2>2 DEF m
<1>11. CASE where = "palette"
  <2>1. m = M!Put(b, v \o v)
    BY <1>4, <1>11
  <2>2. ASSUME NEW j \in Cell PROVE m[j] \in M!Touched(a, v)[j]
    <3>1. j \in Nat
      BY <1>1
    <3>2. j \in {b, b + 1} <=> j \div 2 = i \div 2
      BY <1>5, <3>1
    <3>3. M!Touched(a, v)[j] = IF j \div 2 = i \div 2 THEN {v[1]} ELSE found[j]
      BY <1>3, <1>11
    <3>4. m[j] = IF j \in {b, b + 1} THEN v[1] ELSE mem[j]
      BY <1>5, <1>8, <2>1
    <3> HIDE DEF b
    <3> QED
      BY <1>1, <3>2, <3>3, <3>4
  <2> QED
    BY <1>5, <1>8, <1>9, <2>1, <2>2 DEF m
<1>12. CASE where = "vram"
  <2>1. m = IF i + 1 < X THEN M!Put(i, v \o v) ELSE mem
    BY <1>4, <1>12
  <2>2. ASSUME NEW j \in Cell PROVE m[j] \in M!Touched(a, v)[j]
    <3>6. i % 2 = 0
      BY <1>12 DEF i
    <3>1. j \in Nat /\ i % 2 = 0 /\ i + 1 < X
      BY <1>1, <1>5, <3>6
    <3>2. j \in {i, i + 1} <=> j \div 2 = i \div 2
      BY <1>5, <3>1
    <3>3. m = M!Put(i, v \o v)
      BY <2>1, <3>1
    <3>4. M!Touched(a, v)[j] = IF j \div 2 = i \div 2 THEN {v[1]} ELSE found[j]
      BY <1>3, <1>12
    <3>5. m[j] = IF j \in {i, i + 1} THEN v[1] ELSE mem[j]
      BY <1>5, <1>8, <3>3
    <3> QED
      BY <1>1, <3>2, <3>4, <3>5
  <2>3. m \in [Cell -> Int]
    BY <1>1, <1>5, <1>8, <2>1
  <2> QED
    BY <1>9, <2>2, <2>3 DEF m
<1>13. CASE where \in {"oam", "rom", "bios"}
  <2>1. m = mem
    BY <1>4, <1>13
  <2>2. ASSUME NEW j \in Cell PROVE m[j] \in M!Touched(a, v)[j]
    BY <1>1, <1>3, <1>13, <2>1
  <2> QED
    BY <1>1, <1>9, <2>1, <2>2 DEF m
<1>14. where \in {"ewram", "iwram", "sram"} \cup {"palette", "vram"} \cup {"oam", "rom", "bios"}
  BY DEF Places, M!Rams
<1> QED
  BY <1>10, <1>11, <1>12, <1>13, <1>14

(* A store of any width. *)
LEMMA StoreKeeps ==
  ASSUME MemoryInv, NEW a \in Nat, NEW v \in {Word, Half, Byte8}, M!Store(a, v), ~OddBytes, ~BITMAP
  PROVE  MemoryInv'
<1> DEFINE n == Len(v)
<1>1. where \in Places /\ where' = where /\ found' = M!Touched(a, v) /\ bios_latch' = bios_latch
  BY DEF M!Store, M!IsRegister, MemoryInv
<1>2. Cell' = Cell
  BY <1>1 DEF Cell, M!Extent
<1>3. mem' \in [Cell -> Int] /\ DOMAIN found' = Cell /\ \A j \in Cell : mem'[j] \in found'[j]
  <2>1. CASE v = Byte8
    <3> DEFINE k == 1
    <3>1. k \in {1} /\ v \in [1..k -> Int]
      BY <2>1, BusAssumption
    <3>2. Len(v) = 1
      BY <2>1, BusAssumption, Spells, 1 \in Nat
    <3>3. mem' = M!write8(a, v)
      BY <3>2 DEF M!Store
    <3>5. where = "vram" => M!Index(a) % 2 = 0
      <4>1. M!Index(a) \in Nat
        BY <1>1, Indices
      <4> QED
        BY <3>2, <4>1 DEF M!Store, M!AtOddByte
    <3> HIDE DEF k
    <3>4. /\ M!write8(a, v) \in [Cell -> Int] /\ DOMAIN M!Touched(a, v) = Cell
          /\ \A j \in Cell : M!write8(a, v)[j] \in M!Touched(a, v)[j]
      BY <1>1, <3>1, <3>5, ByteStores
    <3> QED
      BY <1>1, <3>3, <3>4
  <2>2. CASE v \in {Word, Half}
    <3>1. PICK k \in {2, 4} : v \in [1..k -> Int] /\ Len(v) = k
      <4>1. Word \in [1..4 -> Int] /\ Half \in [1..2 -> Int] /\ 4 \in Nat /\ 2 \in Nat
        BY BusAssumption
      <4>2. Len(Word) = 4 /\ Len(Half) = 2
        BY <4>1, Spells
      <4> QED
        BY <2>2, <4>1, <4>2
    <3>2. mem' = IF where \in M!Rams THEN M!Put(M!Index(M!Aligned(a, k)), v) ELSE mem
      BY <3>1 DEF M!Store, M!write16, M!write32
    <3>3. /\ mem' \in [Cell -> Int] /\ DOMAIN M!Touched(a, v) = Cell
          /\ \A j \in Cell : mem'[j] \in M!Touched(a, v)[j]
      BY <1>1, <3>1, <3>2, WideStores, ZenonT(60)
    <3> QED
      BY <1>1, <3>3
  <2> QED
    BY <2>1, <2>2
<1> QED
  BY <1>1, <1>2, <1>3 DEF MemoryInv

(* Memory as it is when the machine is switched on. *)
LEMMA BlankKeeps ==
  ASSUME where \in Places
  PROVE  M!Blank \in [Cell -> Int]
<1>1. \A i \in Cell : i \in Int
  BY Extents DEF Cell
<1> QED
  BY <1>1 DEF M!Blank, Cell

(* The latch takes a whole word. *)
LEMMA LatchType ==
  ASSUME MemoryInv, where = "bios", NEW a \in Nat
  PROVE  M!LatchAfter(a) \in Seq(Int) /\ Len(M!LatchAfter(a)) = 4
<1> DEFINE i == M!Index(a)
           c == M!Aligned(i, 4)
<1>1. where \in Places /\ mem \in [Cell -> Int] /\ bios_latch \in Seq(Int) /\ Len(bios_latch) = 4
  BY DEF MemoryInv, Places
<1>2. i \in 0..(M!Extent - 1) /\ M!Extent \in Nat
  BY <1>1, Indices, Extents
<1>3. CASE in_bios /\ i + 3 < M!Extent
  <2>1. M!LatchAfter(a) = M!Bytes(c, 4)
    BY <1>3 DEF M!LatchAfter
  <2>2. c \in Nat /\ c <= i
    BY <1>2 DEF M!Aligned
  <2> HIDE DEF i, c
  <2>3. \A k \in 1..4 : c + k - 1 \in Cell
    BY <1>2, <1>3, <2>2 DEF Cell
  <2>4. M!Bytes(c, 4) \in [1..4 -> Int]
    BY <1>1, <2>3 DEF M!Bytes
  <2> QED
    BY <2>1, <2>4, Spells, 4 \in Nat
<1>4. CASE ~(in_bios /\ i + 3 < M!Extent)
  BY <1>1, <1>4 DEF M!LatchAfter
<1> QED
  BY <1>3, <1>4

LEMMA MemoryStarts == M!Init => MemoryInv
<1> SUFFICES ASSUME M!Init PROVE MemoryInv
  OBVIOUS
<1>1. where \in Places \cup M!Pairs
  BY DEF M!Init, Places
<1>2. ASSUME where \in Places
      PROVE  /\ mem \in [Cell -> Int] /\ DOMAIN found = Cell
             /\ \A i \in Cell : mem[i] \in found[i]
             /\ bios_latch \in Seq(Int) /\ Len(bios_latch) = 4
  <2>1. mem \in [Cell -> Int]
    BY <1>2, BlankKeeps DEF M!Init
  <2>2. found = [i \in Cell |-> {mem[i]}]
    BY <2>1 DEF M!Init
  <2>3. bios_latch \in Seq(Int) /\ Len(bios_latch) = 4
    BY DEF M!Init
  <2> QED
    BY <2>1, <2>2, <2>3
<1> QED
  BY <1>1, <1>2 DEF MemoryInv

(* Every step of the memories and of the registers. *)
LEMMA MemoryStep ==
  ASSUME ~OddBytes, ~BITMAP, MemoryInv, M!Next
  PROVE  MemoryInv'
<1>1. \A a \in M!Address : a \in Nat
  BY DEF M!Address
<1>2. ASSUME where' = where, where \notin Places PROVE MemoryInv'
  BY <1>2 DEF MemoryInv
<1>3. ASSUME where' = where, mem' = mem, found' = found, where \in Places =>
               bios_latch' \in Seq(Int) /\ Len(bios_latch') = 4
      PROVE  MemoryInv'
  <2>1. Cell' = Cell
    BY <1>3 DEF Cell, M!Extent
  <2> QED
    BY <1>3, <2>1 DEF MemoryInv
<1>4. \A p \in M!Pairs : p \notin Places
  BY DEF M!Pairs, Places, M!Rams
<1>5. CASE M!PowerCycle
  <2>1. where \in Places /\ where' = where
    BY <1>5 DEF M!PowerCycle, M!IsRegister, MemoryInv
  <2>2. Cell' = Cell
    BY <2>1 DEF Cell, M!Extent
  <2>3. mem' \in [Cell -> Int] /\ DOMAIN found' = Cell /\ \A i \in Cell : mem'[i] \in found'[i]
    <3>1. CASE where = "sram"
      BY <1>5, <2>1, <3>1 DEF M!PowerCycle, MemoryInv
    <3>2. CASE where # "sram"
      <4>1. mem' = M!Blank /\ found' = [i \in DOMAIN mem |-> {mem'[i]}] /\ DOMAIN mem = Cell
        BY <1>5, <2>1, <3>2 DEF M!PowerCycle, MemoryInv
      <4> QED
        BY <2>1, <4>1, BlankKeeps
    <3> QED
      BY <3>1, <3>2
  <2>4. bios_latch' \in Seq(Int) /\ Len(bios_latch') = 4
    BY <1>5 DEF M!PowerCycle
  <2> QED
    BY <2>1, <2>2, <2>3, <2>4 DEF MemoryInv
<1>6. ASSUME NEW a \in M!Address, NEW v \in {Word, Half, Byte8}, M!Store(a, v) PROVE MemoryInv'
  BY <1>1, <1>6, StoreKeeps
<1>7. CASE M!EnterOrLeave
  BY <1>3, <1>7 DEF M!EnterOrLeave, MemoryInv
<1>8. ASSUME NEW a \in M!Address, M!FetchBios(a) PROVE MemoryInv'
  <2>1. where = "bios" /\ bios_latch' = M!LatchAfter(a) /\ where' = where /\ mem' = mem /\ found' = found
    BY <1>8 DEF M!FetchBios
  <2> QED
    BY <1>1, <1>3, <2>1, LatchType
<1>9. ASSUME NEW r, NEW p, M!StoreTo(r, p) PROVE MemoryInv'
  <2>1. where' = where /\ where \in M!Pairs
    BY <1>9 DEF M!StoreTo, M!IsRegister
  <2> QED
    BY <1>2, <1>4, <2>1
<1> QED
  BY <1>5, <1>6, <1>7, <1>8, <1>9 DEF M!Next, M!StoreIo8, M!StoreIo16, M!StoreIo32

(* With the display in a tile mode and bytes stored to VRAM at even        *)
(* addresses only: no store is lost, none reaches a byte that is not its   *)
(* own or the other of its halfword, and loads of all widths, alignments   *)
(* and mirrors give what stores left (bus/mod.rs, read8 to write32).       *)
THEOREM StoresAreSeen ==
  ASSUME ~OddBytes, ~BITMAP
  PROVE  BusSpec => []LoadsSeeStores
<1>1. BusInit => MemoryInv
  BY MemoryStarts DEF BusInit, Init1
<1>2. MemoryInv /\ [BusNext]_busVars => MemoryInv'
  <2>1. MemoryInv /\ UNCHANGED memoryVars => MemoryInv'
    BY DEF MemoryInv, memoryVars, Cell, M!Extent
  <2> QED
    BY <2>1, MemoryStep DEF BusNext, UseCartridge, UseMemory, UseServices, busVars
<1>3. MemoryInv => LoadsSeeStores
  <2> SUFFICES ASSUME MemoryInv PROVE M!LoadsSeeStores
    BY DEF LoadsSeeStores
  <2> SUFFICES ASSUME where \in Places PROVE M!LoadsSeeStores
    BY DEF M!LoadsSeeStores, MemoryInv, M!IsRegister
  <2>1. \A a \in M!Address : a \in Nat
    BY DEF M!Address
  <2>2. \A i \in DOMAIN mem : mem[i] \in found[i]
    BY DEF MemoryInv
  <2>3. ASSUME NEW a \in M!Address
        PROVE  LET b == M!Aligned(a, 2)
                   c == M!Aligned(a, 4)
               IN  IF where = "sram"
                   THEN M!read32(a) = M!read16(c) \o M!read16(c) /\ M!read16(a) = M!read8(b) \o M!read8(b)
                   ELSE M!read32(a) = M!read16(c) \o M!read16(c + 2) /\ M!read16(a) = M!read8(b) \o M!read8(b + 1)
    BY <2>1, LoadsAgree
  <2>4. ASSUME NEW a \in M!Address PROVE M!read8(a) = M!read8(a + M!Window)
    BY <2>1, MirrorsAgree
  <2>5. ASSUME NEW a \in M!Address, where = "bios", ~in_bios PROVE M!read32(a) = bios_latch
    BY <2>1, <2>5, LatchLoads DEF MemoryInv
  <2> QED
    BY <2>2, <2>3, <2>4, <2>5 DEF M!LoadsSeeStores
<1> QED
  BY <1>1, <1>2, <1>3, PTL DEF BusSpec
-----------------------------------------------------------------------------
(***************************************************************************)
(* The services: division.                                                 *)
(***************************************************************************)

(* What the quotient and the remainder of two magnitudes are.              *)
LEMMA DivisionOf ==
  ASSUME NEW n \in Int, NEW d \in Int, d # 0
  PROVE  LET q == S!Quotient(n, d)
             r == n - q * d
         IN  /\ q \in Int /\ r \in Int /\ q * d + r = n
             /\ S!Magnitude(r) < S!Magnitude(d)
             /\ r = 0 \/ (r < 0) = (n < 0)
<1> DEFINE x == S!Magnitude(n)
           y == S!Magnitude(d)
           k == x \div y
           m == x % y
<1>1. x \in Nat /\ y \in Nat \ {0} /\ (n < 0 => n = -x) /\ (~(n < 0) => n = x)
      /\ (d < 0 => d = -y) /\ (~(d < 0) => d = y) /\ (x = 0 => ~(n < 0))
  BY DEF S!Magnitude
<1> HIDE DEF x, y
<1>2. k \in Nat /\ m \in 0..(y - 1) /\ x = y * k + m
  BY <1>1, Division
<1>3. S!Quotient(n, d) = IF (n < 0) = (d < 0) THEN k ELSE -k
  <2>1. S!Quotient(n, d) = (IF (n < 0) = (d < 0) THEN 1 ELSE -1) * k
    BY DEF S!Quotient, x, y
  <2> HIDE DEF k
  <2>2. 1 * k = k /\ (-1) * k = -k
    BY <1>2
  <2> QED
    BY <2>1, <2>2
<1> HIDE DEF k, m
<1> DEFINE q == S!Quotient(n, d)
           z == y * k
<1>4. q * d = IF n < 0 THEN -z ELSE z
  <2>1. k * y = z /\ (-k) * y = -z /\ k * (-y) = -z /\ (-k) * (-y) = z
    BY <1>1, <1>2
  <2> HIDE DEF z
  <2>2. CASE n < 0 /\ d < 0
    BY <1>1, <1>3, <2>1, <2>2
  <2>3. CASE n < 0 /\ ~(d < 0)
    BY <1>1, <1>3, <2>1, <2>3
  <2>4. CASE ~(n < 0) /\ d < 0
    BY <1>1, <1>3, <2>1, <2>4
  <2>5. CASE ~(n < 0) /\ ~(d < 0)
    BY <1>1, <1>3, <2>1, <2>5
  <2> QED
    BY <2>2, <2>3, <2>4, <2>5
<1>5. z \in Nat /\ x = z + m /\ q \in Int
  BY <1>1, <1>2, <1>3
<1> DEFINE p == q * d
           r == n - p
<1> HIDE DEF z, q
<1>6. p \in Int /\ r = IF n < 0 THEN -m ELSE m
  BY <1>1, <1>2, <1>4, <1>5
<1>7. p + r = n
  BY <1>6
<1> HIDE DEF p
<1>8. r \in Int /\ S!Magnitude(r) = m /\ (r = 0 \/ (r < 0) = (n < 0))
  BY <1>2, <1>6 DEF S!Magnitude
<1>9. m < y
  BY <1>1, <1>2
<1> QED
  BY <1>5, <1>7, <1>8, <1>9 DEF p, q, y

(* A call for a quotient. *)
LEMMA Divides ==
  ASSUME NEW n \in Int, NEW d \in Int, regs' = S!swi_div(n, d), due' \in {{}, {[n |-> n, d |-> d]}}
  PROVE  S!DivRight'
<1> SUFFICES ASSUME NEW p \in due', "n" \in DOMAIN p
             PROVE  (IF p.d = 0 THEN regs.r0 = p.n /\ regs.r1 = 0
                     ELSE /\ regs.r0 * p.d + regs.r1 = p.n
                          /\ S!Magnitude(regs.r1) < S!Magnitude(p.d)
                          /\ regs.r1 = 0 \/ (regs.r1 < 0) = (p.n < 0)
                          /\ regs.r3 = S!Magnitude(regs.r0))'
  BY DEF S!DivRight, S!Magnitude
<1>1. p.n = n /\ p.d = d
  OBVIOUS
<1>2. CASE d = 0
  BY <1>1, <1>2 DEF S!swi_div
<1>3. CASE d # 0
  <2>1. regs' = [r0 |-> S!Quotient(n, d), r1 |-> n - S!Quotient(n, d) * d,
                 r3 |-> S!Magnitude(S!Quotient(n, d))]
    BY <1>3 DEF S!swi_div
  <2> DEFINE q == S!Quotient(n, d)
             r == n - q * d
             t == S!Magnitude(q)
  <2>2. /\ q * d + r = n /\ S!Magnitude(r) < S!Magnitude(d)
        /\ r = 0 \/ (r < 0) = (n < 0)
    BY <1>3, DivisionOf
  <2>3. regs'.r0 = q /\ regs'.r1 = r /\ regs'.r3 = t
    BY <2>1
  <2> HIDE DEF q, r
  <2>4. S!Magnitude(q) = (IF q < 0 THEN -q ELSE q) /\ S!Magnitude(r) = (IF r < 0 THEN -r ELSE r)
        /\ S!Magnitude(d) = (IF d < 0 THEN -d ELSE d)
    BY DEF S!Magnitude
  <2> HIDE DEF t
  <2> QED
    BY <1>1, <1>3, <2>2, <2>3, <2>4 DEF S!Magnitude, t
<1> QED
  BY <1>2, <1>3

(* Div and DivArm round towards zero (bios.rs, swi_div). *)
THEOREM DivisionsRound == BusSpec => []DivRight
<1>1. BusInit => S!DivRight
  BY DEF BusInit, Init2, S!Init, S!DivRight
<1>2. S!DivRight /\ [BusNext]_busVars => S!DivRight'
  <2> SUFFICES ASSUME S!DivRight, [BusNext]_busVars PROVE S!DivRight'
    OBVIOUS
  <2>1. ASSUME UNCHANGED serviceVars PROVE S!DivRight'
    BY <2>1 DEF serviceVars, S!DivRight, S!Magnitude
  <2>2. ASSUME NEW m, NEW promise, S!Leaves(m, promise), \A p \in promise : "n" \notin DOMAIN p
        PROVE  S!DivRight'
    BY <2>2 DEF S!Leaves, S!DivRight
  <2>3. ASSUME NEW n \in S!Integer, NEW d \in S!Integer, S!Div(n, d) \/ S!DivArm(d, n)
        PROVE  S!DivRight'
    <3>1. n \in Int /\ d \in Int
      BY BusAssumption DEF S!Integer
    <3>2. regs' = S!swi_div(n, d) /\ due' \in {{}, {[n |-> n, d |-> d]}}
      BY <2>3 DEF S!Div, S!DivArm, S!swi_div_arm
    <3> QED
      BY <3>1, <3>2, Divides
  <2>4. CASE S!Next
    <3>1. ASSUME NEW pos, NEW size, NEW s, NEW vram,
                 S!LZ77UnComp(pos, size, s, vram) \/ S!RLUnComp(pos, size, s, vram)
          PROVE  S!DivRight'
      <4>1. PICK m : S!Unpacks(pos, size, s, vram, m)
        BY <3>1 DEF S!LZ77UnComp, S!RLUnComp
      <4> QED
        BY <2>2, <4>1 DEF S!Unpacks
    <3>2. ASSUME NEW pos, NEW u, NEW w, NEW offset, NEW zero, S!BitUnPack(pos, u, w, offset, zero)
          PROVE  S!DivRight'
      <4>1. PICK m, promise : /\ S!Leaves(m, promise)
                              /\ promise = {} \/ \E x : promise = {[ram |-> x]}
        BY <3>2 DEF S!BitUnPack
      <4> QED
        BY <2>2, <4>1
    <3>3. ASSUME NEW src, NEW dst, NEW count, NEW fixed,
                 S!CpuSet(src, dst, count, fixed) \/ S!CpuFastSet(src, dst, count, fixed)
          PROVE  S!DivRight'
      <4>1. PICK m, promise : /\ S!Leaves(m, promise)
                              /\ promise = {} \/ \E x : promise = {[ram |-> x]}
        BY <3>3 DEF S!CpuSet, S!CpuFastSet, S!Copied
      <4> QED
        BY <2>2, <4>1
    <3>4. ASSUME NEW m, S!Refill(m) PROVE S!DivRight'
      BY <3>4 DEF S!Refill, S!DivRight
    <3> QED
      BY <2>3, <2>4, <3>1, <3>2, <3>3, <3>4 DEF S!Next
  <2> QED
    BY <2>1, <2>4 DEF BusNext, UseCartridge, UseMemory, UseServices, busVars
<1>3. S!DivRight => DivRight
  BY DEF DivRight
<1> QED
  BY <1>1, <1>2, <1>3, PTL DEF BusSpec
-----------------------------------------------------------------------------
(***************************************************************************)
(* The I/O registers.                                                      *)
(***************************************************************************)
IoPair == [1..2 -> M!IoByte]
Registers == [io : [1..2 -> IoPair], counter : IoPair]
Held == [1..2 -> [1..2 -> SUBSET M!IoByte]]

(* The bits of a byte that are not in another one, and that of a byte and  *)
(* itself there are none.                                                  *)
LEMMA AndNotType ==
  ASSUME NEW x \in M!IoByte, NEW v \in M!IoByte
  PROVE  M!AndNot(x, v) \in M!IoByte /\ M!AndNot(x, x) = 0
<1> DEFINE B == M!IoByte
           Next1(g, p) == IF p[1] = 0 THEN 0
                          ELSE (IF p[2] % 2 = 0 THEN p[1] % 2 ELSE 0) + 2 * g[<<p[1] \div 2, p[2] \div 2>>]
           Body(g) == [p \in B \X B |-> Next1(g, p)]
           kept == CHOOSE g : g = Body(g)
           last == BYTE - 1
           Goes(g, k) == \A p \in B \X B : p[1] <= k => g[p] = Next1(g, p)
           Long == {k \in Nat : \E g \in [B \X B -> Int] : Goes(g, k)}
<1>1. B = 0..last /\ last \in Nat /\ BYTE \in Nat \ {0}
  BY BusAssumption DEF M!IoByte
<1> HIDE DEF B, last
<1>2. \A y \in B : y \in Nat /\ y \div 2 \in B /\ y \div 2 \in Nat /\ (y # 0 => y \div 2 < y) /\ y \div 2 <= y /\ y % 2 \in {0, 1}
                   /\ y = 2 * (y \div 2) + (y % 2)
  BY <1>1
<1>3. \A p \in B \X B : p[1] \in B /\ p[2] \in B /\ <<p[1] \div 2, p[2] \div 2>> \in B \X B
  BY <1>2
<1>4. \A g \in [B \X B -> Int], p \in B \X B : Next1(g, p) \in Int
  <2> SUFFICES ASSUME NEW g \in [B \X B -> Int], NEW p \in B \X B PROVE Next1(g, p) \in Int
    OBVIOUS
  <2>1. g[<<p[1] \div 2, p[2] \div 2>>] \in Int
    BY <1>3
  <2>2. p[1] % 2 \in Int
    BY <1>2, <1>3
  <2> QED
    BY <2>1, <2>2
<1>16. \A y \in B : y \in Nat /\ (y <= 0 => y = 0)
  BY <1>1
<1>5. 0 \in Long
  <2> DEFINE g == [p \in B \X B |-> 0]
  <2>1. g \in [B \X B -> Int]
    OBVIOUS
  <2>2. Goes(g, 0)
    BY <1>2, <1>3
  <2> QED
    BY <2>1, <2>2
<1>6. ASSUME NEW k \in Nat, k \in Long PROVE k + 1 \in Long
  <2>1. PICK g \in [B \X B -> Int] : Goes(g, k)
    BY <1>6
  <2> DEFINE h == [p \in B \X B |-> IF p[1] <= k THEN g[p] ELSE Next1(g, p)]
  <2>2. h \in [B \X B -> Int]
    <3> HIDE DEF Next1
    <3> QED
      BY <1>4
  <2>3. Goes(h, k + 1)
    <3> SUFFICES ASSUME NEW p \in B \X B, p[1] <= k + 1 PROVE h[p] = Next1(h, p)
      OBVIOUS
    <3> DEFINE q == <<p[1] \div 2, p[2] \div 2>>
    <3>1. q \in B \X B /\ q[1] = p[1] \div 2
      BY <1>3
    <3>2. CASE p[1] = 0
      <4>1. g[p] = Next1(g, p)
        <5> HIDE DEF Next1
        <5>1. p[1] <= k
          BY <3>2
        <5> QED
          BY <2>1, <5>1
      <4>2. h[p] = g[p]
        <5> HIDE DEF Next1
        <5> QED
          BY <3>2
      <4> QED
        BY <3>2, <4>1, <4>2
    <3>3. CASE p[1] # 0
      <4>1. p[1] \div 2 <= k
        BY <1>2, <1>3, <3>3
      <4>2. h[q] = g[q]
        BY <3>1, <4>1
      <4>3. h[p] = Next1(g, p)
        <5> HIDE DEF Next1, q
        <5> QED
          BY <2>1
      <4> QED
        BY <3>3, <4>2, <4>3
    <3> QED
      BY <3>2, <3>3
  <2> HIDE DEF h, Goes
  <2> QED
    BY <2>2, <2>3
<1> HIDE DEF Long
<1>7. last \in Long
  BY <1>1, <1>5, <1>6, InductionTo
<1>8. kept = Body(kept)
  <2>1. PICK g \in [B \X B -> Int] : Goes(g, last)
    BY <1>7 DEF Long
  <2>2. \A p \in B \X B : g[p] = Next1(g, p)
    <3> HIDE DEF Next1
    <3>1. \A p \in B \X B : p[1] <= last
      BY <1>1, <1>3
    <3> QED
      BY <2>1, <3>1
  <2>3. g = Body(g)
    <3> HIDE DEF Next1
    <3> QED
      BY <2>2
  <2> HIDE DEF Body
  <2> QED
    BY <2>3
<1>9. \A y, w : M!AndNot(y, w) = kept[<<y, w>>]
  BY DEF M!AndNot, B
<1> HIDE DEF kept
<1>10. \A p \in B \X B : kept[p] = Next1(kept, p)
  <2> HIDE DEF Next1
  <2>1. kept = [p \in B \X B |-> Next1(kept, p)]
    BY <1>8
  <2> QED
    BY <2>1
<1> DEFINE Right(k) == \A y \in B : y <= k => kept[<<y, y>>] = 0 /\ \A w \in B : kept[<<y, w>>] \in 0..y
           K == {k \in Nat : Right(k)}
<1>11. 0 \in K
  <2>1. \A y \in B : y <= 0 => y = 0
    BY <1>16
  <2>2. ASSUME NEW y \in B, y = 0, NEW w \in B PROVE kept[<<y, w>>] = 0
    <3> DEFINE p == <<y, w>>
    <3>1. p \in B \X B /\ p[1] = 0
      BY <2>2
    <3> HIDE DEF p
    <3>2. kept[p] = 0
      BY <1>10, <3>1
    <3> QED
      BY <3>2 DEF p
  <2>3. \A y \in B : y <= 0 => kept[<<y, y>>] = 0 /\ \A w \in B : kept[<<y, w>>] \in 0..y
    BY <2>1, <2>2
  <2> QED
    BY <2>3
<1>12. ASSUME NEW k \in Nat, k \in K PROVE k + 1 \in K
  <2> SUFFICES ASSUME NEW y \in B, y <= k + 1, y # 0
               PROVE  kept[<<y, y>>] = 0 /\ \A w \in B : kept[<<y, w>>] \in 0..y
    BY <1>11
  <2> DEFINE z == y \div 2
  <2>1. z \in B /\ z <= k /\ y = 2 * z + (y % 2) /\ y % 2 \in {0, 1} /\ z \in Nat
    BY <1>2
  <2>2. kept[<<z, z>>] = 0 /\ \A w \in B : kept[<<z, w>>] \in 0..z
    BY <1>12, <2>1
  <2>3. \A w \in B : kept[<<y, w>>] = (IF w % 2 = 0 THEN y % 2 ELSE 0) + 2 * kept[<<z, w \div 2>>]
    BY <1>10
  <2>4. kept[<<y, y>>] = 0
    BY <2>1, <2>2, <2>3
  <2>5. ASSUME NEW w \in B PROVE kept[<<y, w>>] \in 0..y
    <3>1. kept[<<z, w \div 2>>] \in 0..z
      BY <1>2, <2>2
    <3> DEFINE u == kept[<<z, w \div 2>>]
    <3>2. kept[<<y, w>>] = (IF w % 2 = 0 THEN y % 2 ELSE 0) + 2 * u
      BY <2>3
    <3> HIDE DEF u, z
    <3> QED
      BY <2>1, <3>1, <3>2 DEF u
  <2> QED
    BY <2>4, <2>5
<1> HIDE DEF K
<1>13. last \in K
  BY <1>1, <1>11, <1>12, InductionTo
<1>14. Right(last)
  BY <1>13 DEF K
<1>15. x <= last /\ x \in B /\ v \in B /\ x \in Nat /\ \A y \in 0..x : y \in B
  BY <1>1 DEF B
<1> QED
  BY <1>9, <1>14, <1>15 DEF B

(* The second of two halves: as a number, and as it is read after the sign *)
(* of a reference point went up to its unused bits.                        *)
Upper(y, z) == y + BYTE * z
Extended(n) == IF n >= (BYTE * BYTE) \div 4 THEN n + (BYTE * BYTE) \div 2 ELSE n

(* What registers hold is among the values they may.                       *)
Fits(r, p) ==
  /\ r \in Registers /\ p \in Held
  /\ where # "BG_REF" => \A h, b \in 1..2 : r.io[h][b] \in p[h][b]
  /\ where = "BG_REF" =>
       /\ \A b \in 1..2 : r.io[1][b] \in p[1][b]
       /\ \E y, z \in M!IoByte : /\ y \in p[2][1] /\ z \in p[2][2]
                                 /\ z < BYTE \div 2 =>
                                      Upper(r.io[2][1], r.io[2][2]) = Extended(Upper(y, z))
  /\ where = "DISPSTAT" => r.io[1][1] % 2 = 1
  /\ where = "POSTFLG" => r.io[1][2] = 0

(* A halfword stored to any but a reference point.                         *)
LEMMA HalfFits ==
  ASSUME NEW r, NEW p, Fits(r, p), where # "BG_REF", NEW h \in {1, 2}, NEW v \in IoPair
  PROVE  Fits(M!write_io16(r, h, v), M!HalfStored(p, h, v))
<1> DEFINE q == M!write_io16(r, h, v)
           s == M!HalfStored(p, h, v)
<1>1. /\ r \in Registers /\ p \in Held
      /\ \A g, b \in 1..2 : r.io[g][b] \in p[g][b]
      /\ \A g, b \in 1..2 : r.io[g][b] \in M!IoByte
      /\ v[1] \in M!IoByte /\ v[2] \in M!IoByte
  BY DEF Fits, Registers, IoPair
<1>2. ASSUME NEW w \in IoPair, NEW t \in [1..2 -> SUBSET M!IoByte], w[1] \in t[1], w[2] \in t[2],
             NEW x, x.io = [r.io EXCEPT ![h] = w], x \in Registers,
             where = "DISPSTAT" /\ h = 1 => w[1] % 2 = 1,
             where = "POSTFLG" /\ h = 1 => w[2] = 0
      PROVE  Fits(x, [p EXCEPT ![h] = t])
  <2> DEFINE y == [p EXCEPT ![h] = t]
  <2>1. y \in Held
    BY <1>1 DEF Held
  <2>2. \A g \in 1..2 : x.io[g] = (IF g = h THEN w ELSE r.io[g]) /\ y[g] = (IF g = h THEN t ELSE p[g])
    BY <1>1, <1>2 DEF Registers, Held
  <2> HIDE DEF y
  <2>3. \A g, b \in 1..2 : x.io[g][b] \in y[g][b]
    BY <1>1, <1>2, <2>2
  <2>4. (where = "DISPSTAT" => x.io[1][1] % 2 = 1) /\ (where = "POSTFLG" => x.io[1][2] = 0)
    BY <1>2, <2>2 DEF Fits
  <2> QED
    BY <1>2, <2>1, <2>3, <2>4 DEF Fits, y
<1>3. ASSUME NEW w \in IoPair PROVE [r EXCEPT !.io[h] = w] \in Registers
  BY <1>1 DEF Registers
<1>4. CASE where = "DISPSTAT"
  <2>1. CASE h = 2
    <3>1. q = r /\ s = p
      BY <1>4, <2>1 DEF M!write_io16, M!HalfStored, M!LOW, M!HIGH
    <3> QED
      BY <3>1
  <2>2. CASE h = 1
    <3> DEFINE n == 2 * (v[1] \div 2) + 1
               w == <<n, v[2]>>
               t == <<{n}, {v[2]}>>
    <3>1. r.io[1][1] % 2 = 1
      BY <1>4 DEF Fits
    <3>2. q = [r EXCEPT !.io[h] = w]
      BY <1>4, <2>2, <3>1 DEF M!write_io16, M!Writable, M!LOW, M!HIGH
    <3>3. s = [p EXCEPT ![h] = t]
      BY <1>4, <2>2 DEF M!HalfStored, M!LOW, M!HIGH
    <3>4. n \in M!IoByte /\ n % 2 = 1
      BY <1>1, BusAssumption DEF M!IoByte
    <3> HIDE DEF n
    <3>5. w \in IoPair /\ t \in [1..2 -> SUBSET M!IoByte] /\ w[1] = n /\ w[1] \in t[1] /\ w[2] \in t[2]
      BY <1>1, <3>4 DEF IoPair
    <3> HIDE DEF w, t
    <3>6. q \in Registers /\ q.io = [r.io EXCEPT ![h] = w]
      BY <1>1, <1>3, <3>2, <3>5 DEF Registers
    <3> HIDE DEF q, s
    <3>7. (where = "DISPSTAT" /\ h = 1 => w[1] % 2 = 1) /\ (where = "POSTFLG" /\ h = 1 => w[2] = 0)
      BY <1>4, <3>4, <3>5
    <3>8. Fits(q, [p EXCEPT ![h] = t])
      BY ONLY <1>2, <3>5, <3>6, <3>7
    <3> QED
      BY <3>3, <3>8 DEF q, s
  <2> QED
    BY <2>1, <2>2
<1>5. CASE where = "POSTFLG"
  <2>1. CASE h = 2
    <3>1. q = r /\ s = p
      BY <1>5, <2>1 DEF M!write_io16, M!HalfStored, M!LOW, M!HIGH
    <3> QED
      BY <3>1
  <2>2. CASE h = 1
    <3> DEFINE w == <<v[1], 0>>
               t == <<{v[1]}, {0}>>
    <3>2. q = [r EXCEPT !.io[h] = w]
      BY <1>5, <2>2 DEF M!write_io16, M!LOW, M!HIGH
    <3>3. s = [p EXCEPT ![h] = t]
      BY <1>5, <2>2 DEF M!HalfStored, M!LOW, M!HIGH
    <3>4. 0 \in M!IoByte
      BY BusAssumption DEF M!IoByte
    <3>5. w \in IoPair /\ t \in [1..2 -> SUBSET M!IoByte] /\ w[1] \in t[1] /\ w[2] \in t[2] /\ w[2] = 0
      BY <1>1, <3>4 DEF IoPair
    <3> HIDE DEF w, t
    <3>6. q \in Registers /\ q.io = [r.io EXCEPT ![h] = w]
      BY <1>1, <1>3, <3>2, <3>5 DEF Registers
    <3> HIDE DEF q, s
    <3>7. (where = "DISPSTAT" /\ h = 1 => w[1] % 2 = 1) /\ (where = "POSTFLG" /\ h = 1 => w[2] = 0)
      BY <1>5, <3>5
    <3>8. Fits(q, [p EXCEPT ![h] = t])
      BY ONLY <1>2, <3>5, <3>6, <3>7
    <3> QED
      BY <3>3, <3>8 DEF q, s
  <2> QED
    BY <2>1, <2>2
<1>6. CASE where = "IE_IF" /\ h = 2
  <2> DEFINE w == <<M!AndNot(r.io[h][1], v[1]), M!AndNot(r.io[h][2], v[2])>>
             t == [b \in 1..2 |-> {M!AndNot(x, v[b]) : x \in p[h][b]}]
  <2>1. q = [r EXCEPT !.io[h] = w]
    BY <1>6 DEF M!write_io16, M!LOW, M!HIGH
  <2>2. s = [p EXCEPT ![h] = t]
    BY <1>1, <1>6 DEF M!HalfStored, M!LOW, M!HIGH, Held
  <2>3. \A b \in 1..2 : \A x \in p[h][b] : x \in M!IoByte
    BY <1>1 DEF Held
  <2>4. t \in [1..2 -> SUBSET M!IoByte]
    BY <1>1, <2>3, AndNotType
  <2>5. w \in IoPair /\ w[1] \in t[1] /\ w[2] \in t[2]
    <3>1. M!AndNot(r.io[h][1], v[1]) \in M!IoByte /\ M!AndNot(r.io[h][2], v[2]) \in M!IoByte
      BY <1>1, AndNotType
    <3> QED
      BY <1>1, <3>1 DEF IoPair
  <2> HIDE DEF w, t
  <2>6. q \in Registers /\ q.io = [r.io EXCEPT ![h] = w]
    BY <1>1, <1>3, <2>1, <2>5 DEF Registers
  <2> HIDE DEF q, s
  <2> QED
    BY <1>2, <1>6, <2>2, <2>4, <2>5, <2>6 DEF q, s
<1>8. CASE where = "BG_OFS"
  <2> DEFINE w == <<v[1], v[2] % 2>>
             t == <<{v[1]}, {v[2] % 2}>>
  <2>1. q = [r EXCEPT !.io[h] = w]
    BY <1>8 DEF M!write_io16, M!Offset9
  <2>2. s = [p EXCEPT ![h] = t]
    BY <1>8 DEF M!HalfStored
  <2>3. v[2] % 2 \in M!IoByte
    BY <1>1, BusAssumption DEF M!IoByte
  <2>4. w \in IoPair /\ t \in [1..2 -> SUBSET M!IoByte] /\ w[1] \in t[1] /\ w[2] \in t[2]
    BY <1>1, <2>3 DEF IoPair
  <2> HIDE DEF w, t
  <2>5. q \in Registers /\ q.io = [r.io EXCEPT ![h] = w]
    BY <1>1, <1>3, <2>1, <2>4 DEF Registers
  <2> HIDE DEF q, s
  <2>6. (where = "DISPSTAT" /\ h = 1 => w[1] % 2 = 1) /\ (where = "POSTFLG" /\ h = 1 => w[2] = 0)
    BY <1>8
  <2>7. Fits(q, [p EXCEPT ![h] = t])
    BY ONLY <1>2, <2>4, <2>5, <2>6
  <2> QED
    BY <2>2, <2>7 DEF q, s
<1>7. CASE where \notin {"DISPSTAT", "POSTFLG", "BG_OFS"} /\ ~(where = "IE_IF" /\ h = 2)
  <2> DEFINE t == <<{v[1]}, {v[2]}>>
             new == [r EXCEPT !.io[h] = v]
  <2>1. s = [p EXCEPT ![h] = t]
    BY <1>7 DEF M!HalfStored, M!LOW, M!HIGH
  <2>2. t \in [1..2 -> SUBSET M!IoByte] /\ v[1] \in t[1] /\ v[2] \in t[2]
    BY <1>1
  <2>3. new \in Registers /\ new.io = [r.io EXCEPT ![h] = v]
    BY <1>1, <1>3 DEF Registers
  <2>4. q = new \/ q = [new EXCEPT !.counter = r.io[1]]
    BY <1>7 DEF M!write_io16, M!LOW, M!HIGH
  <2> HIDE DEF t, new
  <2>5. q \in Registers /\ q.io = [r.io EXCEPT ![h] = v]
    BY <1>1, <2>3, <2>4 DEF Registers
  <2> HIDE DEF q, s
  <2>6. (where = "DISPSTAT" /\ h = 1 => v[1] % 2 = 1) /\ (where = "POSTFLG" /\ h = 1 => v[2] = 0)
    BY <1>7
  <2>7. Fits(q, [p EXCEPT ![h] = t])
    BY ONLY v \in IoPair, <1>2, <2>2, <2>5, <2>6
  <2> QED
    BY <2>1, <2>7 DEF q, s
<1> QED
  BY <1>4, <1>5, <1>6, <1>7, <1>8

(* Which half is stored to, and what a half is to hold depends, byte for   *)
(* byte, on what is stored.                                                *)
LEMMA HalfOnly ==
  ASSUME NEW p \in Held, NEW h \in {1, 2}, NEW v, NEW w, NEW b \in {1, 2}, v[b] = w[b],
         ~(where = "POSTFLG" /\ h = 1 /\ b = 2)
  PROVE  /\ M!HalfStored(p, h, v)[h][b] = M!HalfStored(p, h, w)[h][b]
         /\ M!HalfStored(p, h, v)[3 - h] = p[3 - h]
<1>1. p \in [1..2 -> [1..2 -> SUBSET M!IoByte]] /\ h \in 1..2 /\ 3 - h \in 1..2 /\ 3 - h # h
  BY DEF Held
<1>2. CASE (where = "DISPSTAT" /\ h = 2) \/ (where = "POSTFLG" /\ h = 2)
  BY <1>2 DEF M!HalfStored, M!LOW, M!HIGH
<1>3. CASE where = "DISPSTAT" /\ h = 1
  <2> DEFINE F(n) == {2 * (n \div 2) + 1}
             T(x) == <<F(x[1]), {x[2]}>>
  <2>1. \A x : M!HalfStored(p, h, x) = [p EXCEPT ![h] = T(x)]
    BY <1>1, <1>3 DEF M!HalfStored, M!LOW, M!HIGH
  <2> HIDE DEF F
  <2>2. T(v)[b] = T(w)[b]
    OBVIOUS
  <2> HIDE DEF T
  <2> QED
    BY <1>1, <2>1, <2>2
<1>4. CASE where = "POSTFLG" /\ h = 1
  BY <1>1, <1>4 DEF M!HalfStored, M!LOW, M!HIGH
<1>5. CASE where = "IE_IF" /\ h = 2
  <2> DEFINE T(x) == [c \in 1..2 |-> {M!AndNot(y, x[c]) : y \in p[h][c]}]
  <2>1. \A x : M!HalfStored(p, h, x) = [p EXCEPT ![h] = T(x)]
    BY <1>1, <1>5 DEF M!HalfStored, M!LOW, M!HIGH
  <2>2. T(v)[b] = T(w)[b]
    OBVIOUS
  <2> HIDE DEF T
  <2> QED
    BY <1>1, <2>1, <2>2
<1>7. CASE where = "BG_OFS"
  <2> DEFINE F(n) == n % 2
             T(x) == <<{x[1]}, {F(x[2])}>>
  <2>1. \A x : M!HalfStored(p, h, x) = [p EXCEPT ![h] = T(x)]
    BY <1>1, <1>7 DEF M!HalfStored
  <2> HIDE DEF F
  <2>2. T(v)[b] = T(w)[b]
    OBVIOUS
  <2> HIDE DEF T
  <2> QED
    BY <1>1, <2>1, <2>2, SMTT(40)
<1>6. CASE where \notin {"DISPSTAT", "POSTFLG", "BG_OFS"} /\ ~(where = "IE_IF" /\ h = 2)
  <2> DEFINE T(x) == <<{x[1]}, {x[2]}>>
  <2>1. \A x : M!HalfStored(p, h, x) = [p EXCEPT ![h] = T(x)]
    BY <1>1, <1>6 DEF M!HalfStored, M!LOW, M!HIGH
  <2>2. T(v)[b] = T(w)[b]
    OBVIOUS
  <2> HIDE DEF T
  <2> QED
    BY <1>1, <2>1, <2>2, SMTT(40)
<1> QED
  BY <1>2, <1>3, <1>4, <1>5, <1>6, <1>7

(* What a byte stored leaves in the other byte of its half.                *)
LEMMA OtherByte ==
  ASSUME NEW r, NEW p, Fits(r, p), r.io = io, r.counter = counter,
         where \in M!Pairs, where # "BG_REF",
         NEW h \in {1, 2}, NEW b \in {1, 2}, NEW v \in M!IoByte, ~(where = "POSTFLG" /\ h = 1 /\ b = 2)
  PROVE  LET m == [M!read_io16(h) EXCEPT ![b] = v]
         IN  /\ m \in IoPair /\ m[b] = v
             /\ M!write_io16(r, h, m).io[h][3 - b] \in M!Lost(p, h, 3 - b)
             /\ M!Lost(p, h, 3 - b) \subseteq M!IoByte
<1> DEFINE c == 3 - b
           o == M!read_io16(h)
           m == [o EXCEPT ![b] = v]
           q == M!write_io16(r, h, m)
           nil == 0
<1>1. /\ r \in Registers /\ p \in Held
      /\ io \in [1..2 -> IoPair] /\ counter \in IoPair
      /\ \A g, k \in 1..2 : io[g][k] \in p[g][k] /\ p[g][k] \subseteq M!IoByte
      /\ \A g, k \in 1..2 : io[g][k] \in M!IoByte
  BY DEF Fits, Registers, IoPair, Held
<1>2. c \in 1..2 /\ c # b /\ b \in 1..2 /\ nil \in M!IoByte /\ h \in 1..2
  BY BusAssumption DEF M!IoByte
<1> HIDE DEF c
<1>3. <<nil, nil>> \in IoPair
  BY <1>2 DEF IoPair
<1>4. o \in IoPair
  <2>1. o \in {<<nil, nil>>, counter, io[h]}
    BY DEF M!read_io16
  <2> QED
    BY <1>1, <1>2, <1>3, <2>1
<1>5. m \in IoPair /\ m[b] = v /\ m[c] = o[c]
  BY <1>2, <1>4 DEF IoPair
<1> HIDE DEF m, o, nil
<1>6. \A w \in IoPair : [r.io EXCEPT ![h] = w][h] = w
  BY <1>1, <1>2
<1>7. M!Lost(p, h, c) \subseteq M!IoByte
  <2>1. M!Lost(p, h, c) \in {p[h][c], p[h][c] \cup {nil}, M!IoByte}
    BY DEF M!Lost, nil
  <2> QED
    BY <1>1, <1>2, <2>1
<1>8. q.io[h][c] \in M!Lost(p, h, c)
  <2>1. CASE where = "DISPSTAT"
    <3>1. M!Lost(p, h, c) = p[h][c] /\ o = io[h]
      BY <2>1 DEF M!Lost, o, M!read_io16
    <3>2. CASE h = 2
      <4>1. q = r
        BY <2>1, <3>2 DEF M!write_io16, M!LOW, M!HIGH
      <4> QED
        BY <1>1, <1>2, <3>1, <4>1
    <3>3. CASE h = 1
      <4>1. q = [r EXCEPT !.io[h] = <<2 * (m[1] \div 2) + (r.io[h][1] % 2), m[2]>>]
        BY <2>1, <3>3 DEF M!write_io16, M!Writable, M!LOW, M!HIGH
      <4>2. q.io[h] = <<2 * (m[1] \div 2) + (io[h][1] % 2), m[2]>>
        BY <1>1, <1>2, <4>1 DEF Registers
      <4>3. CASE c = 1
        <5>1. m[1] = io[h][1] /\ io[h][1] \in Nat
          BY <1>1, <1>2, <1>5, <3>1, <4>3 DEF M!IoByte
        <5>2. 2 * (m[1] \div 2) + (io[h][1] % 2) = io[h][1]
          BY <5>1
        <5> QED
          BY <1>1, <1>2, <3>1, <4>2, <4>3, <5>2
      <4>4. CASE c = 2
        BY <1>1, <1>2, <1>5, <3>1, <4>2, <4>4
      <4> QED
        BY <1>2, <4>3, <4>4
    <3> QED
      BY <3>2, <3>3
  <2>2. CASE where = "POSTFLG"
    <3>1. M!Lost(p, h, c) = p[h][c]
      BY <2>2 DEF M!Lost
    <3>2. CASE h = 2
      <4>1. q = r
        BY <2>2, <3>2 DEF M!write_io16, M!LOW, M!HIGH
      <4> QED
        BY <1>1, <1>2, <3>1, <4>1
    <3>3. CASE h = 1
      <4>1. c = 2 /\ io[1][2] = 0
        BY <1>2, <2>2, <3>3 DEF Fits, c
      <4>2. q = [r EXCEPT !.io[h] = <<m[1], 0>>]
        BY <2>2, <3>3 DEF M!write_io16, M!LOW, M!HIGH
      <4>3. q.io[h][c] = 0
        BY <1>1, <1>2, <4>1, <4>2 DEF Registers
      <4> QED
        BY <1>1, <1>2, <3>1, <3>3, <4>1, <4>3
    <3> QED
      BY <3>2, <3>3
  <2>3. CASE where = "IE_IF" /\ h = 2
    <3>1. M!Lost(p, h, c) = p[h][c] \cup {0} /\ o = io[h]
      BY <2>3 DEF M!Lost, M!HIGH, o, M!read_io16
    <3>2. q = [r EXCEPT !.io[h] = <<M!AndNot(r.io[h][1], m[1]), M!AndNot(r.io[h][2], m[2])>>]
      BY <2>3 DEF M!write_io16, M!LOW, M!HIGH
    <3>3. q.io[h] = <<M!AndNot(io[h][1], m[1]), M!AndNot(io[h][2], m[2])>>
      BY <1>1, <1>2, <3>2 DEF Registers
    <3>4. q.io[h][c] = M!AndNot(io[h][c], io[h][c])
      <4>1. m[c] = io[h][c]
        BY <1>5, <3>1
      <4>2. c = 1 \/ c = 2
        BY <1>2
      <4> QED
        BY <3>3, <4>1, <4>2
    <3>5. M!AndNot(io[h][c], io[h][c]) = 0
      BY <1>1, <1>2, AndNotType
    <3> QED
      BY <3>1, <3>4, <3>5
  <2>5. CASE where = "BG_OFS"
    <3>1. o = <<0, 0>> /\ M!Lost(p, h, c) = p[h][c] \cup {0}
      BY <2>5 DEF o, M!read_io16, M!Lost
    <3>2. q = [r EXCEPT !.io[h] = <<m[1], m[2] % 2>>]
      BY <2>5 DEF M!write_io16, M!Offset9
    <3>3. q.io[h] = <<m[1], m[2] % 2>>
      BY <1>1, <1>2, <3>2 DEF Registers
    <3>4. m[c] = 0
      BY <1>2, <1>5, <3>1
    <3>5. q.io[h][c] = 0
      BY <1>2, <3>3, <3>4
    <3> QED
      BY <3>1, <3>5
  <2>4. CASE where \notin {"DISPSTAT", "POSTFLG", "BG_OFS"} /\ ~(where = "IE_IF" /\ h = 2)
    <3>1. q.io = [r.io EXCEPT ![h] = m]
      <4> DEFINE new == [r EXCEPT !.io[h] = m]
      <4>1. q = new \/ q = [new EXCEPT !.counter = r.io[1]]
        BY <2>4 DEF M!write_io16, M!LOW, M!HIGH
      <4>2. new.io = [r.io EXCEPT ![h] = m] /\ new \in Registers
        BY <1>1, <1>2, <1>5 DEF Registers
      <4> HIDE DEF new, q
      <4> QED
        BY <1>1, <4>1, <4>2 DEF Registers
    <3>2. q.io[h][c] = o[c]
      BY <1>5, <1>6, <3>1
    <3>4. CASE where = "TIMER" /\ h = 1
      <4>1. o = counter /\ M!Lost(p, h, c) = M!IoByte
        BY <3>4 DEF o, M!read_io16, M!Lost, M!LOW, M!HIGH
      <4> QED
        BY <1>1, <1>2, <3>2, <4>1 DEF IoPair
    <3>5. CASE ~(where = "TIMER" /\ h = 1)
      <4>1. o = io[h] /\ M!Lost(p, h, c) = p[h][c]
        BY <2>4, <3>5 DEF o, M!read_io16, M!Lost, M!LOW, M!HIGH
      <4> QED
        BY <1>1, <1>2, <3>2, <4>1
    <3> QED
      BY <3>4, <3>5
  <2> QED
    BY <2>1, <2>2, <2>3, <2>4, <2>5
<1> QED
  BY <1>5, <1>7, <1>8 DEF c, m, o

(* A byte stored to any but a reference point.                             *)
LEMMA ByteFits ==
  ASSUME NEW r, NEW p, Fits(r, p), r.io = io, r.counter = counter,
         where \in M!Pairs, where # "BG_REF", NEW a \in 0..3, NEW v \in M!IoByte
  PROVE  Fits(M!write_io8(r, a, v), M!ByteStored(p, a, v))
<1> DEFINE h == a \div 2 + 1
           b == (a % 2) + 1
           c == 3 - b
           m == [M!read_io16(h) EXCEPT ![b] = v]
           u == [k \in 1..2 |-> v]
           s == M!HalfStored(p, h, m)
           w == M!HalfStored(p, h, u)
           q == M!write_io16(r, h, m)
           lost == M!Lost(p, h, c)
           t == [w EXCEPT ![h][c] = lost]
<1>1. h \in {1, 2} /\ b \in {1, 2} /\ (a = 1 <=> h = 1 /\ b = 2)
  OBVIOUS
<1>2. CASE where = "POSTFLG" /\ a = 1
  <2>1. M!write_io8(r, a, v) = r /\ M!ByteStored(p, a, v) = p
    BY <1>2 DEF M!write_io8, M!ByteStored
  <2> QED
    BY <2>1
<1>3. CASE ~(where = "POSTFLG" /\ a = 1)
  <2>1. M!write_io8(r, a, v) = q /\ M!ByteStored(p, a, v) = t
    BY <1>3 DEF M!write_io8, M!ByteStored
  <2> HIDE DEF h, b
  <2>2. ~(where = "POSTFLG" /\ h = 1 /\ b = 2)
    BY <1>1, <1>3
  <2>3. m \in IoPair /\ m[b] = v /\ q.io[h][c] \in lost /\ lost \subseteq M!IoByte
    BY <1>1, <2>2, OtherByte
  <2> HIDE DEF m, lost
  <2>4. Fits(q, s)
    BY <1>1, <2>3, HalfFits
  <2>5. u \in IoPair /\ u[b] = v
    BY <1>1 DEF IoPair
  <2> HIDE DEF u
  <2>6. p \in Held
    BY DEF Fits
  <2>7. s[h][b] = w[h][b] /\ s[3 - h] = p[3 - h] /\ w[3 - h] = p[3 - h]
    BY <1>1, <2>2, <2>3, <2>5, <2>6, HalfOnly
  <2>8. Fits(r, p)
    OBVIOUS
  <2>9. w \in Held
    BY <1>1, <2>5, <2>8, HalfFits DEF Fits
  <2>10. q \in Registers /\ s \in Held /\ \A g, k \in 1..2 : q.io[g][k] \in s[g][k]
    BY <2>4 DEF Fits
  <2> HIDE DEF s, w, q
  <2>11. c \in {1, 2} /\ c # b
    BY <1>1
  <2> HIDE DEF c
  <2>12. /\ \A k \in 1..2 : k = b \/ k = c
         /\ \A g \in 1..2 : g = h \/ g = 3 - h
         /\ h \in 1..2 /\ 3 - h \in 1..2 /\ 3 - h # h /\ b \in 1..2 /\ c \in 1..2
    BY <1>1, <2>11
  <2>13. t \in Held
    BY <2>3, <2>9, <2>12 DEF Held
  <2>14. t[h][c] = lost /\ t[h][b] = w[h][b] /\ t[3 - h] = w[3 - h]
    BY <2>9, <2>11, <2>12 DEF Held
  <2> HIDE DEF t
  <2>15. \A g, k \in 1..2 : q.io[g][k] \in t[g][k]
    <3> SUFFICES ASSUME NEW g \in 1..2, NEW k \in 1..2 PROVE q.io[g][k] \in t[g][k]
      OBVIOUS
    <3>1. CASE g = 3 - h
      BY <2>7, <2>10, <2>14, <3>1
    <3>2. CASE g = h /\ k = b
      BY <2>7, <2>10, <2>14, <3>2
    <3>3. CASE g = h /\ k = c
      BY <2>3, <2>14, <3>3
    <3> QED
      BY <2>12, <3>1, <3>2, <3>3
  <2>16. Fits(q, t)
    BY <2>4, <2>10, <2>13, <2>15 DEF Fits
  <2> QED
    BY <2>1, <2>16
<1> QED
  BY <1>2, <1>3

(* Two digits make a number below the square of their base. *)
LEMMA TwoDigits ==
  ASSUME NEW d \in Nat \ {0}, NEW x \in 0..(d - 1), NEW y \in Nat, NEW z \in Nat, y < z
  PROVE  x + d * y \in Nat /\ d * y \in Nat /\ d * z \in Nat /\ x + d * y < d * z
<1>1. y + 1 \in Nat /\ y + 1 <= z
  OBVIOUS
<1>2. (y + 1) * d <= z * d
  <2> DEFINE k == y + 1
  <2>1. k \in Nat /\ k <= z /\ d \in Nat
    BY <1>1
  <2> HIDE DEF k
  <2>2. k * d <= z * d
    BY <2>1, ProductMonotonic
  <2> QED
    BY <2>2 DEF k
<1>3. (y + 1) * d = d * y + d /\ z * d = d * z /\ d * y \in Nat /\ d * z \in Nat
  OBVIOUS
<1> DEFINE p == d * y
           q == d * z
<1>4. p \in Nat /\ q \in Nat /\ p + d <= q
  BY <1>2, <1>3
<1> HIDE DEF p, q
<1>5. x + p \in Nat /\ x + p < q
  BY <1>4
<1> QED
  BY <1>4, <1>5 DEF p, q

(* The sizes of a half and of what a reference point does not use.         *)
HALVES == BYTE * BYTE
TOP == HALVES \div 2
SIGN == HALVES \div 4
LEMMA Sizes ==
  /\ BYTE \in Nat \ {0} /\ HALVES \in Nat \ {0} /\ TOP \in Nat \ {0} /\ SIGN \in Nat \ {0}
  /\ HALVES = 2 * TOP /\ TOP = 2 * SIGN
  /\ BYTE * (BYTE \div 2) = TOP
  /\ M!Unused = HALVES * TOP /\ M!Unused \div 2 = HALVES * SIGN
<1> DEFINE e == BYTE \div 2
           f == e * e
<1>1. BYTE = 2 * e /\ e \in Nat \ {0} /\ BYTE \in Nat \ {0}
  BY BusAssumption
<1> HIDE DEF e
<1>2. f \in Nat \ {0}
  BY <1>1
<1>3. HALVES = 4 * f /\ BYTE * e = 2 * f
  BY <1>1 DEF HALVES
<1> HIDE DEF f
<1>4. HALVES \in Nat \ {0} /\ TOP = 2 * f /\ SIGN = f
  BY <1>2, <1>3 DEF TOP, SIGN
<1>5. BYTE * BYTE * BYTE * BYTE = HALVES * HALVES
  BY <1>1 DEF HALVES
<1>6. HALVES * HALVES = 2 * (HALVES * TOP) /\ HALVES * TOP = 2 * (HALVES * SIGN)
      /\ HALVES * TOP \in Nat /\ HALVES * SIGN \in Nat
  <2>1. HALVES * TOP = HALVES * (2 * f) /\ HALVES * SIGN = HALVES * f /\ HALVES * HALVES = HALVES * (4 * f)
    BY <1>3, <1>4
  <2>2. HALVES * (2 * f) = 2 * (HALVES * f) /\ HALVES * (4 * f) = 4 * (HALVES * f) /\ HALVES * f \in Nat
    BY <1>2, <1>4
  <2> DEFINE g == HALVES * f
  <2>3. g \in Nat /\ HALVES * TOP = 2 * g /\ HALVES * SIGN = g /\ HALVES * HALVES = 4 * g
    BY <2>1, <2>2
  <2> HIDE DEF g
  <2> QED
    BY <2>3
<1> DEFINE p == HALVES * TOP
           r == HALVES * SIGN
<1>7. p \in Nat /\ r \in Nat /\ BYTE * BYTE * BYTE * BYTE = 2 * p /\ p = 2 * r
  BY <1>5, <1>6
<1> HIDE DEF p, r
<1>8. M!Unused = p /\ p \div 2 = r
  BY <1>7 DEF M!Unused
<1> QED
  BY <1>1, <1>2, <1>3, <1>4, <1>8 DEF p, r, e

(* A word of registers as a number, and a number in a word of registers.   *)
LEMMA JoinedParts ==
  ASSUME NEW w \in [1..2 -> IoPair]
  PROVE  LET lo == Upper(w[1][1], w[1][2])
             hi == Upper(w[2][1], w[2][2])
         IN  /\ lo \in 0..(HALVES - 1) /\ hi \in 0..(HALVES - 1)
             /\ M!Joined(w) = lo + HALVES * hi
<1> DEFINE x == w[1][1]
           y == w[1][2]
           u == w[2][1]
           v == w[2][2]
<1>1. x \in 0..(BYTE - 1) /\ y \in 0..(BYTE - 1) /\ u \in 0..(BYTE - 1) /\ v \in 0..(BYTE - 1) /\ BYTE \in Nat \ {0}
  BY Sizes DEF IoPair, M!IoByte
<1>2. M!Joined(w) = x + BYTE * (y + BYTE * (u + BYTE * v))
  BY DEF M!Joined, M!LOW, M!HIGH
<1> HIDE DEF x, y, u, v
<1>3. x + BYTE * (y + BYTE * (u + BYTE * v)) = (x + BYTE * y) + (BYTE * BYTE) * (u + BYTE * v)
  <2> DEFINE t == u + BYTE * v
  <2>1. t \in Nat
    BY <1>1
  <2> HIDE DEF t
  <2>2. BYTE * (y + BYTE * t) = BYTE * y + (BYTE * BYTE) * t
    BY <1>1, <2>1
  <2> DEFINE a == BYTE * y
             b == (BYTE * BYTE) * t
  <2>3. a \in Nat /\ b \in Nat /\ BYTE * (y + BYTE * t) = a + b
    BY <1>1, <2>1, <2>2
  <2> HIDE DEF a, b
  <2>4. x + (a + b) = (x + a) + b
    BY <1>1, <2>3
  <2> QED
    BY <2>3, <2>4 DEF a, b, t
<1>4. \A m, n \in 0..(BYTE - 1) : m + BYTE * n \in 0..(HALVES - 1)
  <2> SUFFICES ASSUME NEW m \in 0..(BYTE - 1), NEW n \in 0..(BYTE - 1) PROVE m + BYTE * n \in 0..(HALVES - 1)
    OBVIOUS
  <2>1. n \in Nat /\ n < BYTE /\ BYTE \in Nat
    BY <1>1
  <2>2. m + BYTE * n \in Nat /\ m + BYTE * n < BYTE * BYTE /\ BYTE * BYTE \in Nat
    BY <1>1, <2>1, TwoDigits
  <2> DEFINE s == m + BYTE * n
  <2>3. s \in Nat /\ s < HALVES /\ HALVES \in Nat
    BY <2>2 DEF HALVES
  <2> HIDE DEF s
  <2>4. s \in 0..(HALVES - 1)
    BY <2>3
  <2> QED
    BY <2>4 DEF s
<1>5. Upper(x, y) \in 0..(HALVES - 1) /\ Upper(u, v) \in 0..(HALVES - 1)
  BY <1>1, <1>4 DEF Upper
<1>6. M!Joined(w) = Upper(x, y) + HALVES * Upper(u, v)
  BY <1>2, <1>3 DEF Upper, HALVES
<1> QED
  BY <1>5, <1>6 DEF x, y, u, v

LEMMA SplitParts ==
  ASSUME NEW x \in M!IoByte, NEW y \in M!IoByte, NEW k \in 0..(HALVES - 1)
  PROVE  LET s == M!Split(Upper(x, y) + HALVES * k)
         IN  /\ s \in [1..2 -> IoPair] /\ s[1][1] = x /\ s[1][2] = y
             /\ Upper(s[2][1], s[2][2]) = k
<1> DEFINE B == BYTE
           u == k % B
           v == k \div B
           n == Upper(x, y) + HALVES * k
<1>1. B \in Nat \ {0} /\ x \in 0..(B - 1) /\ y \in 0..(B - 1) /\ k \in Nat /\ HALVES = B * B /\ HALVES \in Nat \ {0}
  BY Sizes DEF M!IoByte, HALVES
<1>2. v \in Nat /\ u \in 0..(B - 1) /\ k = B * v + u
  BY <1>1, Division
<1>3. v \in 0..(B - 1)
  <2>1. CASE v >= B
    <3>1. B * B <= v * B /\ v * B \in Nat
      BY <1>1, <1>2, <2>1, ProductMonotonic
    <3>2. v * B = B * v
      BY <1>1, <1>2
    <3> DEFINE p == B * v
    <3>3. p \in Nat /\ HALVES <= p /\ k = p + u
      BY <1>1, <1>2, <3>1, <3>2
    <3> HIDE DEF p, u, v
    <3>4. FALSE
      BY <1>1, <1>2, <3>3
    <3> QED
      BY <3>4
  <2>2. CASE v < B
    BY <1>1, <1>2, <2>2
  <2> QED
    BY <1>1, <1>2, <2>1, <2>2
<1> HIDE DEF u, v
<1>4. /\ n = B * (B * k + y) + x /\ B * k + y \in Nat
      /\ n = HALVES * k + (B * y + x)
  <2>1. B * (B * k + y) = (B * B) * k + B * y
    BY <1>1
  <2> DEFINE a == (B * B) * k
             b == B * y
  <2>2. a \in Nat /\ b \in Nat /\ B * (B * k + y) = a + b
    BY <1>1, <2>1
  <2>3. n = (x + b) + a
    BY <1>1 DEF Upper
  <2>4. B * k + y \in Nat
    BY <1>1
  <2> HIDE DEF a, b, n
  <2>5. n = (a + b) + x /\ n = a + (b + x)
    BY <1>1, <2>2, <2>3
  <2> QED
    BY <1>1, <2>2, <2>4, <2>5 DEF a, b
<1> HIDE DEF n
<1>5. n % B = x /\ n \div B = B * k + y
  <2> DEFINE t == B * k + y
  <2>1. t \in Nat /\ n = B * t + x
    BY <1>4
  <2> HIDE DEF t
  <2>2. n % B = x /\ n \div B = t
    BY <1>1, <2>1, Quotient
  <2> QED
    BY <2>2 DEF t
<1>6. (n \div B) % B = y
  BY <1>1, <1>5, Quotient
<1>7. n \div (B * B) = k
  <2> DEFINE t == B * y + x
  <2>1. t \in 0..(HALVES - 1)
    <3>1. y < B /\ B \in Nat /\ y \in Nat
      BY <1>1
    <3>2. x + B * y \in Nat /\ x + B * y < B * B /\ B * y \in Nat
      BY <1>1, <3>1, TwoDigits
    <3> DEFINE p == B * y
    <3>3. p \in Nat /\ x + p < HALVES
      BY <1>1, <3>2
    <3> HIDE DEF p
    <3>4. p + x \in 0..(HALVES - 1)
      BY <1>1, <3>3
    <3> QED
      BY <3>4 DEF p
  <2> HIDE DEF t
  <2>2. n = HALVES * k + t
    BY <1>4 DEF t
  <2>3. n \div HALVES = k
    BY <1>1, <2>1, <2>2, Quotient
  <2> QED
    BY <1>1, <2>3
<1>8. n \div (B * B * B) = v
  <2> DEFINE d == HALVES * B
             t == HALVES * u + (B * y + x)
  <2>1. d \in Nat \ {0} /\ B * B * B = d
    BY <1>1
  <2>2. B * y + x \in 0..(HALVES - 1)
    <3>1. y < B /\ B \in Nat /\ y \in Nat
      BY <1>1
    <3>2. x + B * y \in Nat /\ x + B * y < B * B /\ B * y \in Nat
      BY <1>1, <3>1, TwoDigits
    <3> DEFINE p == B * y
    <3>3. p \in Nat /\ x + p < HALVES
      BY <1>1, <3>2
    <3> HIDE DEF p
    <3>4. p + x \in 0..(HALVES - 1)
      BY <1>1, <3>3
    <3> QED
      BY <3>4 DEF p
  <2> DEFINE l == B * y + x
  <2>3. l \in 0..(HALVES - 1)
    BY <2>2
  <2> HIDE DEF l
  <2>4. t \in 0..(d - 1)
    <3>1. u \in Nat /\ u < B /\ B \in Nat
      BY <1>1, <1>2
    <3>2. l + HALVES * u \in Nat /\ l + HALVES * u < HALVES * B /\ HALVES * u \in Nat
      BY <1>1, <2>3, <3>1, TwoDigits
    <3> DEFINE p == HALVES * u
    <3>3. p \in Nat /\ l + p < d
      BY <3>2
    <3> HIDE DEF p, d
    <3>4. p + l \in 0..(d - 1)
      BY <2>1, <2>3, <3>3
    <3> QED
      BY <3>4 DEF p, l
  <2>5. n = d * v + t
    <3>1. HALVES * k = (HALVES * B) * v + HALVES * u
      <4>1. HALVES * (B * v + u) = (HALVES * B) * v + HALVES * u
        BY <1>1, <1>2
      <4> QED
        BY <1>2, <4>1
    <3> DEFINE p == d * v
               q == HALVES * u
    <3>2. p \in Nat /\ q \in Nat /\ HALVES * k = p + q
      BY <1>1, <1>2, <2>1, <3>1
    <3>3. n = HALVES * k + l /\ t = q + l
      BY <1>4 DEF l
    <3> HIDE DEF p, q, t
    <3>4. n = p + t
      BY <2>3, <3>2, <3>3
    <3> QED
      BY <3>4 DEF p
  <2> HIDE DEF d, t
  <2>6. n \div d = v
    BY <1>2, <2>1, <2>4, <2>5, Quotient, Zenon
  <2> QED
    BY <2>1, <2>6
<1>9. M!Split(n) = << <<x, y>>, <<u, v>> >>
  BY <1>5, <1>6, <1>7, <1>8 DEF M!Split, u
<1>10. u \in M!IoByte /\ v \in M!IoByte
  BY <1>2, <1>3 DEF M!IoByte
<1>11. <<x, y>> \in IoPair /\ <<u, v>> \in IoPair
  BY <1>10 DEF IoPair
<1>12. Upper(u, v) = k
  <2> DEFINE p == B * v
  <2>1. p \in Nat /\ k = p + u
    BY <1>1, <1>2
  <2> HIDE DEF p
  <2>2. u + p = k
    BY <1>2, <2>1
  <2> QED
    BY <2>2 DEF Upper, p
<1> QED
  BY <1>9, <1>11, <1>12 DEF n

(* The number of a reference point loses its top bit, and the next one is  *)
(* its sign: only the second half changes.                                 *)
LEMMA SignSpreads ==
  ASSUME NEW w \in [1..2 -> IoPair]
  PROVE  LET hi == Upper(w[2][1], w[2][2])
             s == M!sign_extend_28(w)
         IN  /\ hi \in 0..(HALVES - 1)
             /\ M!Joined(w) % M!Unused = Upper(w[1][1], w[1][2]) + HALVES * (hi % TOP)
             /\ (M!Joined(w) % M!Unused >= M!Unused \div 2) <=> hi % TOP >= SIGN
             /\ s \in [1..2 -> IoPair] /\ s[1][1] = w[1][1] /\ s[1][2] = w[1][2]
             /\ Upper(s[2][1], s[2][2]) = IF hi % TOP >= SIGN THEN (hi % TOP) + TOP ELSE hi
<1> DEFINE lo == Upper(w[1][1], w[1][2])
           hi == Upper(w[2][1], w[2][2])
           n == M!Joined(w)
           k == hi % TOP
           q == hi \div TOP
           r == lo + HALVES * k
<1>1. lo \in 0..(HALVES - 1) /\ hi \in 0..(HALVES - 1) /\ n = lo + HALVES * hi
  BY JoinedParts
<1>2. w[1][1] \in M!IoByte /\ w[1][2] \in M!IoByte
  BY DEF IoPair
<1>3. HALVES \in Nat \ {0} /\ TOP \in Nat \ {0} /\ SIGN \in Nat \ {0} /\ HALVES = 2 * TOP /\ TOP = 2 * SIGN
      /\ M!Unused = HALVES * TOP /\ M!Unused \div 2 = HALVES * SIGN
  BY Sizes
<1> HIDE DEF n
<1>4. q \in Nat /\ k \in 0..(TOP - 1) /\ hi = TOP * q + k
  <2> HIDE DEF hi
  <2>1. hi \in Nat
    BY <1>1, <1>3
  <2> QED
    BY <1>3, <2>1, Division
<1> HIDE DEF q, k
<1>5. r \in Nat /\ r < HALVES * TOP
  <2> HIDE DEF lo
  <2>1. k \in Nat /\ k < TOP /\ TOP \in Nat
    BY <1>3, <1>4
  <2> QED
    BY <1>1, <1>3, <2>1, TwoDigits
<1>6. (r >= HALVES * SIGN) <=> k >= SIGN
  <2>1. CASE k < SIGN
    <3> HIDE DEF lo
    <3>1. k \in Nat /\ k < SIGN /\ SIGN \in Nat
      BY <1>3, <1>4, <2>1
    <3>2. r < HALVES * SIGN /\ HALVES * SIGN \in Nat
      BY <1>1, <1>3, <3>1, TwoDigits
    <3> DEFINE p == HALVES * SIGN
    <3>3. p \in Nat /\ r < p
      BY <3>2
    <3> HIDE DEF p, r
    <3>4. ~(r >= p)
      BY <1>5, <3>3
    <3> QED
      BY <1>3, <1>4, <2>1, <3>4 DEF p
  <2>2. CASE k >= SIGN
    <3>1. SIGN * HALVES <= k * HALVES /\ SIGN * HALVES \in Nat
      BY <1>3, <1>4, <2>2, ProductMonotonic
    <3>2. k * HALVES = HALVES * k /\ SIGN * HALVES = HALVES * SIGN /\ HALVES * k \in Nat
      BY <1>3, <1>4
    <3> DEFINE p == HALVES * SIGN
               t == HALVES * k
    <3>3. p \in Nat /\ t \in Nat /\ p <= t
      BY <3>1, <3>2
    <3>4. r = lo + t
      OBVIOUS
    <3> HIDE DEF p, t, r, lo
    <3>5. r >= p
      BY <1>1, <1>3, <3>3, <3>4
    <3> QED
      BY <2>2, <3>5 DEF p
  <2> QED
    BY <1>3, <1>4, <2>1, <2>2
<1>7. n % M!Unused = r
  <2> DEFINE d == HALVES * TOP
  <2>1. d \in Nat \ {0} /\ r \in 0..(d - 1)
    <3>1. d \in Nat \ {0}
      BY <1>3
    <3> HIDE DEF d, r
    <3> QED
      BY <1>5, <3>1 DEF d
  <2>2. n = d * q + r
    <3>1. HALVES * (TOP * q + k) = d * q + HALVES * k
      BY <1>3, <1>4
    <3> DEFINE a == d * q
               b == HALVES * k
    <3>2. a \in Nat /\ b \in Nat /\ n = lo + (a + b)
      BY <1>1, <1>3, <1>4, <3>1
    <3> HIDE DEF a, b, lo
    <3>3. n = a + (lo + b)
      BY <1>1, <1>3, <3>2
    <3> QED
      BY <3>3 DEF a, b
  <2> HIDE DEF d, r
  <2>3. n % d = r
    BY <1>4, <2>1, <2>2, Remainder
  <2> QED
    BY <1>3, <2>3 DEF d
<1>8. (n % M!Unused >= M!Unused \div 2) <=> k >= SIGN
  BY <1>3, <1>6, <1>7
<1> DEFINE s == M!sign_extend_28(w)
<1>9. CASE k >= SIGN
  <2>1. s = M!Split(r + HALVES * TOP)
    BY <1>3, <1>7, <1>8, <1>9 DEF M!sign_extend_28, n
  <2> DEFINE j == k + TOP
  <2>2. j \in 0..(HALVES - 1)
    BY <1>3, <1>4
  <2>3. r + HALVES * TOP = lo + HALVES * j
    <3>1. HALVES * (k + TOP) = HALVES * k + HALVES * TOP
      BY <1>3, <1>4
    <3> DEFINE a == HALVES * k
               b == HALVES * TOP
    <3>2. a \in Nat /\ b \in Nat /\ HALVES * j = a + b /\ r = lo + a
      BY <1>3, <1>4, <3>1
    <3> HIDE DEF a, b, lo, r, j
    <3>3. r + b = lo + HALVES * j
      BY <1>1, <1>3, <3>2
    <3> QED
      BY <3>3 DEF b
  <2> HIDE DEF j
  <2>4. LET x == M!Split(Upper(w[1][1], w[1][2]) + HALVES * j)
        IN  /\ x \in [1..2 -> IoPair] /\ x[1][1] = w[1][1] /\ x[1][2] = w[1][2]
            /\ Upper(x[2][1], x[2][2]) = j
    BY <1>2, <2>2, SplitParts
  <2> QED
    BY <1>1, <1>7, <1>8, <1>9, <2>1, <2>3, <2>4, SMTT(40) DEF n, j, k
<1>10. CASE ~(k >= SIGN)
  <2>1. s = w
    BY <1>8, <1>10 DEF M!sign_extend_28, n
  <2> QED
    BY <1>1, <1>7, <1>8, <1>10, <2>1 DEF n, k
<1> QED
  BY <1>9, <1>10

(* Reading a number below the unused bits, or what its sign made of it.    *)
LEMMA SignSettles ==
  ASSUME NEW u \in 0..(TOP - 1), NEW n, n = u \/ n = Extended(u)
  PROVE  (IF n % TOP >= SIGN THEN (n % TOP) + TOP ELSE n) = Extended(u)
<1>1. TOP \in Nat \ {0} /\ SIGN \in Nat
  BY Sizes
<1>2. Extended(u) = IF u >= SIGN THEN u + TOP ELSE u
  BY DEF Extended, SIGN, TOP, HALVES
<1>3. u % TOP = u /\ (u + TOP) % TOP = u
  <2>1. u % TOP = u
    BY <1>1, NoWrap
  <2>2. u + TOP = TOP * 1 + u
    BY <1>1
  <2>3. (TOP * 1 + u) % TOP = u
    BY <1>1, Remainder, 1 \in Int
  <2> QED
    BY <2>1, <2>2, <2>3
<1>4. CASE u >= SIGN
  BY <1>1, <1>2, <1>3, <1>4
<1>5. CASE ~(u >= SIGN)
  BY <1>1, <1>2, <1>3, <1>5
<1> QED
  BY <1>4, <1>5

LEMMA UpperFits ==
  ASSUME NEW y \in M!IoByte, NEW z \in M!IoByte, z < BYTE \div 2
  PROVE  Upper(y, z) \in 0..(TOP - 1)
<1> DEFINE e == BYTE \div 2
<1>1. BYTE \in Nat \ {0} /\ y \in 0..(BYTE - 1) /\ z \in Nat /\ e \in Nat /\ z < e /\ BYTE * e = TOP
  BY Sizes DEF M!IoByte
<1> HIDE DEF e
<1>2. y + BYTE * z \in Nat /\ y + BYTE * z < TOP
  BY <1>1, TwoDigits
<1> DEFINE s == y + BYTE * z
<1> HIDE DEF s
<1>3. s \in Nat /\ s < TOP => s \in 0..(TOP - 1)
  BY Sizes
<1> QED
  BY <1>2, <1>3 DEF s, Upper

(* A halfword stored to a reference point.                                 *)
LEMMA ReferenceFits ==
  ASSUME NEW r, NEW p, Fits(r, p), where = "BG_REF", NEW h \in {1, 2}, NEW v \in IoPair
  PROVE  Fits(M!write_io16(r, h, v), M!HalfStored(p, h, v))
<1> DEFINE t == <<{v[1]}, {v[2]}>>
           w == [r.io EXCEPT ![h] = v]
           e == M!sign_extend_28(w)
           q == M!write_io16(r, h, v)
           s == M!HalfStored(p, h, v)
<1>1. /\ r \in Registers /\ p \in Held
      /\ \A b \in 1..2 : r.io[1][b] \in p[1][b]
      /\ v[1] \in M!IoByte /\ v[2] \in M!IoByte
      /\ h \in 1..2
  BY DEF Fits, Registers, IoPair
<1>2. s = [p EXCEPT ![h] = t]
  BY DEF M!HalfStored
<1>3. w \in [1..2 -> IoPair] /\ \A g \in 1..2 : w[g] = (IF g = h THEN v ELSE r.io[g])
  BY <1>1 DEF Registers
<1>4. q = [[r EXCEPT !.io[h] = v] EXCEPT !.io = M!sign_extend_28(@)]
  BY DEF M!write_io16
<1>5. q = [io |-> e, counter |-> r.counter]
  <2> DEFINE new == [r EXCEPT !.io[h] = v]
  <2>1. new = [io |-> w, counter |-> r.counter]
    BY <1>1 DEF Registers
  <2> HIDE DEF new, w
  <2>2. q = [new EXCEPT !.io = M!sign_extend_28(new.io)]
    BY <1>4 DEF new
  <2> QED
    BY <2>1, <2>2
<1> HIDE DEF q, w, s
<1> DEFINE hi == Upper(w[2][1], w[2][2])
<1>6. /\ e \in [1..2 -> IoPair] /\ e[1][1] = w[1][1] /\ e[1][2] = w[1][2]
      /\ Upper(e[2][1], e[2][2]) = IF hi % TOP >= SIGN THEN (hi % TOP) + TOP ELSE hi
  BY <1>3, SignSpreads
<1> HIDE DEF e
<1>7. s \in Held
  BY <1>1, <1>2 DEF Held
<1>8. \A g \in 1..2 : s[g] = (IF g = h THEN t ELSE p[g])
  BY <1>1, <1>2 DEF Held
<1>9. q \in Registers
  BY <1>1, <1>5, <1>6 DEF Registers
<1>10. \A b \in 1..2 : q.io[1][b] \in s[1][b]
  <2>1. \A b \in 1..2 : e[1][b] = w[1][b]
    BY <1>6
  <2> QED
    BY <1>1, <1>3, <1>5, <1>8, <2>1
<1>11. PICK y \in M!IoByte, z \in M!IoByte :
         /\ y \in s[2][1] /\ z \in s[2][2]
         /\ z < BYTE \div 2 => hi = Upper(y, z) \/ hi = Extended(Upper(y, z))
  <2>1. CASE h = 2
    <3>1. v[1] \in s[2][1] /\ v[2] \in s[2][2] /\ hi = Upper(v[1], v[2])
      BY <1>3, <1>8, <2>1
    <3> QED
      BY <1>1, <3>1
  <2>2. CASE h = 1
    <3>1. PICK y \in M!IoByte, z \in M!IoByte :
            /\ y \in p[2][1] /\ z \in p[2][2]
            /\ z < BYTE \div 2 => Upper(r.io[2][1], r.io[2][2]) = Extended(Upper(y, z))
      BY DEF Fits
    <3>2. hi = Upper(r.io[2][1], r.io[2][2]) /\ s[2] = p[2]
      BY <1>3, <1>8, <2>2
    <3> QED
      BY <3>1, <3>2
  <2> QED
    BY <2>1, <2>2
<1>12. z < BYTE \div 2 => Upper(q.io[2][1], q.io[2][2]) = Extended(Upper(y, z))
  <2> SUFFICES ASSUME z < BYTE \div 2 PROVE Upper(q.io[2][1], q.io[2][2]) = Extended(Upper(y, z))
    OBVIOUS
  <2> HIDE DEF hi
  <2>1. Upper(y, z) \in 0..(TOP - 1)
    BY UpperFits
  <2>2. (IF hi % TOP >= SIGN THEN (hi % TOP) + TOP ELSE hi) = Extended(Upper(y, z))
    BY <1>11, <2>1, SignSettles
  <2> QED
    BY <1>5, <1>6, <2>2
<1>13. Fits(q, s)
  BY <1>7, <1>9, <1>10, <1>11, <1>12 DEF Fits
<1> QED
  BY <1>13 DEF q, s

LEMMA AnyHalfFits ==
  ASSUME NEW r, NEW p, Fits(r, p), NEW h \in {1, 2}, NEW v \in IoPair
  PROVE  Fits(M!write_io16(r, h, v), M!HalfStored(p, h, v))
BY HalfFits, ReferenceFits

(* A byte stored to a reference point: the other byte of its half is zero. *)
LEMMA ReferenceByteFits ==
  ASSUME NEW r, NEW p, Fits(r, p), where = "BG_REF", NEW a \in 0..3, NEW v \in M!IoByte
  PROVE  Fits(M!write_io8(r, a, v), M!ByteStored(p, a, v))
<1> DEFINE h == a \div 2 + 1
           b == (a % 2) + 1
           c == 3 - b
           m == [<<0, 0>> EXCEPT ![b] = v]
           u == [k \in 1..2 |-> v]
           s == M!HalfStored(p, h, m)
           w == M!HalfStored(p, h, u)
           q == M!write_io16(r, h, m)
           lost == p[h][c] \cup {0}
           t == [w EXCEPT ![h][c] = lost]
<1>1. h \in {1, 2} /\ b \in {1, 2} /\ c \in {1, 2} /\ c # b /\ h \in 1..2 /\ b \in 1..2 /\ c \in 1..2
  OBVIOUS
<1>2. M!read_io16(h) = <<0, 0>>
  BY DEF M!read_io16
<1>3. M!write_io8(r, a, v) = q
  BY <1>2 DEF M!write_io8
<1>4. M!Lost(p, h, c) = lost
  BY DEF M!Lost
<1>5. M!ByteStored(p, a, v) = t
  BY <1>4 DEF M!ByteStored
<1> HIDE DEF h, b, c, u
<1>6. m \in IoPair /\ m[b] = v /\ m[c] = 0
  <2>1. 0 \in M!IoByte
    BY Sizes DEF M!IoByte
  <2> QED
    BY <1>1, <2>1 DEF IoPair
<1> HIDE DEF m
<1>7. Fits(q, s)
  BY <1>1, <1>6, AnyHalfFits
<1>8. p \in Held
  BY DEF Fits
<1>9. s = [p EXCEPT ![h] = <<{m[1]}, {m[2]}>>] /\ w = [p EXCEPT ![h] = <<{u[1]}, {u[2]}>>]
  BY DEF M!HalfStored
<1>10. u[1] = v /\ u[2] = v
  BY DEF u
<1>11. \A g, k \in 1..2 : s[g][k] = IF g = h THEN {m[k]} ELSE p[g][k]
  BY <1>8, <1>9, SMTT(40) DEF Held
<1>12. w = [p EXCEPT ![h] = <<{v}, {v}>>]
  BY <1>9, <1>10
<1> HIDE DEF q, s, w
<1>13. w \in Held /\ \A g \in 1..2 : w[g] = IF g = h THEN <<{v}, {v}>> ELSE p[g]
  BY <1>1, <1>8, <1>12 DEF Held
<1>14. lost \subseteq M!IoByte
  <2>1. 0 \in M!IoByte
    BY Sizes DEF M!IoByte
  <2>2. p[h][c] \subseteq M!IoByte
    BY <1>1, <1>8 DEF Held
  <2> QED
    BY <2>1, <2>2
<1> HIDE DEF lost
<1>15. t \in Held
  BY <1>1, <1>13, <1>14 DEF Held
<1>16. t[h][c] = lost /\ t[h][b] = {v} /\ \A g \in 1..2 : g # h => t[g] = p[g]
  <2>1. w \in [1..2 -> [1..2 -> SUBSET M!IoByte]]
    BY <1>13 DEF Held
  <2>2. w[h][b] = {v}
    BY <1>1, <1>13
  <2> QED
    BY <1>1, <1>13, <2>1, <2>2
<1> HIDE DEF t
<1>17. \A g, k \in 1..2 : s[g][k] \subseteq t[g][k]
  <2> SUFFICES ASSUME NEW g \in 1..2, NEW k \in 1..2 PROVE s[g][k] \subseteq t[g][k]
    OBVIOUS
  <2>1. k = b \/ k = c
    BY <1>1
  <2>2. CASE g # h
    BY <1>11, <1>16, <2>2
  <2>3. CASE g = h /\ k = b
    BY <1>6, <1>11, <1>16, <2>3
  <2>4. CASE g = h /\ k = c
    BY <1>6, <1>11, <1>16, <2>4 DEF lost
  <2> QED
    BY <2>1, <2>2, <2>3, <2>4
<1>18. Fits(q, t)
  <2>1. /\ q \in Registers
        /\ \A k \in 1..2 : q.io[1][k] \in s[1][k]
    BY <1>7 DEF Fits
  <2>2. PICK y \in M!IoByte, z \in M!IoByte :
          /\ y \in s[2][1] /\ z \in s[2][2]
          /\ z < BYTE \div 2 => Upper(q.io[2][1], q.io[2][2]) = Extended(Upper(y, z))
    BY <1>7 DEF Fits
  <2>3. y \in t[2][1] /\ z \in t[2][2] /\ \A k \in 1..2 : q.io[1][k] \in t[1][k]
    BY <1>17, <2>1, <2>2
  <2> QED
    BY <1>15, <2>1, <2>2, <2>3 DEF Fits
<1> QED
  BY <1>3, <1>5, <1>18

(* The halves of a word. *)
LEMMA Halves ==
  ASSUME NEW v \in [1..4 -> M!IoByte]
  PROVE  SubSeq(v, 1, 2) \in IoPair /\ SubSeq(v, 3, 4) \in IoPair
<1> DEFINE x == SubSeq(v, 1, 2)
           y == SubSeq(v, 3, 4)
<1>1. v \in Seq(M!IoByte) /\ Len(v) = 4
  OBVIOUS
<1>2. x \in Seq(M!IoByte) /\ Len(x) = 2
  BY <1>1, SubSeqProperties, SMTT(40)
<1>3. y \in Seq(M!IoByte) /\ Len(y) = 2
  BY <1>1, SubSeqProperties
<1> HIDE DEF x, y
<1>4. x \in [1..2 -> M!IoByte] /\ y \in [1..2 -> M!IoByte]
  <2>1. \A K, s : s \in Seq(K) => s \in [1..Len(s) -> K]
    OBVIOUS
  <2> QED
    BY <1>2, <1>3, <2>1
<1> QED
  BY <1>4 DEF x, y, IoPair

(* The halves after a word is stored, one after the other.                 *)
LEMMA WordFits ==
  ASSUME NEW r, NEW p, Fits(r, p), NEW v \in [1..4 -> M!IoByte]
  PROVE  Fits(M!WriteIo32(r, v), M!HalfStored(M!HalfStored(p, 1, SubSeq(v, 1, 2)), 2, SubSeq(v, 3, 4)))
<1> DEFINE x == SubSeq(v, 1, 2)
           y == SubSeq(v, 3, 4)
<1>1. x \in IoPair /\ y \in IoPair
  BY Halves
<1> HIDE DEF x, y
<1>2. Fits(M!write_io16(r, 1, x), M!HalfStored(p, 1, x))
  BY <1>1, AnyHalfFits
<1>3. Fits(M!write_io16(M!write_io16(r, 1, x), 2, y), M!HalfStored(M!HalfStored(p, 1, x), 2, y))
  BY <1>1, <1>2, AnyHalfFits
<1> QED
  BY <1>3 DEF x, y, M!WriteIo32, M!LOW, M!HIGH

(* A timer that starts counts from its reload.                             *)
Counts(r, q) ==
  q.counter = IF r.io[2][1] = 0 /\ q.io[2][1] # 0 THEN q.io[1] ELSE r.counter
LEMMA TimerCounts ==
  ASSUME NEW r \in Registers, where = "TIMER", NEW h \in {1, 2}, NEW v \in IoPair
  PROVE  /\ Counts(r, M!write_io16(r, h, v))
         /\ M!write_io16(r, h, v).io = [r.io EXCEPT ![h] = v]
         /\ M!write_io16(r, h, v) \in Registers
<1> DEFINE new == [r EXCEPT !.io[h] = v]
           q == M!write_io16(r, h, v)
           w == [r.io EXCEPT ![h] = v]
<1>1. new = [io |-> w, counter |-> r.counter] /\ w \in [1..2 -> IoPair] /\ new \in Registers
  BY DEF Registers
<1>2. \A g \in 1..2 : w[g] = (IF g = h THEN v ELSE r.io[g])
  BY DEF Registers
<1> HIDE DEF new, w
<1>3. CASE h = 2 /\ r.io[2][1] = 0 /\ v[1] # 0
  <2>1. q = [new EXCEPT !.counter = r.io[1]]
    BY <1>3 DEF M!write_io16, M!Starts, M!LOW, M!HIGH, new
  <2> HIDE DEF q
  <2>2. q = [io |-> w, counter |-> r.io[1]]
    BY <1>1, <2>1
  <2>3. r.io[1] \in IoPair /\ w[1] = r.io[1] /\ w[2] = v
    BY <1>2, <1>3 DEF Registers
  <2>4. q \in Registers /\ Counts(r, q) /\ q.io = w
    BY <1>1, <1>3, <2>2, <2>3 DEF Registers, Counts
  <2> QED
    BY <2>4 DEF q, w
<1>4. CASE ~(h = 2 /\ r.io[2][1] = 0 /\ v[1] # 0)
  <2>1. q = new
    BY <1>4 DEF M!write_io16, M!Starts, M!LOW, M!HIGH, new
  <2> HIDE DEF q
  <2>2. q.counter = r.counter /\ q.io = w /\ q \in Registers
    BY <1>1, <2>1
  <2>3. ~(r.io[2][1] = 0 /\ w[2][1] # 0)
    BY <1>2, <1>4
  <2>4. Counts(r, q)
    BY <2>2, <2>3 DEF Counts
  <2> QED
    BY <2>2, <2>4 DEF q, w
<1> QED
  BY <1>3, <1>4

LEMMA WordCounts ==
  ASSUME NEW r \in Registers, where = "TIMER", NEW v \in [1..4 -> M!IoByte]
  PROVE  Counts(r, M!WriteIo32(r, v))
<1> DEFINE x == SubSeq(v, 1, 2)
           y == SubSeq(v, 3, 4)
           q == M!write_io16(r, 1, x)
           t == M!write_io16(q, 2, y)
<1>1. x \in IoPair /\ y \in IoPair
  BY Halves
<1> HIDE DEF x, y
<1>2. q \in Registers /\ Counts(r, q) /\ q.io = [r.io EXCEPT ![1] = x]
  BY <1>1, TimerCounts
<1> HIDE DEF q
<1>3. Counts(q, t) /\ t.io = [q.io EXCEPT ![2] = y]
  BY <1>1, <1>2, TimerCounts
<1> HIDE DEF t
<1>4. q.io[2] = r.io[2]
  BY <1>2 DEF Registers
<1>5. q.counter = r.counter
  BY <1>2, <1>4 DEF Counts
<1>6. Counts(r, t)
  BY <1>3, <1>4, <1>5 DEF Counts
<1> QED
  BY <1>6 DEF t, q, x, y, M!WriteIo32, M!LOW, M!HIGH

(* What a store to registers keeps, if what it leaves fits.                *)
RegisterInv ==
  where \in M!Pairs => Fits(M!Registers, stored) /\ (where = "TIMER" => counter \in from)
LEMMA StoreToKeeps ==
  ASSUME RegisterInv, NEW r, NEW p, Fits(r, p), where = "TIMER" => Counts(M!Registers, r), M!StoreTo(r, p)
  PROVE  RegisterInv'
<1>1. where \in M!Pairs /\ where' = where /\ io' = r.io /\ counter' = r.counter /\ stored' = p
  BY DEF M!StoreTo, M!IsRegister
<1>2. from' = IF io[2][1] = 0 /\ io'[2][1] # 0 THEN M!Reloads(p) ELSE from
  BY DEF M!StoreTo, M!HIGH
<1>3. r \in Registers
  BY DEF Fits
<1>4. M!Registers' = r
  BY <1>1, <1>3 DEF M!Registers, Registers
<1>5. Fits(M!Registers, stored)'
  <2>1. Fits(r, p)'  <=> Fits(r, p)
    BY <1>1 DEF Fits
  <2> QED
    BY <1>1, <1>4 DEF Fits
<1>6. ASSUME where = "TIMER" PROVE counter' \in from'
  <2>1. counter' = IF io[2][1] = 0 /\ r.io[2][1] # 0 THEN r.io[1] ELSE counter
    BY <1>1, <1>6 DEF Counts, M!Registers
  <2>2. CASE io[2][1] = 0 /\ r.io[2][1] # 0
    <3>1. r.io[1][1] \in p[1][1] /\ r.io[1][2] \in p[1][2]
      BY <1>6 DEF Fits
    <3>2. r.io[1] = <<r.io[1][1], r.io[1][2]>>
      BY <1>3 DEF Registers, IoPair
    <3>3. counter' = r.io[1] /\ from' = M!Reloads(p)
      BY <1>1, <1>2, <2>1, <2>2
    <3>4. r.io[1] \in M!Reloads(p)
      BY ONLY <3>1, <3>2 DEF M!Reloads, M!LOW
    <3> QED
      BY <3>3, <3>4
  <2>3. CASE ~(io[2][1] = 0 /\ r.io[2][1] # 0)
    BY <1>1, <1>2, <1>6, <2>1, <2>3 DEF RegisterInv
  <2> QED
    BY <2>2, <2>3
<1> QED
  BY <1>1, <1>5, <1>6 DEF RegisterInv

(* The registers of a machine that is started.                             *)
LEMMA RegistersStart == M!Init => RegisterInv
<1> SUFFICES ASSUME M!Init, where \in M!Pairs PROVE Fits(M!Registers, stored) /\ counter \in from
  BY DEF RegisterInv
<1>1. io = M!FirstHalves /\ counter = <<0, 0>> /\ from = {counter}
      /\ stored = [h \in {1, 2} |-> [b \in 1..2 |-> {io[h][b]}]]
  BY DEF M!Init, M!LOW, M!HIGH
<1>2. 0 \in M!IoByte /\ 1 \in M!IoByte /\ BYTE - 1 \in M!IoByte
  BY BusAssumption DEF M!IoByte
<1>3. <<0, 0>> \in IoPair /\ <<1, 0>> \in IoPair /\ <<BYTE - 1, 1>> \in IoPair
  BY <1>2 DEF IoPair
<1>4. /\ io \in [1..2 -> IoPair]
      /\ where = "DISPSTAT" => io[1][1] = 1
      /\ where \in {"BG_REF", "POSTFLG"} => io = << <<0, 0>>, <<0, 0>> >>
  BY <1>1, <1>3 DEF M!FirstHalves
<1>5. \A h, b \in 1..2 : io[h][b] \in M!IoByte
  BY <1>4 DEF IoPair
<1>6. \A h, b \in 1..2 : stored[h][b] = {io[h][b]}
  BY <1>1
<1>7. stored \in Held
  <2>1. {1, 2} = 1..2
    OBVIOUS
  <2>2. stored = [h \in 1..2 |-> [b \in 1..2 |-> {io[h][b]}]]
    BY <1>1, <2>1
  <2> QED
    BY <1>5, <2>2 DEF Held
<1>8. M!Registers \in Registers /\ M!Registers.io = io
  BY <1>1, <1>3, <1>4 DEF M!Registers, Registers
<1>9. ASSUME where = "BG_REF"
      PROVE  \E y, z \in M!IoByte : /\ y \in stored[2][1] /\ z \in stored[2][2]
                                    /\ z < BYTE \div 2 =>
                                         Upper(io[2][1], io[2][2]) = Extended(Upper(y, z))
  <2>1. io[2][1] = 0 /\ io[2][2] = 0
    BY <1>4, <1>9
  <2>2. Upper(0, 0) = 0
    BY Sizes DEF Upper
  <2>3. Extended(0) = 0
    BY Sizes DEF Extended, SIGN, TOP, HALVES
  <2>4. 0 \in stored[2][1] /\ 0 \in stored[2][2]
    BY <1>6, <2>1
  <2> QED
    BY <1>2, <2>1, <2>2, <2>3, <2>4
<1>10. (where = "DISPSTAT" => io[1][1] % 2 = 1) /\ (where = "POSTFLG" => io[1][2] = 0)
  BY <1>4
<1>11. \A h, b \in 1..2 : io[h][b] \in stored[h][b]
  BY <1>6
<1>12. Fits(M!Registers, stored)
  BY <1>7, <1>8, <1>9, <1>10, <1>11 DEF Fits
<1> QED
  BY <1>1, <1>12

LEMMA RegisterStep == RegisterInv /\ M!Next => RegisterInv'
<1> SUFFICES ASSUME RegisterInv, M!Next PROVE RegisterInv'
  OBVIOUS
<1>1. ASSUME where' = where, UNCHANGED M!ioVars PROVE RegisterInv'
  <2>1. M!Registers' = M!Registers
    BY <1>1 DEF M!ioVars, M!Registers
  <2>2. Fits(M!Registers, stored)' <=> Fits(M!Registers, stored)
    BY <1>1, <2>1 DEF Fits, M!ioVars
  <2> QED
    BY <1>1, <2>2 DEF RegisterInv, M!ioVars
<1>2. CASE M!PowerCycle
  BY <1>1, <1>2 DEF M!PowerCycle
<1>3. ASSUME NEW a, NEW v, M!Store(a, v) PROVE RegisterInv'
  BY <1>1, <1>3 DEF M!Store
<1>4. CASE M!EnterOrLeave
  BY <1>1, <1>4 DEF M!EnterOrLeave
<1>5. ASSUME NEW a, M!FetchBios(a) PROVE RegisterInv'
  BY <1>1, <1>5 DEF M!FetchBios
<1> DEFINE r == M!Registers
<1>6. r.io = io /\ r.counter = counter
  BY DEF M!Registers
<1>7. ASSUME where \in M!Pairs PROVE Fits(r, stored) /\ r \in Registers
  BY <1>7 DEF RegisterInv, Fits
<1> HIDE DEF r
<1>8. ASSUME NEW a \in 0..3, NEW v \in M!IoByte, M!StoreIo8(a, v) PROVE RegisterInv'
  <2> DEFINE q == M!write_io8(r, a, v)
             p == M!ByteStored(stored, a, v)
  <2>1. M!StoreTo(q, p)
    BY <1>8 DEF M!StoreIo8, r
  <2>2. where \in M!Pairs
    BY <2>1 DEF M!StoreTo, M!IsRegister
  <2>3. Fits(q, p)
    BY <1>6, <1>7, <2>2, ByteFits, ReferenceByteFits
  <2>4. ASSUME where = "TIMER" PROVE Counts(r, q)
    <3> DEFINE h == a \div 2 + 1
               m == [M!read_io16(h) EXCEPT ![(a % 2) + 1] = v]
    <3>1. q = M!write_io16(r, h, m)
      BY <2>4 DEF M!write_io8
    <3>2. h \in {1, 2}
      OBVIOUS
    <3>3. M!read_io16(h) = IF h = 1 THEN counter ELSE io[h]
      BY <2>4 DEF M!read_io16, M!LOW
    <3>4. M!read_io16(h) \in IoPair
      BY <1>6, <1>7, <2>2, <3>2, <3>3 DEF Registers
    <3>5. m \in IoPair
      BY <3>4 DEF IoPair
    <3> HIDE DEF h, m, q
    <3>6. Counts(r, M!write_io16(r, h, m))
      BY <1>7, <2>2, <2>4, <3>2, <3>5, TimerCounts
    <3> QED
      BY <3>1, <3>6
  <2> HIDE DEF q, p
  <2> QED
    BY <2>1, <2>3, <2>4, StoreToKeeps DEF r
<1>9. ASSUME NEW h \in {1, 2}, NEW v \in IoHalves, M!StoreIo16(h, v) PROVE RegisterInv'
  <2> DEFINE q == M!write_io16(r, h, v)
             p == M!HalfStored(stored, h, v)
  <2>1. M!StoreTo(q, p)
    BY <1>9 DEF M!StoreIo16, r
  <2>2. where \in M!Pairs /\ v \in IoPair
    BY <2>1, BusAssumption DEF M!StoreTo, M!IsRegister, IoPair, M!IoByte
  <2>3. Fits(q, p)
    BY <1>7, <2>2, AnyHalfFits
  <2>4. where = "TIMER" => Counts(r, q)
    BY <1>7, <2>2, TimerCounts
  <2> HIDE DEF q, p
  <2> QED
    BY <2>1, <2>3, <2>4, StoreToKeeps DEF r
<1>10. ASSUME NEW v \in IoWords, M!StoreIo32(v) PROVE RegisterInv'
  <2> DEFINE q == M!WriteIo32(r, v)
             p == M!HalfStored(M!HalfStored(stored, 1, SubSeq(v, 1, 2)), 2, SubSeq(v, 3, 4))
  <2>1. M!StoreTo(q, p)
    BY <1>10 DEF M!StoreIo32, r, M!LOW, M!HIGH
  <2>2. where \in M!Pairs /\ v \in [1..4 -> M!IoByte]
    BY <2>1, BusAssumption DEF M!StoreTo, M!IsRegister, M!IoByte
  <2>3. Fits(q, p)
    BY <1>7, <2>2, WordFits
  <2>4. where = "TIMER" => Counts(r, q)
    BY <1>7, <2>2, WordCounts
  <2> HIDE DEF q, p
  <2> QED
    BY <2>1, <2>3, <2>4, StoreToKeeps DEF r
<1> QED
  BY <1>2, <1>3, <1>4, <1>5, <1>8, <1>9, <1>10 DEF M!Next, M!LOW, M!HIGH

(* A half of a register holds the bytes last stored to it, by bytes,       *)
(* halfwords or words, and what the hardware alone may set stays; a        *)
(* reference point is the signed number of its two halves; and a timer     *)
(* counts from the reload that was stored before it started (bus/mod.rs,   *)
(* write_io8, write16 and write32).                                        *)
THEOREM HalvesHold == BusSpec => []HalvesKept
<1>1. BusInit => RegisterInv
  BY RegistersStart DEF BusInit, Init1
<1>2. RegisterInv /\ [BusNext]_busVars => RegisterInv'
  <2>1. ASSUME RegisterInv, UNCHANGED memoryVars PROVE RegisterInv'
    <3>1. M!Registers' = M!Registers /\ where' = where /\ stored' = stored /\ counter' = counter /\ from' = from
      BY <2>1 DEF memoryVars, M!Registers
    <3>2. Fits(M!Registers, stored)' <=> Fits(M!Registers, stored)
      BY <3>1 DEF Fits
    <3> QED
      BY <2>1, <3>1, <3>2 DEF RegisterInv
  <2> QED
    BY <2>1, RegisterStep DEF BusNext, UseCartridge, UseMemory, UseServices, busVars
<1>3. RegisterInv => HalvesKept
  <2> SUFFICES ASSUME RegisterInv, where \in M!Pairs PROVE M!HalvesKept
    BY DEF HalvesKept, M!HalvesKept, M!IsRegister
  <2>1. Fits(M!Registers, stored) /\ M!Registers.io = io
    BY DEF RegisterInv, M!Registers
  <2>2. where # "BG_REF" => \A h, b \in 1..2 : io[h][b] \in stored[h][b]
    BY <2>1 DEF Fits
  <2> DEFINE At(w, x, y, z) ==
               /\ w \in stored[1][1] /\ x \in stored[1][2]
               /\ y \in stored[2][1] /\ z \in stored[2][2]
               /\ z < BYTE \div 2 => M!Joined(io) = M!Signed(<< <<w, x>>, <<y, z>> >>)
  <2>3. ASSUME where = "BG_REF" PROVE \E w, x, y, z \in M!IoByte : At(w, x, y, z)
    <3>1. io \in [1..2 -> IoPair] /\ \A b \in 1..2 : io[1][b] \in stored[1][b]
      BY <2>1, <2>3 DEF Fits, Registers
    <3>2. PICK y \in M!IoByte, z \in M!IoByte :
            /\ y \in stored[2][1] /\ z \in stored[2][2]
            /\ z < BYTE \div 2 => Upper(io[2][1], io[2][2]) = Extended(Upper(y, z))
      BY <2>1, <2>3 DEF Fits
    <3> DEFINE w == io[1][1]
               x == io[1][2]
               v == << <<w, x>>, <<y, z>> >>
               lo == Upper(w, x)
               k == Upper(y, z)
    <3>3. w \in M!IoByte /\ x \in M!IoByte /\ v \in [1..2 -> IoPair]
      BY <3>1 DEF IoPair
    <3>4. ASSUME z < BYTE \div 2 PROVE M!Joined(io) = M!Signed(v)
      <4>1. M!Joined(io) = lo + HALVES * Extended(k)
        BY <3>1, <3>2, <3>4, JoinedParts
      <4>2. k \in 0..(TOP - 1) /\ k % TOP = k
        BY <3>4, UpperFits, Sizes, NoWrap
      <4>3. v[1][1] = w /\ v[1][2] = x /\ v[2][1] = y /\ v[2][2] = z
        OBVIOUS
      <4> HIDE DEF v, w, x
      <4>4. M!Joined(v) % M!Unused = lo + HALVES * k
            /\ ((M!Joined(v) % M!Unused >= M!Unused \div 2) <=> k >= SIGN)
        BY <3>3, <4>2, <4>3, SignSpreads
      <4>5. M!Signed(v) = IF k >= SIGN THEN (lo + HALVES * k) + HALVES * TOP ELSE lo + HALVES * k
        BY <4>4, Sizes DEF M!Signed
      <4>6. Extended(k) = IF k >= SIGN THEN k + TOP ELSE k
        BY DEF Extended, SIGN, TOP, HALVES
      <4>7. lo \in Nat
        BY <3>3, Sizes DEF Upper, M!IoByte
      <4>8. HALVES * (k + TOP) = HALVES * k + HALVES * TOP /\ HALVES * k \in Nat /\ HALVES * TOP \in Nat
        BY <4>2, Sizes
      <4> DEFINE a == HALVES * k
                 c == HALVES * TOP
                 d == HALVES * (k + TOP)
      <4>9. a \in Nat /\ c \in Nat /\ d = a + c
        BY <4>8
      <4>10. M!Joined(io) = (IF k >= SIGN THEN lo + d ELSE lo + a)
             /\ M!Signed(v) = (IF k >= SIGN THEN (lo + a) + c ELSE lo + a)
        BY <4>1, <4>5, <4>6
      <4> HIDE DEF a, c, d, lo, k
      <4>11. lo + d = (lo + a) + c
        BY <4>7, <4>9
      <4> QED
        BY <4>10, <4>11
    <3>5. At(w, x, y, z)
      <4>1. w \in stored[1][1] /\ x \in stored[1][2]
        BY <3>1
      <4> HIDE DEF w, x
      <4> QED
        BY <3>2, <3>4, <4>1
    <3> HIDE DEF At, w, x
    <3> QED
      BY <3>2, <3>3, <3>5
  <2>4. where = "TIMER" => counter \in from
    BY DEF RegisterInv
  <2>5. M!HalvesKept <=> (where \in M!Pairs =>
          /\ where # "BG_REF" => \A h \in {1, 2}, b \in 1..2 : io[h][b] \in stored[h][b]
          /\ where = "BG_REF" => \E w, x, y, z \in M!IoByte : At(w, x, y, z)
          /\ where = "TIMER" => counter \in from)
    BY DEF M!HalvesKept, M!LOW, M!HIGH, M!IsRegister
  <2> HIDE DEF At
  <2>6. {1, 2} = 1..2
    OBVIOUS
  <2> QED
    BY <2>2, <2>3, <2>4, <2>5, <2>6
<1> QED
  BY <1>1, <1>2, <1>3, PTL DEF BusSpec
-----------------------------------------------------------------------------
(***************************************************************************)
(* The EEPROM.                                                             *)
(***************************************************************************)
(* A transfer to the chip goes bit by bit.                                 *)
LEMMA TransferTo ==
  ASSUME NEW c, NEW bits \in Seq({0, 1})
  PROVE  \E after :
           /\ after[0] = E!set_addr_width_from_dma(c, Len(bits))
           /\ \A k \in 1..Len(bits) : after[k] = E!TakeBit(after[k - 1], bits[k])
           /\ E!DmaTo(c, bits) = after[Len(bits)]
<1> DEFINE n == Len(bits)
           first == E!set_addr_width_from_dma(c, Len(bits))
           Body(m, g) == [k \in 0..m |-> IF k = 0 THEN first ELSE E!TakeBit(g[k - 1], bits[k])]
           U == {m \in 0..n : \E g : g = Body(m, g)}
<1>1. n \in Nat
  BY LenProperties
<1>2. E!DmaTo(c, bits) = (CHOOSE g : g = Body(n, g))[n]
  BY DEF E!DmaTo
<1> HIDE DEF first
<1>3. 0 \in U
  <2> DEFINE g == [k \in 0..0 |-> first]
  <2>1. g = Body(0, g)
    OBVIOUS
  <2> HIDE DEF g, Body
  <2> QED
    BY <1>1, <2>1
<1>4. ASSUME NEW m \in 0..(n - 1), m \in U PROVE m + 1 \in U
  <2>1. PICK g : g = Body(m, g)
    BY <1>4
  <2> DEFINE h == [k \in 0..(m + 1) |-> IF k = m + 1 THEN E!TakeBit(g[m], bits[m + 1]) ELSE g[k]]
  <2>2. ASSUME NEW k \in 0..(m + 1)
        PROVE  h[k] = IF k = 0 THEN first ELSE E!TakeBit(h[k - 1], bits[k])
    <3>0. m + 1 # 0 /\ m \in 0..m /\ m \in 0..(m + 1) /\ m # m + 1 /\ m \in Nat
      BY <1>1
    <3>1. CASE k = m + 1
      <4>1. k - 1 = m /\ k # 0
        BY <3>0, <3>1
      <4>2. h[m] = g[m]
        BY <3>0
      <4>3. h[k] = E!TakeBit(g[m], bits[m + 1])
        BY <3>1
      <4> QED
        BY <3>1, <4>1, <4>2, <4>3
    <3>2. CASE k # m + 1
      <4>1. k \in 0..m
        BY <3>0, <3>2
      <4>2. h[k] = g[k] /\ g[k] = IF k = 0 THEN first ELSE E!TakeBit(g[k - 1], bits[k])
        <5>1. h[k] = g[k]
          BY <3>2
        <5>2. g[k] = Body(m, g)[k]
          BY <2>1
        <5> QED
          BY <4>1, <5>1, <5>2
      <4>3. k # 0 => k - 1 \in 0..(m + 1) /\ k - 1 # m + 1
        BY <3>0, <4>1
      <4>4. k # 0 => h[k - 1] = g[k - 1]
        BY <4>3
      <4> HIDE DEF h
      <4> QED
        BY <4>2, <4>4
    <3> QED
      BY <3>1, <3>2
  <2>3. DOMAIN h = 0..(m + 1) /\ h = [k \in 0..(m + 1) |-> h[k]]
    OBVIOUS
  <2> HIDE DEF h
  <2>4. h = Body(m + 1, h)
    BY <2>2, <2>3
  <2>5. m + 1 \in 0..n
    BY <1>1
  <2> QED
    BY <2>4, <2>5
<1>5. n \in U
  <2> HIDE DEF U, n
  <2> QED
    BY <1>1, <1>3, <1>4, InductionTo
<1>6. \E g : g = Body(n, g)
  BY <1>5
<1> DEFINE p == CHOOSE g : g = Body(n, g)
<1>7. p = Body(n, p)
  <2> HIDE DEF Body
  <2> QED
    BY <1>6
<1>8. E!DmaTo(c, bits) = p[n]
  BY <1>2
<1> HIDE DEF p
<1>9. \A k \in 0..n : p[k] = IF k = 0 THEN first ELSE E!TakeBit(p[k - 1], bits[k])
  BY <1>7
<1> HIDE DEF n
<1>10. p[0] = first /\ \A k \in 1..n : p[k] = E!TakeBit(p[k - 1], bits[k])
  BY <1>1, <1>9
<1> QED
  BY <1>8, <1>10 DEF n, first

(* ... and so does one from the chip.                                      *)
Read1(r) == [bits |-> Append(r.bits, E!ReadBit(r.c)), c |-> E!AfterRead(r.c)]
LEMMA TransferFrom ==
  ASSUME NEW c, NEW l \in Nat
  PROVE  \E after :
           /\ after[0] = [bits |-> <<>>, c |-> c]
           /\ \A k \in 1..l : after[k] = Read1(after[k - 1])
           /\ E!DmaFrom(c, l) = after[l]
<1> DEFINE n == l
           first == [bits |-> <<>>, c |-> c]
           Body(m, g) == [k \in 0..m |-> IF k = 0 THEN first ELSE Read1(g[k - 1])]
           U == {m \in 0..n : \E g : g = Body(m, g)}
<1>1. n \in Nat
  OBVIOUS
<1>2. E!DmaFrom(c, l) = (CHOOSE g : g = Body(n, g))[n]
  BY DEF E!DmaFrom, Read1
<1> HIDE DEF first
<1>3. 0 \in U
  <2> DEFINE g == [k \in 0..0 |-> first]
  <2>1. g = Body(0, g)
    OBVIOUS
  <2> HIDE DEF g, Body
  <2> QED
    BY <1>1, <2>1
<1>4. ASSUME NEW m \in 0..(n - 1), m \in U PROVE m + 1 \in U
  <2>1. PICK g : g = Body(m, g)
    BY <1>4
  <2> DEFINE h == [k \in 0..(m + 1) |-> IF k = m + 1 THEN Read1(g[m]) ELSE g[k]]
  <2>2. ASSUME NEW k \in 0..(m + 1)
        PROVE  h[k] = IF k = 0 THEN first ELSE Read1(h[k - 1])
    <3>0. m + 1 # 0 /\ m \in 0..m /\ m \in 0..(m + 1) /\ m # m + 1 /\ m \in Nat
      BY <1>1
    <3>1. CASE k = m + 1
      <4>1. k - 1 = m /\ k # 0
        BY <3>0, <3>1
      <4>2. h[m] = g[m]
        BY <3>0
      <4>3. h[k] = Read1(g[m])
        BY <3>1
      <4> QED
        BY <3>1, <4>1, <4>2, <4>3
    <3>2. CASE k # m + 1
      <4>1. k \in 0..m
        BY <3>0, <3>2
      <4>2. h[k] = g[k] /\ g[k] = IF k = 0 THEN first ELSE Read1(g[k - 1])
        <5>1. h[k] = g[k]
          BY <3>2
        <5>2. g[k] = Body(m, g)[k]
          BY <2>1
        <5> QED
          BY <4>1, <5>1, <5>2
      <4>3. k # 0 => k - 1 \in 0..(m + 1) /\ k - 1 # m + 1
        BY <3>0, <4>1
      <4>4. k # 0 => h[k - 1] = g[k - 1]
        BY <4>3
      <4> HIDE DEF h
      <4> QED
        BY <4>2, <4>4
    <3> QED
      BY <3>1, <3>2
  <2>3. DOMAIN h = 0..(m + 1) /\ h = [k \in 0..(m + 1) |-> h[k]]
    OBVIOUS
  <2> HIDE DEF h
  <2>4. h = Body(m + 1, h)
    BY <2>2, <2>3
  <2>5. m + 1 \in 0..n
    BY <1>1
  <2> QED
    BY <2>4, <2>5
<1>5. n \in U
  <2> HIDE DEF U, n
  <2> QED
    BY <1>1, <1>3, <1>4, InductionTo
<1>6. \E g : g = Body(n, g)
  BY <1>5
<1> DEFINE p == CHOOSE g : g = Body(n, g)
<1>7. p = Body(n, p)
  <2> HIDE DEF Body
  <2> QED
    BY <1>6
<1>8. E!DmaFrom(c, l) = p[n]
  BY <1>2
<1> HIDE DEF p
<1>9. \A k \in 0..n : p[k] = IF k = 0 THEN first ELSE Read1(p[k - 1])
  BY <1>7
<1> HIDE DEF n
<1>10. p[0] = first /\ \A k \in 1..n : p[k] = Read1(p[k - 1])
  BY <1>1, <1>9
<1> QED
  BY <1>8, <1>10 DEF n, first

Digit == {0, 1}
Content == [1..BITS -> Digit]
Array(n) == [0..(n - 1) -> Content]
ChipRecords ==
  [data : Array(SMALL_BLOCKS) \cup Array(LARGE_BLOCKS),
   state : {"Idle", "CmdType", "Address", "Data", "ReadOut", "WriteDone"},
   size : {"Unknown", "Small", "Large"}, addr_width : Nat,
   cmd : Seq(Digit), bit_buf : Seq(Digit), address : E!Address \cup {0}, out : Seq(Digit)]

(* A chip takes itself for what the game takes it for, or has not found    *)
(* out.                                                                    *)
OwnSize == IF width = SMALL THEN "Small" ELSE "Large"
ChipType(c) ==
  /\ c \in ChipRecords /\ c.size \in {"Unknown", OwnSize}
  /\ c.data \in Array(IF c.size = "Small" THEN SMALL_BLOCKS ELSE LARGE_BLOCKS)

(* Nothing but the command under way has changed. *)
SameArray(x, c) == x.data = c.data /\ x.size = c.size /\ x.out = c.out

LEMMA Widths2 ==
  ASSUME width \in {SMALL, LARGE}
  PROVE  width \in Nat \ {0} /\ BITS \in Nat \ {0} /\ (width = SMALL <=> OwnSize = "Small")
         /\ (width = LARGE <=> OwnSize = "Large") /\ SMALL # LARGE
BY EepromAssumption DEF OwnSize

(* The blocks of the game's chip are there, found out or not. *)
LEMMA BlocksThere ==
  ASSUME NEW c, ChipType(c), width \in {SMALL, LARGE}
  PROVE  /\ \A a \in E!Blocks : a \in DOMAIN c.data
         /\ c.size = OwnSize => E!Blocks = E!Address \cap DOMAIN c.data
<1>1. DOMAIN c.data = 0..((IF c.size = "Small" THEN SMALL_BLOCKS ELSE LARGE_BLOCKS) - 1)
  BY DEF ChipType, Array
<1>2. SMALL_BLOCKS \in Nat /\ LARGE_BLOCKS \in Nat /\ SMALL_BLOCKS <= LARGE_BLOCKS
  BY EepromAssumption
<1>3. E!Blocks = E!Address \cap (0..((IF width = SMALL THEN SMALL_BLOCKS ELSE LARGE_BLOCKS) - 1))
  BY DEF E!Blocks
<1>4. \A a : a \in 0..(SMALL_BLOCKS - 1) => a \in 0..(LARGE_BLOCKS - 1)
  BY <1>2
<1>5. c.size \in {"Unknown", OwnSize}
  BY DEF ChipType
<1>6. CASE width = SMALL
  BY <1>1, <1>3, <1>4, <1>5, <1>6 DEF OwnSize
<1>7. CASE width # SMALL
  BY <1>1, <1>3, <1>4, <1>5, <1>7 DEF OwnSize
<1> QED
  BY <1>6, <1>7

(* A transfer of the length of a command tells the chip its size.          *)
LEMMA Sizing ==
  ASSUME NEW c, ChipType(c), width \in {SMALL, LARGE}, NEW n \in {3 + width, 3 + width + BITS}
  PROVE  LET d == E!set_addr_width_from_dma(c, n)
         IN  /\ ChipType(d) /\ d.size = OwnSize /\ d.state = c.state /\ d.out = c.out
             /\ \A a \in E!Blocks : d.data[a] = c.data[a]
<1> DEFINE d == E!set_addr_width_from_dma(c, n)
<1>1. SMALL \in Nat \ {0} /\ LARGE \in Nat /\ SMALL < LARGE /\ LARGE # SMALL + BITS /\ BITS \in Nat \ {0}
  BY EepromAssumption
<1>2. c \in ChipRecords /\ c.size \in {"Unknown", OwnSize}
  BY DEF ChipType
<1>3. CASE c.size # "Unknown"
  <2>1. d = c
    BY <1>3 DEF E!set_addr_width_from_dma
  <2> QED
    BY <1>2, <1>3, <2>1
<1>4. CASE c.size = "Unknown" /\ width = SMALL
  <2>1. n \in {3 + SMALL, 3 + SMALL + BITS}
    BY <1>4
  <2> DEFINE r == [b \in 0..(SMALL_BLOCKS - 1) |-> IF b \in DOMAIN c.data THEN c.data[b] ELSE E!Ones]
  <2>2. d = [c EXCEPT !.size = "Small", !.addr_width = SMALL, !.data = r]
    BY <1>1, <1>4, <2>1 DEF E!set_addr_width_from_dma, E!AsSmall, E!Resized
  <2>3. E!Ones \in Content
    BY DEF E!Ones, Content, Digit
  <2>4. c.data \in Array(LARGE_BLOCKS)
    BY <1>4 DEF ChipType
  <2>5. r \in Array(SMALL_BLOCKS)
    BY <2>3, <2>4 DEF Array
  <2>6. ASSUME NEW a \in E!Blocks PROVE r[a] = c.data[a]
    <3>1. a \in DOMAIN c.data
      BY BlocksThere
    <3>2. a \in 0..(SMALL_BLOCKS - 1)
      BY <1>4 DEF E!Blocks
    <3> QED
      BY <3>1, <3>2
  <2> HIDE DEF r, d
  <2>7. /\ d \in ChipRecords /\ d.size = "Small" /\ d.data = r /\ d.state = c.state /\ d.out = c.out
    BY <1>1, <1>2, <2>2, <2>5 DEF ChipRecords
  <2> QED
    BY <1>4, <2>5, <2>6, <2>7 DEF ChipType, OwnSize, d
<1>5. CASE c.size = "Unknown" /\ width = LARGE
  <2>1. n \in {3 + LARGE, 3 + LARGE + BITS} /\ n \notin {3 + SMALL, 3 + SMALL + BITS}
    BY <1>1, <1>5
  <2>2. d = [c EXCEPT !.size = "Large", !.addr_width = LARGE]
    BY <1>5, <2>1 DEF E!set_addr_width_from_dma, E!AsLarge
  <2> HIDE DEF d
  <2>3. /\ d \in ChipRecords /\ d.size = "Large" /\ d.data = c.data /\ d.state = c.state /\ d.out = c.out
    BY <1>1, <1>2, <2>2 DEF ChipRecords
  <2> QED
    BY <1>1, <1>5, <2>3 DEF ChipType, OwnSize, d
<1> QED
  BY <1>2, <1>3, <1>4, <1>5

(* Bits gathered so far. *)
Spelt(s, t, j) == s \in Seq(Digit) /\ Len(s) = j /\ \A i \in 1..j : s[i] = t[i]
LEMMA SpeltMore ==
  ASSUME NEW j \in Nat, NEW s, NEW t, Spelt(s, t, j), t[j + 1] \in Digit
  PROVE  Spelt(Append(s, t[j + 1]), t, j + 1)
<1> DEFINE b == t[j + 1]
           u == Append(s, b)
<1>1. s \in Seq(Digit) /\ Len(s) = j /\ b \in Digit
  BY DEF Spelt
<1> HIDE DEF b
<1>2. u \in Seq(Digit) /\ Len(u) = Len(s) + 1 /\ u[Len(s) + 1] = b /\ \A i \in 1..Len(s) : u[i] = s[i]
  BY <1>1, AppendProperties
<1> HIDE DEF u
<1>3. \A i \in 1..(j + 1) : i = j + 1 \/ i \in 1..j
  OBVIOUS
<1>4. \A i \in 1..(j + 1) : u[i] = t[i]
  BY <1>1, <1>2, <1>3 DEF Spelt, b
<1> QED
  BY <1>1, <1>2, <1>4 DEF Spelt, u, b
LEMMA SpeltAll ==
  ASSUME NEW n \in Nat, NEW t \in [1..n -> Digit], NEW s, Spelt(s, t, n)
  PROVE  s = t
<1>1. s \in Seq(Digit) /\ Len(s) = n /\ \A i \in 1..n : s[i] = t[i]
  BY DEF Spelt
<1>2. s \in [1..n -> Digit]
  BY <1>1, LenProperties
<1> QED
  BY <1>1, <1>2

(* One bit, in each state of the chip.                                     *)
LEMMA TakeBegins ==
  ASSUME NEW c \in ChipRecords, c.state \in {"Idle", "WriteDone"}, NEW b \in Digit
  PROVE  LET d == E!TakeBit(c, b)
         IN  d \in ChipRecords /\ SameArray(d, c) /\ d.state = "CmdType" /\ d.bit_buf = <<b>>
<1> DEFINE d == E!TakeBit(c, b)
<1>1. d = [c EXCEPT !.bit_buf = <<b>>, !.state = "CmdType"]
  BY DEF E!TakeBit
<1>2. <<b>> \in Seq(Digit)
  OBVIOUS
<1> HIDE DEF d
<1> QED
  BY <1>1, <1>2, Zenon DEF ChipRecords, SameArray, d

LEMMA TakeKind ==
  ASSUME NEW c \in ChipRecords, c.state = "CmdType", NEW a \in Digit, c.bit_buf = <<a>>, NEW b \in Digit,
         <<a, b>> \in {E!READ, E!WRITE}
  PROVE  LET d == E!TakeBit(c, b)
         IN  d \in ChipRecords /\ SameArray(d, c) /\ d.state = "Address" /\ d.cmd = <<a, b>> /\ d.bit_buf = <<>>
<1> DEFINE d == E!TakeBit(c, b)
<1>1. Append(c.bit_buf, b) = <<a, b>>
  <2> DEFINE s == <<a>>
             u == Append(s, b)
  <2>0. Len(s) = 1 /\ s[1] = a
    OBVIOUS
  <2>1. s \in Seq(Digit)
    OBVIOUS
  <2> HIDE DEF s
  <2>2. u \in Seq(Digit) /\ Len(u) = Len(s) + 1 /\ u[Len(s) + 1] = b /\ \A i \in 1..Len(s) : u[i] = s[i]
    BY ONLY <2>1, b \in Digit, AppendProperties
  <2> HIDE DEF u
  <2>3. u \in Seq(Digit) /\ Len(u) = 2 /\ u[1] = a /\ u[2] = b
    BY <2>0, <2>1, <2>2
  <2>4. u = <<a, b>>
    BY <2>3
  <2> QED
    BY <2>4 DEF u, s
<1>2. d = [c EXCEPT !.cmd = <<a, b>>, !.bit_buf = <<>>, !.state = "Address"]
  BY <1>1 DEF E!TakeBit
<1>3. <<a, b>> \in Seq(Digit) /\ <<>> \in Seq(Digit)
  OBVIOUS
<1> HIDE DEF d
<1> QED
  BY <1>2, <1>3, Zenon DEF ChipRecords, SameArray, d

LEMMA AddressWidth ==
  ASSUME NEW c, c.size = OwnSize, width \in {SMALL, LARGE}
  PROVE  E!effective_addr_width(c) = width
BY Widths2 DEF E!effective_addr_width, OwnSize

LEMMA TakeAddress ==
  ASSUME NEW c \in ChipRecords, c.state = "Address", c.size = OwnSize, width \in {SMALL, LARGE},
         NEW bits \in E!AddressBits, NEW j \in 0..(width - 1), Spelt(c.bit_buf, bits, j)
  PROVE  LET d == E!TakeBit(c, bits[j + 1])
         IN  /\ d \in ChipRecords /\ SameArray(d, c) /\ d.cmd = c.cmd
             /\ j + 1 < width => d.state = "Address" /\ Spelt(d.bit_buf, bits, j + 1)
             /\ j + 1 = width => d.state = "Data" /\ d.bit_buf = <<>> /\ d.address = E!Number(bits)
<1> DEFINE b == bits[j + 1]
           s == Append(c.bit_buf, b)
           d == E!TakeBit(c, b)
<1>1. width \in Nat \ {0} /\ j \in Nat /\ j + 1 \in 1..width
  BY Widths2
<1>2. b \in Digit /\ bits \in [1..width -> Digit]
  BY <1>1 DEF E!AddressBits, Digit
<1>3. Spelt(s, bits, j + 1)
  BY <1>1, <1>2, SpeltMore
<1> HIDE DEF b
<1>4. s \in Seq(Digit) /\ Len(s) = j + 1
  BY <1>3 DEF Spelt
<1>5. d = E!TakeAddressBit(c, s)
  BY DEF E!TakeBit
<1> HIDE DEF s
<1>6. E!effective_addr_width(c) = width /\ c.size # "Unknown"
  BY AddressWidth DEF OwnSize
<1>7. CASE j + 1 < width
  <2>1. d = [c EXCEPT !.bit_buf = s]
    BY <1>4, <1>5, <1>6, <1>7 DEF E!TakeAddressBit
  <2> HIDE DEF d
  <2>2. d \in ChipRecords /\ SameArray(d, c) /\ d.cmd = c.cmd /\ d.state = "Address" /\ d.bit_buf = s
    BY <1>4, <2>1 DEF ChipRecords, SameArray
  <2> QED
    BY <1>1, <1>3, <1>7, <2>2 DEF d, b
<1>8. CASE ~(j + 1 < width)
  <2>1. j + 1 = width
    BY <1>1, <1>8
  <2>2. s = bits
    <3>1. Spelt(s, bits, width)
      BY <1>3, <2>1
    <3> QED
      BY <1>1, <1>2, <3>1, SpeltAll
  <2>3. d = [c EXCEPT !.address = E!Number(bits), !.bit_buf = <<>>, !.state = "Data"]
    BY <1>4, <1>5, <1>6, <1>8, <2>2 DEF E!TakeAddressBit
  <2>4. E!Number(bits) \in E!Address /\ <<>> \in Seq(Digit)
    BY DEF E!Address
  <2> HIDE DEF d
  <2>5. /\ d \in ChipRecords /\ SameArray(d, c) /\ d.cmd = c.cmd /\ d.state = "Data" /\ d.bit_buf = <<>>
        /\ d.address = E!Number(bits)
    BY <2>3, <2>4 DEF ChipRecords, SameArray
  <2> QED
    BY <1>1, <2>1, <2>5 DEF d, b
<1> QED
  BY <1>7, <1>8

(* The first two fields of a command, whichever it is.                     *)
Taken(after, text) == \A k \in 1..Len(text) : after[k] = E!TakeBit(after[k - 1], text[k])
LEMMA Addressed ==
  ASSUME width \in {SMALL, LARGE}, NEW after, NEW text, Taken(after, text),
         after[0] \in ChipRecords, after[0].size = OwnSize, after[0].state \in {"Idle", "WriteDone"},
         NEW op \in {E!READ, E!WRITE}, NEW bits \in E!AddressBits, Len(text) \in Nat, 2 + width <= Len(text),
         text[1] = op[1], text[2] = op[2], \A j \in 1..width : text[2 + j] = bits[j]
  PROVE  LET d == after[2 + width]
         IN  /\ d \in ChipRecords /\ SameArray(d, after[0]) /\ d.cmd = op
             /\ d.state = "Data" /\ d.bit_buf = <<>> /\ d.address = E!Number(bits)
<1> DEFINE c == after[0]
           n == width - 1
           Part(j) == /\ after[2 + j] \in ChipRecords /\ SameArray(after[2 + j], c) /\ after[2 + j].cmd = op
                      /\ after[2 + j].state = "Address" /\ Spelt(after[2 + j].bit_buf, bits, j)
           U == {j \in 0..n : Part(j)}
<1>1. width \in Nat \ {0} /\ n \in Nat /\ \A k \in 1..(2 + width) : after[k] = E!TakeBit(after[k - 1], text[k])
  BY Widths2 DEF Taken
<1>2. op[1] \in Digit /\ op[2] \in Digit /\ op = <<op[1], op[2]>>
  BY DEF E!READ, E!WRITE, Digit
<1>3. after[1] = E!TakeBit(c, op[1]) /\ after[2] = E!TakeBit(after[1], op[2])
  <2>1. 1 \in 1..(2 + width) /\ 2 \in 1..(2 + width) /\ 1 - 1 = 0 /\ 2 - 1 = 1
    BY <1>1
  <2> QED
    BY <1>1, <2>1
<1> HIDE DEF c
<1>4. after[1] \in ChipRecords /\ SameArray(after[1], c) /\ after[1].state = "CmdType" /\ after[1].bit_buf = <<op[1]>>
  BY <1>2, <1>3, TakeBegins DEF c
<1>5. after[2] \in ChipRecords /\ SameArray(after[2], after[1]) /\ after[2].state = "Address"
      /\ after[2].cmd = op /\ after[2].bit_buf = <<>>
  BY <1>2, <1>3, <1>4, TakeKind
<1>6. 0 \in U
  <2>1. Spelt(<<>>, bits, 0)
    BY DEF Spelt
  <2>2. 0 \in 0..n /\ 2 + 0 = 2
    BY <1>1
  <2>3. SameArray(after[2], c)
    BY <1>4, <1>5 DEF SameArray
  <2> HIDE DEF n
  <2> QED
    BY <1>5, <2>1, <2>2, <2>3
<1>7. ASSUME NEW j \in 0..n, Part(j)
      PROVE  LET d == after[2 + (j + 1)]
             IN  /\ d \in ChipRecords /\ SameArray(d, c) /\ d.cmd = op
                 /\ j + 1 < width => d.state = "Address" /\ Spelt(d.bit_buf, bits, j + 1)
                 /\ j + 1 = width => d.state = "Data" /\ d.bit_buf = <<>> /\ d.address = E!Number(bits)
  <2> DEFINE x == after[2 + j]
             d == after[2 + (j + 1)]
  <2>1. j \in 0..(width - 1) /\ 2 + (j + 1) \in 1..(2 + width) /\ (2 + (j + 1)) - 1 = 2 + j /\ j + 1 \in 1..width
    BY <1>1
  <2>2. d = E!TakeBit(x, bits[j + 1])
    BY <1>1, <2>1
  <2>3. x \in ChipRecords /\ SameArray(x, c) /\ x.cmd = op /\ x.state = "Address" /\ Spelt(x.bit_buf, bits, j)
    BY <1>7
  <2>4. x.size = OwnSize
    BY <2>3 DEF SameArray, c
  <2> HIDE DEF x, d
  <2>5. /\ d \in ChipRecords /\ SameArray(d, x) /\ d.cmd = x.cmd
        /\ j + 1 < width => d.state = "Address" /\ Spelt(d.bit_buf, bits, j + 1)
        /\ j + 1 = width => d.state = "Data" /\ d.bit_buf = <<>> /\ d.address = E!Number(bits)
    BY <2>1, <2>2, <2>3, <2>4, TakeAddress
  <2>6. SameArray(d, c)
    BY <2>3, <2>5 DEF SameArray
  <2> QED
    BY <2>3, <2>5, <2>6 DEF d
<1>8. \A j \in 0..(n - 1) : j \in U => j + 1 \in U
  <2> SUFFICES ASSUME NEW j \in 0..(n - 1), j \in U PROVE j + 1 \in U
    OBVIOUS
  <2>1. j \in 0..n /\ j + 1 \in 0..n /\ j + 1 < width
    BY <1>1
  <2>2. Part(j)
    OBVIOUS
  <2> HIDE DEF Part, n
  <2>3. Part(j + 1)
    BY <1>7, <2>1, <2>2 DEF Part
  <2> QED
    BY <2>1, <2>3
<1>9. n \in U
  <2> HIDE DEF U, n
  <2> QED
    BY <1>1, <1>6, <1>8, InductionTo
<1>10. n \in 0..n /\ Part(n) /\ n + 1 = width
  BY <1>1, <1>9
<1> HIDE DEF Part, n
<1>11. LET d == after[2 + (n + 1)]
       IN  /\ d \in ChipRecords /\ SameArray(d, c) /\ d.cmd = op
           /\ n + 1 = width => d.state = "Data" /\ d.bit_buf = <<>> /\ d.address = E!Number(bits)
  BY <1>7, <1>10
<1> QED
  BY <1>10, <1>11 DEF c

(* How commands are spelt.                                                 *)
LEMMA Heading ==
  ASSUME width \in {SMALL, LARGE}, NEW op \in {E!READ, E!WRITE}, NEW bits \in E!AddressBits
  PROVE  LET s == op \o bits
         IN  /\ s \in Seq(Digit) /\ Len(s) = 2 + width /\ s[1] = op[1] /\ s[2] = op[2]
             /\ \A j \in 1..width : s[2 + j] = bits[j]
<1> DEFINE s == op \o bits
<1>1. width \in Nat /\ bits \in [1..width -> Digit]
  BY Widths2 DEF E!AddressBits, Digit
<1>2. bits \in Seq(Digit)
  BY <1>1
<1>6. Len(bits) = width
  BY <1>1
<1>3. op \in Seq(Digit)
  <2>1. E!READ \in Seq(Digit)
    BY DEF E!READ, Digit
  <2>2. E!WRITE \in Seq(Digit)
    BY DEF E!WRITE, Digit
  <2> QED
    BY <2>1, <2>2
<1>4. Len(op) = 2
  BY DEF E!READ, E!WRITE
<1> HIDE DEF s
<1>5. /\ s \in Seq(Digit) /\ Len(s) = Len(op) + Len(bits)
      /\ \A k \in 1..Len(op) : s[k] = op[k]
      /\ \A k \in 1..Len(bits) : s[Len(op) + k] = bits[k]
  BY ONLY <1>2, <1>3, SideBySide DEF s
<1> QED
  BY <1>1, <1>2, <1>4, <1>5, <1>6 DEF s

LEMMA Ending ==
  ASSUME NEW s \in Seq(Digit)
  PROVE  LET t == s \o <<0>>
         IN  /\ t \in Seq(Digit) /\ Len(t) = Len(s) + 1
             /\ \A k \in 1..Len(s) : t[k] = s[k]
<1> DEFINE z == <<0>>
<1>1. z \in Seq(Digit)
  BY DEF Digit
<1>2. Len(z) = 1
  OBVIOUS
<1> HIDE DEF z
<1>3. /\ s \o z \in Seq(Digit) /\ Len(s \o z) = Len(s) + Len(z) /\ \A k \in 1..Len(s) : (s \o z)[k] = s[k]
  BY ONLY <1>1, s \in Seq(Digit), SideBySide
<1> QED
  BY <1>2, <1>3 DEF z

LEMMA ReadText ==
  ASSUME width \in {SMALL, LARGE}, NEW bits \in E!AddressBits
  PROVE  LET t == E!READ \o bits \o <<0>>
         IN  /\ t \in Seq(Digit) /\ Len(t) = 3 + width /\ t[1] = E!READ[1] /\ t[2] = E!READ[2]
             /\ \A j \in 1..width : t[2 + j] = bits[j]
<1> DEFINE s == E!READ \o bits
           t == s \o <<0>>
<1>1. width \in Nat
  BY Widths2
<1>2. /\ s \in Seq(Digit) /\ Len(s) = 2 + width /\ s[1] = E!READ[1] /\ s[2] = E!READ[2]
      /\ \A j \in 1..width : s[2 + j] = bits[j]
  BY Heading
<1> HIDE DEF s
<1>3. t \in Seq(Digit) /\ Len(t) = Len(s) + 1 /\ \A k \in 1..Len(s) : t[k] = s[k]
  BY <1>2, Ending
<1> HIDE DEF t
<1>4. \A j \in 1..width : 2 + j \in 1..(2 + width)
  BY <1>1
<1>5. 1 \in 1..(2 + width) /\ 2 \in 1..(2 + width) /\ (2 + width) + 1 = 3 + width
  BY <1>1
<1> QED
  BY <1>2, <1>3, <1>4, <1>5 DEF t, s

LEMMA WriteText ==
  ASSUME width \in {SMALL, LARGE}, NEW bits \in E!AddressBits, NEW w \in Content
  PROVE  LET t == E!WRITE \o bits \o w \o <<0>>
         IN  /\ t \in Seq(Digit) /\ Len(t) = 3 + width + BITS /\ t[1] = E!WRITE[1] /\ t[2] = E!WRITE[2]
             /\ \A j \in 1..width : t[2 + j] = bits[j]
             /\ \A j \in 1..BITS : t[2 + width + j] = w[j]
<1> DEFINE s == E!WRITE \o bits
           u == s \o w
           t == u \o <<0>>
<1>1. width \in Nat /\ BITS \in Nat
  BY Widths2
<1>2. /\ s \in Seq(Digit) /\ Len(s) = 2 + width /\ s[1] = E!WRITE[1] /\ s[2] = E!WRITE[2]
      /\ \A j \in 1..width : s[2 + j] = bits[j]
  BY Heading
<1> HIDE DEF s
<1>3. w \in Seq(Digit) /\ Len(w) = BITS
  BY <1>1 DEF Content
<1>11. s \in Seq(Digit) /\ w \in Seq(Digit)
  BY <1>2, <1>3
<1>4. /\ u \in Seq(Digit) /\ Len(u) = Len(s) + Len(w)
      /\ \A k \in 1..Len(s) : u[k] = s[k]
      /\ \A k \in 1..Len(w) : u[Len(s) + k] = w[k]
  BY ONLY <1>11, SideBySide
<1> HIDE DEF u
<1>5. t \in Seq(Digit) /\ Len(t) = Len(u) + 1 /\ \A k \in 1..Len(u) : t[k] = u[k]
  BY <1>4, Ending
<1> HIDE DEF t
<1>6. Len(u) = 2 + width + BITS /\ (2 + width + BITS) + 1 = 3 + width + BITS
  BY <1>1, <1>2, <1>3, <1>4
<1>7. ASSUME NEW k \in 1..(2 + width) PROVE t[k] = s[k]
  <2>1. k \in 1..Len(u)
    BY <1>1, <1>6
  <2> QED
    BY <1>2, <1>4, <1>5, <2>1
<1>8. ASSUME NEW k \in 1..BITS PROVE t[2 + width + k] = w[k]
  <2>1. 2 + width + k \in 1..Len(u)
    BY <1>1, <1>6
  <2> QED
    BY <1>2, <1>3, <1>4, <1>5, <2>1, SMTT(40)
<1>9. \A j \in 1..width : 2 + j \in 1..(2 + width)
  BY <1>1
<1>10. 1 \in 1..(2 + width) /\ 2 \in 1..(2 + width)
  BY <1>1
<1> QED
  BY <1>2, <1>5, <1>6, <1>7, <1>8, <1>9, <1>10 DEF t, u, s

(* What a chip shows of a block it is asked for.                           *)
Shown(block) == [i \in 1..DUMMIES |-> 0] \o block
LEMMA ShownType ==
  ASSUME NEW block \in Content
  PROVE  Shown(block) \in Seq(Digit) /\ Len(Shown(block)) = DUMMIES + BITS
<1> DEFINE z == [i \in 1..DUMMIES |-> 0]
<1>1. DUMMIES \in Nat /\ BITS \in Nat
  BY EepromAssumption
<1>2. z \in Seq(Digit) /\ Len(z) = DUMMIES
  BY <1>1 DEF Digit
<1>3. block \in Seq(Digit) /\ Len(block) = BITS
  BY <1>1 DEF Content
<1> HIDE DEF z
<1>4. z \o block \in Seq(Digit) /\ Len(z \o block) = Len(z) + Len(block)
  BY ONLY <1>2, <1>3, SideBySide
<1> QED
  BY <1>2, <1>3, <1>4 DEF Shown, z

(* A block asked for.                                                      *)
LEMMA TakeDummy ==
  ASSUME NEW c, c.state = "Data", c.cmd = E!READ, NEW b
  PROVE  E!TakeBit(c, b) = E!begin_read(c)
<1>1. E!READ # E!WRITE
  BY DEF E!READ, E!WRITE
<1> QED
  BY <1>1 DEF E!TakeBit
LEMMA Asked ==
  ASSUME NEW c, ChipType(c), width \in {SMALL, LARGE}, NEW bits \in E!AddressBits,
         c.state \in {"Idle", "WriteDone"}
  PROVE  LET d == E!DmaTo(c, E!READ \o bits \o <<0>>)
             a == E!Number(bits)
         IN  /\ ChipType(d) /\ d.state = "ReadOut"
             /\ d.out = Shown(IF a \in E!Blocks THEN c.data[a] ELSE E!Ones)
             /\ Len(d.out) = DUMMIES + BITS
             /\ \A b \in E!Blocks : d.data[b] = c.data[b]
<1> DEFINE t == E!READ \o bits \o <<0>>
           a == E!Number(bits)
           d == E!DmaTo(c, t)
<1>1. /\ t \in Seq(Digit) /\ Len(t) = 3 + width /\ t[1] = E!READ[1] /\ t[2] = E!READ[2]
      /\ \A j \in 1..width : t[2 + j] = bits[j]
  BY ReadText
<1> HIDE DEF t
<1>2. width \in Nat
  BY Widths2
<1>3. t \in Seq({0, 1})
  BY <1>1 DEF Digit
<1>4. PICK after :
        /\ after[0] = E!set_addr_width_from_dma(c, Len(t))
        /\ \A k \in 1..Len(t) : after[k] = E!TakeBit(after[k - 1], t[k])
        /\ E!DmaTo(c, t) = after[Len(t)]
  BY <1>3, TransferTo
<1> DEFINE s == after[0]
<1>5. /\ ChipType(s) /\ s.size = OwnSize /\ s.state = c.state /\ s.out = c.out
      /\ \A b \in E!Blocks : s.data[b] = c.data[b]
  BY <1>1, <1>4, Sizing
<1> HIDE DEF s
<1>6. s \in ChipRecords
  BY <1>5 DEF ChipType
<1> DEFINE x == after[2 + width]
<1>7. /\ x \in ChipRecords /\ SameArray(x, s) /\ x.cmd = E!READ
      /\ x.state = "Data" /\ x.bit_buf = <<>> /\ x.address = a
  <2>1. Taken(after, t)
    BY <1>4 DEF Taken
  <2>2. Len(t) \in Nat /\ 2 + width <= Len(t)
    BY <1>1, <1>2
  <2> HIDE DEF x, a
  <2> QED
    BY <1>1, <1>5, <1>6, <2>1, <2>2, Addressed DEF s, x, a
<1> HIDE DEF x, a
<1>8. d = E!TakeBit(x, t[3 + width])
  <2>1. 3 + width \in 1..Len(t) /\ (3 + width) - 1 = 2 + width
    BY <1>1, <1>2
  <2> QED
    BY <1>1, <1>4, <2>1 DEF x
<1> DEFINE block == IF a \in DOMAIN x.data THEN x.data[a] ELSE E!Ones
<1>9. d = E!begin_read(x)
  BY <1>7, <1>8, TakeDummy
<1>10. d = [x EXCEPT !.out = Shown(block), !.state = "ReadOut"]
  BY <1>7, <1>9 DEF E!begin_read, Shown
<1>11. block \in Content
  <2>1. E!Ones \in Content
    BY DEF E!Ones, Content, Digit
  <2>2. x.data \in Array(IF s.size = "Small" THEN SMALL_BLOCKS ELSE LARGE_BLOCKS)
    BY <1>5, <1>7 DEF ChipType, SameArray
  <2> QED
    BY <2>1, <2>2 DEF Array
<1>12. a \in E!Address
  BY DEF a, E!Address
<1>13. block = IF a \in E!Blocks THEN c.data[a] ELSE E!Ones
  BY <1>5, <1>7, <1>12, BlocksThere DEF SameArray
<1> HIDE DEF block, d
<1>14. Shown(block) \in Seq(Digit) /\ Len(Shown(block)) = DUMMIES + BITS
  BY <1>11, ShownType
<1>15. /\ d \in ChipRecords /\ d.data = x.data /\ d.size = x.size /\ d.state = "ReadOut" /\ d.out = Shown(block)
  BY <1>7, <1>10, <1>14 DEF ChipRecords
<1>16. ChipType(d)
  BY <1>5, <1>7, <1>15 DEF ChipType, SameArray
<1> QED
  BY <1>5, <1>7, <1>13, <1>14, <1>15, <1>16 DEF d, t, a, SameArray

(* A command to a chip that is still reading out is lost.                  *)
LEMMA Lost ==
  ASSUME NEW c, ChipType(c), width \in {SMALL, LARGE}, c.state = "ReadOut",
         NEW t \in Seq(Digit), Len(t) \in {3 + width, 3 + width + BITS}
  PROVE  LET d == E!DmaTo(c, t)
         IN  /\ ChipType(d) /\ d.state = "ReadOut" /\ d.out = c.out
             /\ \A b \in E!Blocks : d.data[b] = c.data[b]
<1>1. t \in Seq({0, 1})
  BY DEF Digit
<1>2. PICK after :
        /\ after[0] = E!set_addr_width_from_dma(c, Len(t))
        /\ \A k \in 1..Len(t) : after[k] = E!TakeBit(after[k - 1], t[k])
        /\ E!DmaTo(c, t) = after[Len(t)]
  BY <1>1, TransferTo
<1> DEFINE s == after[0]
           n == Len(t)
           U == {k \in 0..n : after[k] = s}
<1>3. /\ ChipType(s) /\ s.size = OwnSize /\ s.state = c.state /\ s.out = c.out
      /\ \A b \in E!Blocks : s.data[b] = c.data[b]
  BY <1>2, Sizing
<1>4. n \in Nat
  BY LenProperties
<1> HIDE DEF s
<1>5. 0 \in U
  BY <1>4 DEF s
<1>6. ASSUME NEW k \in 0..(n - 1), k \in U PROVE k + 1 \in U
  <2>1. k + 1 \in 1..n /\ k + 1 \in 0..n /\ (k + 1) - 1 = k
    BY <1>4
  <2>2. after[k + 1] = E!TakeBit(s, t[k + 1])
    BY <1>2, <1>6, <2>1
  <2>3. after[k + 1] = s
    BY <1>3, <2>2 DEF E!TakeBit
  <2> QED
    BY <2>1, <2>3
<1>7. n \in U
  <2> HIDE DEF U, n
  <2> QED
    BY <1>4, <1>5, <1>6, InductionTo
<1> QED
  BY <1>2, <1>3, <1>7

(* A block written.                                                        *)
Stored(old, a, w) == IF a \in DOMAIN old THEN [old EXCEPT ![a] = w] ELSE old
LEMMA StoredType ==
  ASSUME NEW n, NEW old \in Array(n), NEW a, NEW w \in Content
  PROVE  /\ Stored(old, a, w) \in Array(n)
         /\ \A b \in DOMAIN old : Stored(old, a, w)[b] = IF b = a THEN w ELSE old[b]
BY DEF Stored, Array

LEMMA TakeData ==
  ASSUME NEW c \in ChipRecords, c.state = "Data", c.cmd = E!WRITE, NEW w \in Content,
         NEW j \in 0..(BITS - 1), Spelt(c.bit_buf, w, j)
  PROVE  LET d == E!TakeBit(c, w[j + 1])
         IN  /\ d \in ChipRecords /\ d.state = "Data" /\ d.cmd = c.cmd /\ d.address = c.address
             /\ Spelt(d.bit_buf, w, j + 1)
             /\ d.size = c.size /\ d.out = c.out
             /\ d.data = IF j + 1 = BITS THEN Stored(c.data, c.address, w) ELSE c.data
<1> DEFINE b == w[j + 1]
           s == Append(c.bit_buf, b)
           d == E!TakeBit(c, b)
<1>1. BITS \in Nat \ {0} /\ j \in Nat /\ j + 1 \in 1..BITS
  BY EepromAssumption
<1>2. b \in Digit /\ w \in [1..BITS -> Digit]
  BY <1>1 DEF Content
<1>3. Spelt(s, w, j + 1)
  BY <1>1, <1>2, SpeltMore
<1> HIDE DEF b
<1>4. s \in Seq(Digit) /\ Len(s) = j + 1
  BY <1>3 DEF Spelt
<1>5. d = E!TakeDataBit(c, s)
  <2>1. E!READ # E!WRITE
    BY DEF E!READ, E!WRITE
  <2> QED
    BY <2>1 DEF E!TakeBit
<1> HIDE DEF s
<1>6. CASE j + 1 < BITS
  <2>1. d = [c EXCEPT !.bit_buf = s]
    BY <1>4, <1>5, <1>6 DEF E!TakeDataBit
  <2> HIDE DEF d
  <2>2. /\ d \in ChipRecords /\ d.state = "Data" /\ d.cmd = c.cmd /\ d.address = c.address
        /\ d.bit_buf = s /\ d.size = c.size /\ d.out = c.out /\ d.data = c.data
    BY <1>4, <2>1 DEF ChipRecords
  <2> QED
    BY <1>1, <1>3, <1>6, <2>2 DEF d, b
<1>7. CASE ~(j + 1 < BITS)
  <2>1. j + 1 = BITS
    BY <1>1, <1>7
  <2>2. s = w
    <3>1. Spelt(s, w, BITS)
      BY <1>3, <2>1
    <3> QED
      BY <1>1, <1>2, <3>1, SpeltAll
  <2>3. d = [E!store_data(c, w) EXCEPT !.bit_buf = s]
    BY <1>4, <1>5, <2>1, <2>2, <1>1 DEF E!TakeDataBit
  <2> DEFINE array == Stored(c.data, c.address, w)
             e == E!store_data(c, w)
  <2>4. array \in Array(SMALL_BLOCKS) \cup Array(LARGE_BLOCKS)
    <3>1. c.data \in Array(SMALL_BLOCKS) \cup Array(LARGE_BLOCKS)
      BY DEF ChipRecords
    <3> QED
      BY <3>1, StoredType
  <2>5. e \in ChipRecords /\ e.data = array /\ e.state = "Data" /\ e.cmd = c.cmd /\ e.address = c.address
        /\ e.size = c.size /\ e.out = c.out
    <3>1. CASE c.address \in DOMAIN c.data
      <4>1. e = [c EXCEPT !.data[c.address] = w] /\ array = [c.data EXCEPT ![c.address] = w]
        BY <3>1 DEF E!store_data, Stored
      <4>2. e = [c EXCEPT !.data = array]
        BY <4>1
      <4> HIDE DEF e, array
      <4> QED
        BY <2>4, <4>2 DEF ChipRecords
    <3>2. CASE c.address \notin DOMAIN c.data
      BY <3>2 DEF E!store_data, Stored
    <3> QED
      BY <3>1, <3>2
  <2> HIDE DEF d, e, array
  <2>6. d = [e EXCEPT !.bit_buf = s]
    BY <2>3 DEF e
  <2>7. /\ d \in ChipRecords /\ d.state = "Data" /\ d.cmd = c.cmd /\ d.address = c.address
        /\ d.bit_buf = s /\ d.size = c.size /\ d.out = c.out /\ d.data = array
    BY <1>4, <2>5, <2>6 DEF ChipRecords
  <2> QED
    BY <1>3, <2>1, <2>7 DEF d, b, array
<1> QED
  BY <1>6, <1>7

LEMMA TakeTrailer ==
  ASSUME NEW c \in ChipRecords, c.state = "Data", c.cmd = E!WRITE, Len(c.bit_buf) = BITS, NEW b \in Digit
  PROVE  LET d == E!TakeBit(c, b)
         IN  d \in ChipRecords /\ d.state = "WriteDone" /\ SameArray(d, c)
<1> DEFINE s == Append(c.bit_buf, b)
           d == E!TakeBit(c, b)
<1>1. c.bit_buf \in Seq(Digit)
  BY DEF ChipRecords
<1>2. Len(s) = Len(c.bit_buf) + 1
  BY ONLY <1>1, b \in Digit, AppendProperties
<1>3. BITS \in Nat \ {0}
  BY EepromAssumption
<1>4. Len(s) = BITS + 1 /\ ~(BITS + 1 < BITS) /\ BITS + 1 # BITS
  BY <1>2, <1>3
<1> HIDE DEF s
<1>5. d = E!TakeDataBit(c, s)
  <2>1. E!READ # E!WRITE
    BY DEF E!READ, E!WRITE
  <2> QED
    BY <2>1 DEF E!TakeBit, s
<1>6. d = [c EXCEPT !.bit_buf = <<>>, !.state = "WriteDone"]
  BY <1>4, <1>5 DEF E!TakeDataBit
<1>7. <<>> \in Seq(Digit)
  OBVIOUS
<1> HIDE DEF d
<1> QED
  BY <1>6, <1>7, ZenonT(60) DEF ChipRecords, SameArray, d

LEMMA Written ==
  ASSUME NEW c, ChipType(c), width \in {SMALL, LARGE}, NEW bits \in E!AddressBits, NEW w \in Content,
         c.state \in {"Idle", "WriteDone"}
  PROVE  LET d == E!DmaTo(c, E!WRITE \o bits \o w \o <<0>>)
         IN  /\ ChipType(d) /\ d.state = "WriteDone"
             /\ \A b \in E!Blocks : d.data[b] = IF b = E!Number(bits) THEN w ELSE c.data[b]
<1> DEFINE t == E!WRITE \o bits \o w \o <<0>>
           a == E!Number(bits)
           d == E!DmaTo(c, t)
<1>1. /\ t \in Seq(Digit) /\ Len(t) = 3 + width + BITS /\ t[1] = E!WRITE[1] /\ t[2] = E!WRITE[2]
      /\ \A j \in 1..width : t[2 + j] = bits[j]
      /\ \A j \in 1..BITS : t[2 + width + j] = w[j]
  BY WriteText
<1> HIDE DEF t
<1>2. width \in Nat /\ BITS \in Nat \ {0}
  BY Widths2
<1>3. t \in Seq({0, 1})
  BY <1>1 DEF Digit
<1>4. PICK after :
        /\ after[0] = E!set_addr_width_from_dma(c, Len(t))
        /\ \A k \in 1..Len(t) : after[k] = E!TakeBit(after[k - 1], t[k])
        /\ E!DmaTo(c, t) = after[Len(t)]
  BY <1>3, TransferTo
<1> DEFINE s == after[0]
<1>5. /\ ChipType(s) /\ s.size = OwnSize
      /\ s.state = c.state /\ \A b \in E!Blocks : s.data[b] = c.data[b]
  BY <1>1, <1>4, Sizing
<1> HIDE DEF s
<1>6. s \in ChipRecords
  BY <1>5 DEF ChipType
<1> DEFINE v == 2 + width
           x == after[v]
<1>7. /\ x \in ChipRecords /\ SameArray(x, s) /\ x.cmd = E!WRITE
      /\ x.state = "Data" /\ x.bit_buf = <<>> /\ x.address = a
  <2>1. Taken(after, t)
    BY <1>4 DEF Taken
  <2>2. Len(t) \in Nat /\ 2 + width <= Len(t)
    BY <1>1, <1>2
  <2> HIDE DEF x, a
  <2> QED
    BY <1>1, <1>5, <1>6, <2>1, <2>2, Addressed DEF s, x, a
<1> HIDE DEF x, a
<1> DEFINE new == Stored(x.data, a, w)
           Part(j) ==
             LET y == after[v + j]
             IN  /\ y \in ChipRecords /\ y.state = "Data" /\ y.cmd = E!WRITE /\ y.address = a
                 /\ Spelt(y.bit_buf, w, j) /\ y.size = x.size /\ y.out = x.out
                 /\ y.data = IF j = BITS THEN new ELSE x.data
           U == {j \in 0..BITS : Part(j)}
<1>8. v \in Nat /\ \A k \in 1..(v + BITS + 1) : after[k] = E!TakeBit(after[k - 1], t[k])
  <2>1. Len(t) = v + BITS + 1
    BY <1>1, <1>2
  <2> QED
    BY <1>2, <1>4, <2>1
<1>9. \A j \in 1..BITS : t[v + j] = w[j]
  BY <1>1
<1>10. d = after[v + BITS + 1]
  BY <1>1, <1>2, <1>4
<1> HIDE DEF v, new
<1>11. 0 \in U
  <2>1. Spelt(<<>>, w, 0)
    BY DEF Spelt
  <2>2. v + 0 = v /\ 0 # BITS /\ 0 \in 0..BITS
    BY <1>2, <1>8
  <2> QED
    BY <1>7, <2>1, <2>2 DEF x, SameArray
<1>12. ASSUME NEW j \in 0..(BITS - 1), j \in U PROVE j + 1 \in U
  <2> DEFINE y == after[v + j]
             z == after[v + (j + 1)]
  <2>1. j + 1 \in 1..BITS /\ j + 1 \in 0..BITS /\ v + (j + 1) \in 1..(v + BITS + 1) /\ (v + (j + 1)) - 1 = v + j
        /\ j # BITS
    BY <1>2, <1>8
  <2>2. z = E!TakeBit(y, w[j + 1])
    <3>1. z = E!TakeBit(after[(v + (j + 1)) - 1], t[v + (j + 1)])
      BY <1>8, <2>1
    <3> QED
      BY <1>9, <2>1, <3>1
  <2>3. /\ y \in ChipRecords /\ y.state = "Data" /\ y.cmd = E!WRITE /\ y.address = a
        /\ Spelt(y.bit_buf, w, j) /\ y.size = x.size /\ y.out = x.out
        /\ y.data = IF j = BITS THEN new ELSE x.data
    BY <1>12
  <2> HIDE DEF y, z
  <2>4. /\ z \in ChipRecords /\ z.state = "Data" /\ z.cmd = y.cmd /\ z.address = y.address
        /\ Spelt(z.bit_buf, w, j + 1)
        /\ z.size = y.size /\ z.out = y.out
        /\ z.data = IF j + 1 = BITS THEN Stored(y.data, y.address, w) ELSE y.data
    BY <2>2, <2>3, TakeData
  <2>5. z.data = IF j + 1 = BITS THEN new ELSE x.data
    BY <2>1, <2>3, <2>4 DEF new
  <2> QED
    BY <2>1, <2>3, <2>4, <2>5 DEF z
<1>13. BITS \in U
  <2> HIDE DEF U
  <2> QED
    BY <1>2, <1>11, <1>12, InductionTo
<1> DEFINE y == after[v + BITS]
<1>14. /\ y \in ChipRecords /\ y.state = "Data" /\ y.cmd = E!WRITE
       /\ Spelt(y.bit_buf, w, BITS) /\ y.size = x.size /\ y.data = new
  BY <1>13
<1>15. d = E!TakeBit(y, t[v + BITS + 1]) /\ t[v + BITS + 1] \in Digit
  <2>1. v + BITS + 1 \in 1..(v + BITS + 1) /\ (v + BITS + 1) - 1 = v + BITS /\ Len(t) = v + BITS + 1
    BY <1>1, <1>2, <1>8 DEF v
  <2>2. t[v + BITS + 1] \in Digit
    BY <1>1, <2>1, ElementOfSeq
  <2> QED
    BY <1>8, <1>10, <2>1, <2>2
<1> HIDE DEF d, y, U, Part
<1>16. d \in ChipRecords /\ d.state = "WriteDone" /\ d.data = new /\ d.size = s.size
  <2>1. Len(y.bit_buf) = BITS
    BY <1>14 DEF Spelt
  <2>2. d \in ChipRecords /\ d.state = "WriteDone" /\ SameArray(d, y)
    BY <1>14, <1>15, <2>1, TakeTrailer
  <2> QED
    BY <1>7, <1>14, <2>2 DEF SameArray
<1> DEFINE n == IF s.size = "Small" THEN SMALL_BLOCKS ELSE LARGE_BLOCKS
<1>17. x.data \in Array(n) /\ x.data = s.data
  BY <1>5, <1>7 DEF ChipType, SameArray
<1>18. new \in Array(n) /\ \A b \in DOMAIN x.data : new[b] = IF b = a THEN w ELSE x.data[b]
  <2> HIDE DEF n
  <2> QED
    BY <1>17, StoredType DEF new
<1>19. ChipType(d)
  BY <1>5, <1>16, <1>18 DEF ChipType
<1>20. \A b \in E!Blocks : b \in DOMAIN x.data
  BY <1>5, <1>17, BlocksThere
<1> HIDE DEF new, n
<1>21. \A b \in E!Blocks : d.data[b] = IF b = a THEN w ELSE c.data[b]
  BY <1>5, <1>16, <1>17, <1>18, <1>20
<1> QED
  BY <1>16, <1>19, <1>21 DEF d, t, a

(* A bit read. *)
LEMMA BitRead ==
  ASSUME NEW c \in ChipRecords, c.state = "ReadOut", NEW m \in Nat \ {0}, Len(c.out) = m
  PROVE  LET d == E!AfterRead(c)
         IN  /\ E!ReadBit(c) = c.out[1] /\ c.out[1] \in Digit
             /\ d \in ChipRecords /\ d.data = c.data /\ d.size = c.size
             /\ d.state = IF m = 1 THEN "Idle" ELSE "ReadOut"
             /\ Len(d.out) = m - 1 /\ \A i \in 1..(m - 1) : d.out[i] = c.out[1 + i]
<1> DEFINE s == c.out
           u == Tail(s)
           d == E!AfterRead(c)
           z == IF m = 1 THEN "Idle" ELSE "ReadOut"
<1>1. s \in Seq(Digit) /\ Len(s) = m /\ m >= 1
  BY DEF ChipRecords
<1>2. d = [c EXCEPT !.out = u, !.state = z]
  <2>1. d = [c EXCEPT !.out = Tail(@), !.state = IF Len(c.out) = 1 THEN "Idle" ELSE @]
    BY DEF E!AfterRead
  <2> QED
    BY <2>1
<1>3. E!ReadBit(c) = Head(s)
  BY DEF E!ReadBit
<1> HIDE DEF s
<1>4. Head(s) = s[1] /\ s[1] \in Digit
  BY <1>1
<1>5. u \in Seq(Digit) /\ Len(u) = m - 1 /\ \A i \in 1..(m - 1) : u[i] = s[1 + i]
  BY <1>1
<1> HIDE DEF u, d
<1>6. z \in {"Idle", "ReadOut"}
  OBVIOUS
<1> HIDE DEF z
<1>7. d \in ChipRecords /\ d.data = c.data /\ d.size = c.size /\ d.state = z /\ d.out = u
  BY <1>2, <1>5, <1>6 DEF ChipRecords
<1> QED
  BY <1>3, <1>4, <1>5, <1>7 DEF d, s, z

(* A whole read takes what is left of a block, and leaves the chip ready.  *)
LEMMA ReadThrough ==
  ASSUME NEW c, ChipType(c), c.state = "ReadOut", Len(c.out) \in 1..(DUMMIES + BITS)
  PROVE  LET r == E!DmaFrom(c, DUMMIES + BITS)
         IN  /\ ChipType(r.c) /\ r.c.state = "Idle" /\ r.c.data = c.data
             /\ Len(c.out) = DUMMIES + BITS => r.bits = c.out
<1> DEFINE n == DUMMIES + BITS
           t == c.out
           m == Len(t)
           r == E!DmaFrom(c, n)
<1>1. n \in Nat /\ m \in 1..n /\ m \in Nat
  BY EepromAssumption
<1>2. PICK after :
        /\ after[0] = [bits |-> <<>>, c |-> c]
        /\ \A k \in 1..n : after[k] = Read1(after[k - 1])
        /\ r = after[n]
  BY <1>1, TransferFrom
<1>3. c \in ChipRecords /\ t \in Seq(Digit)
  BY DEF ChipType, ChipRecords
<1> HIDE DEF n, t, r
<1> DEFINE Part(k) ==
             LET d == after[k].c
             IN  /\ d \in ChipRecords /\ d.data = c.data /\ d.size = c.size
                 /\ k <= m => Spelt(after[k].bits, t, k)
                 /\ k >= m => d.state = "Idle"
                 /\ k < m => /\ d.state = "ReadOut" /\ Len(d.out) = m - k
                             /\ \A i \in 1..(m - k) : d.out[i] = t[k + i]
           U == {k \in 0..n : Part(k)}
<1>4. 0 \in U
  <2>1. after[0].c = c /\ after[0].bits = <<>>
    BY <1>2
  <2>2. Spelt(<<>>, t, 0)
    BY DEF Spelt
  <2>3. Len(c.out) = m /\ m - 0 = m /\ 0 < m /\ ~(0 >= m) /\ 0 \in 0..n
    BY <1>1 DEF t
  <2>4. \A i \in 1..(m - 0) : c.out[i] = t[0 + i]
    BY <1>1 DEF t
  <2> HIDE DEF m
  <2> QED
    BY <1>3, <2>1, <2>2, <2>3, <2>4
<1>5. ASSUME NEW k \in 0..(n - 1), k \in U PROVE k + 1 \in U
  <2> DEFINE d == after[k].c
             e == after[k + 1].c
  <2>1. k + 1 \in 1..n /\ k + 1 \in 0..n /\ (k + 1) - 1 = k /\ k \in Nat
    BY <1>1
  <2>2. after[k + 1] = Read1(after[k])
    BY <1>2, <2>1
  <2>3. e = E!AfterRead(d) /\ after[k + 1].bits = Append(after[k].bits, E!ReadBit(d))
    BY <2>2 DEF Read1
  <2>4. Part(k)
    BY <1>5
  <2>5. CASE k < m
    <3>1. d \in ChipRecords /\ d.state = "ReadOut" /\ m - k \in Nat \ {0} /\ Len(d.out) = m - k
      BY <1>1, <2>1, <2>4, <2>5
    <3>2. \A i \in 1..(m - k) : d.out[i] = t[k + i]
      BY <2>4, <2>5
    <3>3. d.data = c.data /\ d.size = c.size /\ Spelt(after[k].bits, t, k)
      BY <1>1, <2>1, <2>4, <2>5
    <3> HIDE DEF d, e, m
    <3>4. /\ E!ReadBit(d) = d.out[1] /\ d.out[1] \in Digit
          /\ e \in ChipRecords /\ e.data = d.data /\ e.size = d.size
          /\ e.state = IF m - k = 1 THEN "Idle" ELSE "ReadOut"
          /\ Len(e.out) = (m - k) - 1 /\ \A i \in 1..((m - k) - 1) : e.out[i] = d.out[1 + i]
      BY <2>3, <3>1, BitRead
    <3>5. E!ReadBit(d) = t[k + 1] /\ t[k + 1] \in Digit
      BY <1>1, <2>1, <2>5, <3>2, <3>4
    <3>6. Spelt(after[k + 1].bits, t, k + 1)
      BY <2>1, <2>3, <3>3, <3>5, SpeltMore
    <3>7. (m - k) - 1 = m - (k + 1) /\ (m - k = 1 <=> k + 1 >= m) /\ (k + 1 < m <=> ~(k + 1 >= m))
      BY <1>1, <2>1, <2>5
    <3>8. \A i \in 1..(m - (k + 1)) : e.out[i] = t[(k + 1) + i]
      <4> TAKE i \in 1..(m - (k + 1))
      <4>1. 1 + i \in 1..(m - k) /\ k + (1 + i) = (k + 1) + i /\ i \in 1..((m - k) - 1)
        BY <1>1, <2>1
      <4> QED
        BY <3>2, <3>4, <4>1
    <3>9. Part(k + 1)
      BY <3>3, <3>4, <3>6, <3>7, <3>8 DEF e
    <3> QED
      BY <2>1, <3>9
  <2>6. CASE ~(k < m)
    <3>1. d.state = "Idle" /\ k >= m
      BY <1>1, <2>1, <2>4, <2>6
    <3>2. e = d
      BY <2>3, <3>1 DEF E!AfterRead
    <3>3. ~(k + 1 <= m) /\ k + 1 >= m /\ ~(k + 1 < m)
      BY <1>1, <2>1, <2>6
    <3>4. Part(k + 1)
      BY <2>4, <3>1, <3>2, <3>3
    <3> QED
      BY <2>1, <3>4
  <2> QED
    BY <2>5, <2>6
<1>6. n \in U
  <2> HIDE DEF U
  <2> QED
    BY <1>1, <1>4, <1>5, InductionTo
<1>7. Part(n) /\ n >= m
  BY <1>1, <1>6
<1>8. r.c \in ChipRecords /\ r.c.data = c.data /\ r.c.size = c.size /\ r.c.state = "Idle"
  BY <1>2, <1>7
<1>9. ChipType(r.c)
  BY <1>8 DEF ChipType
<1>10. m = n => r.bits = t
  <2> SUFFICES ASSUME m = n PROVE r.bits = t
    OBVIOUS
  <2>1. Spelt(r.bits, t, n)
    BY <1>1, <1>2, <1>7
  <2>2. t \in [1..n -> Digit]
    BY <1>3
  <2> HIDE DEF m
  <2> QED
    BY <1>1, <2>1, <2>2, SpeltAll
<1> QED
  BY <1>8, <1>9, <1>10 DEF n, t, r

(* A read of a chip that has nothing to say changes nothing.               *)
LEMMA ReadNothing ==
  ASSUME NEW c, c.state # "ReadOut", NEW l \in Nat
  PROVE  E!DmaFrom(c, l).c = c
<1>1. PICK after :
        /\ after[0] = [bits |-> <<>>, c |-> c]
        /\ \A k \in 1..l : after[k] = Read1(after[k - 1])
        /\ E!DmaFrom(c, l) = after[l]
  BY TransferFrom
<1> DEFINE U == {k \in 0..l : after[k].c = c}
<1>2. 0 \in U
  BY <1>1
<1>3. ASSUME NEW k \in 0..(l - 1), k \in U PROVE k + 1 \in U
  <2>1. k + 1 \in 1..l /\ k + 1 \in 0..l /\ (k + 1) - 1 = k
    OBVIOUS
  <2>2. after[k + 1] = Read1(after[k])
    BY <1>1, <2>1
  <2>3. after[k + 1].c = c
    BY <1>3, <2>2 DEF Read1, E!AfterRead
  <2> QED
    BY <2>1, <2>3
<1>4. l \in U
  <2> HIDE DEF U
  <2> QED
    BY <1>2, <1>3, InductionTo
<1> QED
  BY <1>1, <1>4

(* What the chip may hold where the library asks. *)
Answers(a, sv) == IF a \in E!Blocks THEN sv[a] ELSE {E!Ones}

(* A chip that is not reading out is ready for a command; it is when the   *)
(* library is in step with it, but for the block that was asked for.       *)
Ready(c) == c.state \in {"Idle", "WriteDone"}
Steady(c) == Ready(c) \/ (c.state = "ReadOut" /\ Len(c.out) \in 1..(DUMMIES + BITS))
Holds(c, sv) == \A a \in E!Blocks : c.data[a] \in sv[a]
InTurn(c, lib, step, sv) ==
  /\ lib.doing \in {"nothing", "wrote", "asked", "got"} /\ step \in BOOLEAN
  /\ (step /\ lib.doing # "asked") => Ready(c)
  /\ lib.doing = "asked" =>
       /\ lib.fresh = step
       /\ step => /\ c.state = "ReadOut" /\ Len(c.out) = DUMMIES + BITS
                  /\ \E block \in Answers(lib.address, sv) : c.out = Shown(block)
  /\ lib.doing = "got" =>
       /\ Ready(c)
       /\ lib.fresh => \E block \in Answers(lib.address, sv) : lib.bits = Shown(block)
EepromState(c, lib, step, sv) ==
  ChipType(c) /\ Steady(c) /\ Holds(c, sv) /\ InTurn(c, lib, step, sv)
EepromInv ==
  width \in {SMALL, LARGE} /\ EepromState(eeprom, eepromLibrary, inStep, saved)

LEMMA NewEeprom ==
  ASSUME NEW old, NEW n \in Nat, old \in Array(n)
  PROVE  LET c == E!import_save(E!NewChip, old)
         IN  /\ ChipType(c) /\ ChipType(E!NewChip) /\ c.state = "Idle" /\ E!NewChip.state = "Idle"
             /\ \A b \in 0..(LARGE_BLOCKS - 1) :
                  E!NewChip.data[b] = E!Ones /\ (b \in DOMAIN old => c.data[b] = old[b])
<1> DEFINE fresh == E!Fresh(LARGE_BLOCKS)
           full == [b \in DOMAIN fresh |-> IF b \in DOMAIN old THEN old[b] ELSE fresh[b]]
           c == E!import_save(E!NewChip, old)
<1>1. E!Ones \in Content
  BY DEF E!Ones, Content, Digit
<1>2. DOMAIN fresh = 0..(LARGE_BLOCKS - 1) /\ \A b \in 0..(LARGE_BLOCKS - 1) : fresh[b] = E!Ones
  BY DEF E!Fresh
<1>3. fresh \in Array(LARGE_BLOCKS)
  BY <1>1 DEF E!Fresh, Array
<1>4. full \in Array(LARGE_BLOCKS) /\ \A b \in 0..(LARGE_BLOCKS - 1) : b \in DOMAIN old => full[b] = old[b]
  <2>1. \A b \in DOMAIN old : old[b] \in Content
    BY DEF Array
  <2> HIDE DEF fresh
  <2> QED
    BY <1>1, <1>2, <2>1 DEF Array
<1>5. /\ <<>> \in Seq(Digit) /\ <<0, 0>> \in Seq(Digit) /\ 0 \in E!Address \cup {0} /\ 0 \in Nat
  BY DEF Digit
<1>6. E!NewChip = [data |-> fresh, state |-> "Idle", size |-> "Unknown", addr_width |-> 0,
                   cmd |-> <<0, 0>>, bit_buf |-> <<>>, address |-> 0, out |-> <<>>]
  BY DEF E!NewChip
<1>7. c = [E!NewChip EXCEPT !.data = full]
  BY <1>6 DEF E!import_save
<1> HIDE DEF fresh, full, c
<1> DEFINE old0 == E!NewChip
<1>8. /\ old0 \in ChipRecords /\ old0.data = fresh /\ old0.size = "Unknown" /\ old0.state = "Idle"
  BY <1>3, <1>5, <1>6 DEF ChipRecords
<1> HIDE DEF old0
<1>9. c = [old0 EXCEPT !.data = full]
  BY <1>7 DEF old0
<1>10. c \in ChipRecords /\ c.data = full /\ c.size = "Unknown" /\ c.state = "Idle"
  BY <1>4, <1>8, <1>9 DEF ChipRecords
<1>11. ChipType(c) /\ ChipType(old0)
  BY <1>3, <1>4, <1>8, <1>10 DEF ChipType
<1> QED
  BY <1>2, <1>4, <1>8, <1>10, <1>11 DEF c, old0

LEMMA EepromStarts == BusInit => EepromInv
<1> SUFFICES ASSUME BusInit PROVE EepromInv
  OBVIOUS
<1>1. E!Init
  BY DEF BusInit, CartInit
<1>2. /\ eeprom = E!NewChip /\ width \in {SMALL, LARGE} /\ eepromLibrary = [doing |-> "nothing"]
      /\ inStep = TRUE /\ saved = [a \in E!Blocks |-> {E!Ones}]
  BY <1>1 DEF E!Init
<1>3. E!Fresh(0) \in Array(0)
  BY DEF E!Fresh, Array, E!Ones, Content, Digit
<1>4. /\ ChipType(eeprom) /\ eeprom.state = "Idle"
      /\ \A b \in 0..(LARGE_BLOCKS - 1) : eeprom.data[b] = E!Ones
  BY <1>2, <1>3, NewEeprom
<1>5. \A a \in E!Blocks : a \in 0..(LARGE_BLOCKS - 1)
  BY <1>2, EepromAssumption DEF E!Blocks
<1>6. Holds(eeprom, saved)
  BY <1>2, <1>4, <1>5 DEF Holds
<1> QED
  BY <1>2, <1>4, <1>6 DEF EepromInv, EepromState, Steady, Ready, InTurn

(* Every step of the library, in step with the chip or not. *)
LEMMA WriteStep ==
  ASSUME EepromInv, NEW bits \in E!AddressBits, NEW w \in Contents, E!WriteBlock(bits, w)
  PROVE  EepromState(eeprom', eepromLibrary', inStep', saved') /\ width' = width
<1> DEFINE t == E!WRITE \o bits \o w \o <<0>>
           n == E!Number(bits)
<1>1. /\ eepromLibrary.doing # "asked" /\ eeprom' = E!DmaTo(eeprom, t)
      /\ saved' = [b \in E!Blocks |->
           IF n # b THEN saved[b] ELSE IF inStep THEN {w} ELSE saved[b] \cup {w}]
      /\ eepromLibrary' = [doing |-> "wrote"] /\ width' = width /\ inStep' = inStep
  BY DEF E!WriteBlock, E!Free
<1>2. /\ width \in {SMALL, LARGE} /\ ChipType(eeprom) /\ Steady(eeprom) /\ Holds(eeprom, saved)
      /\ inStep \in BOOLEAN /\ (inStep => Ready(eeprom))
  BY <1>1 DEF EepromInv, EepromState, InTurn
<1>3. w \in Content
  BY EepromAssumption DEF Content, Digit
<1>4. CASE Ready(eeprom)
  <2>1. /\ ChipType(eeprom') /\ eeprom'.state = "WriteDone"
        /\ \A b \in E!Blocks : eeprom'.data[b] = IF b = n THEN w ELSE eeprom.data[b]
    BY <1>1, <1>2, <1>3, <1>4, Written DEF Ready
  <2> HIDE DEF n, t
  <2>2. Holds(eeprom', saved')
    BY <1>1, <1>2, <2>1 DEF Holds
  <2> QED
    BY <1>1, <1>2, <2>1, <2>2 DEF EepromState, Steady, Ready, InTurn
<1>5. CASE ~Ready(eeprom)
  <2>1. eeprom.state = "ReadOut" /\ Len(eeprom.out) \in 1..(DUMMIES + BITS) /\ ~inStep
    BY <1>2, <1>5 DEF Steady
  <2>2. t \in Seq(Digit) /\ Len(t) = 3 + width + BITS
    BY <1>2, <1>3, WriteText
  <2> HIDE DEF n, t
  <2>3. /\ ChipType(eeprom') /\ eeprom'.state = "ReadOut" /\ eeprom'.out = eeprom.out
        /\ \A b \in E!Blocks : eeprom'.data[b] = eeprom.data[b]
    BY <1>1, <1>2, <2>1, <2>2, Lost
  <2>4. Holds(eeprom', saved')
    BY <1>1, <1>2, <2>1, <2>3 DEF Holds
  <2> QED
    BY <1>1, <1>2, <2>1, <2>3, <2>4 DEF EepromState, Steady, Ready, InTurn
<1> QED
  BY <1>1, <1>4, <1>5

LEMMA AskStep ==
  ASSUME EepromInv, NEW bits \in E!AddressBits, E!AskBlock(bits)
  PROVE  EepromState(eeprom', eepromLibrary', inStep', saved') /\ width' = width
<1> DEFINE t == E!READ \o bits \o <<0>>
           n == E!Number(bits)
           held == IF n \in E!Blocks THEN eeprom.data[n] ELSE E!Ones
<1>1. /\ eepromLibrary.doing # "asked" /\ eeprom' = E!DmaTo(eeprom, t)
      /\ eepromLibrary' = [doing |-> "asked", address |-> n, fresh |-> inStep]
      /\ width' = width /\ inStep' = inStep /\ saved' = saved
  BY DEF E!AskBlock, E!Free
<1>2. /\ width \in {SMALL, LARGE} /\ ChipType(eeprom) /\ Steady(eeprom) /\ Holds(eeprom, saved)
      /\ inStep \in BOOLEAN /\ (inStep => Ready(eeprom))
  BY <1>1 DEF EepromInv, EepromState, InTurn
<1>3. DUMMIES + BITS \in 1..(DUMMIES + BITS)
  BY EepromAssumption
<1>4. /\ eepromLibrary'.doing = "asked" /\ eepromLibrary'.address = n
      /\ eepromLibrary'.fresh = inStep
  BY <1>1
<1>5. CASE Ready(eeprom)
  <2>1. /\ ChipType(eeprom') /\ eeprom'.state = "ReadOut" /\ eeprom'.out = Shown(held)
        /\ Len(eeprom'.out) = DUMMIES + BITS
        /\ \A b \in E!Blocks : eeprom'.data[b] = eeprom.data[b]
    BY <1>1, <1>2, <1>5, Asked DEF Ready
  <2>2. held \in Answers(n, saved')
    BY <1>1, <1>2 DEF Answers, Holds
  <2> HIDE DEF n, t, held
  <2>3. Holds(eeprom', saved')
    BY <1>1, <1>2, <2>1 DEF Holds
  <2>4. InTurn(eeprom', eepromLibrary', inStep', saved')
    BY <1>1, <1>2, <1>4, <2>1, <2>2 DEF InTurn
  <2> QED
    BY <1>1, <1>3, <2>1, <2>3, <2>4 DEF EepromState, Steady
<1>6. CASE ~Ready(eeprom)
  <2>1. eeprom.state = "ReadOut" /\ Len(eeprom.out) \in 1..(DUMMIES + BITS) /\ ~inStep
    BY <1>2, <1>6 DEF Steady
  <2>2. t \in Seq(Digit) /\ Len(t) = 3 + width
    BY <1>2, ReadText
  <2> HIDE DEF n, t
  <2>3. /\ ChipType(eeprom') /\ eeprom'.state = "ReadOut" /\ eeprom'.out = eeprom.out
        /\ \A b \in E!Blocks : eeprom'.data[b] = eeprom.data[b]
    BY <1>1, <1>2, <2>1, <2>2, Lost
  <2>4. Holds(eeprom', saved')
    BY <1>1, <1>2, <2>3 DEF Holds
  <2>5. InTurn(eeprom', eepromLibrary', inStep', saved')
    BY <1>1, <1>4, <1>2, <2>1 DEF InTurn
  <2> QED
    BY <1>1, <2>1, <2>3, <2>4, <2>5 DEF EepromState, Steady
<1> QED
  BY <1>1, <1>5, <1>6

LEMMA ReadStep ==
  ASSUME EepromInv, E!ReadBack
  PROVE  EepromState(eeprom', eepromLibrary', inStep', saved') /\ width' = width
<1> DEFINE r == E!DmaFrom(eeprom, DUMMIES + BITS)
           a == eepromLibrary.address
<1>1. /\ eepromLibrary.doing = "asked" /\ eeprom' = r.c
      /\ eepromLibrary' = [doing |-> "got", address |-> a, fresh |-> eepromLibrary.fresh, bits |-> r.bits]
      /\ inStep' = TRUE /\ width' = width /\ saved' = saved
  BY DEF E!ReadBack
<1>2. /\ width \in {SMALL, LARGE} /\ ChipType(eeprom) /\ Steady(eeprom) /\ Holds(eeprom, saved)
      /\ inStep \in BOOLEAN /\ eepromLibrary.fresh = inStep
      /\ inStep => /\ eeprom.state = "ReadOut" /\ Len(eeprom.out) = DUMMIES + BITS
                   /\ \E block \in Answers(a, saved) : eeprom.out = Shown(block)
  BY <1>1 DEF EepromInv, EepromState, InTurn
<1>3. DUMMIES + BITS \in Nat
  BY EepromAssumption
<1>4. /\ ChipType(r.c) /\ Ready(r.c) /\ r.c.data = eeprom.data
      /\ inStep => r.bits = eeprom.out
  <2>1. CASE eeprom.state = "ReadOut"
    <3>1. Len(eeprom.out) \in 1..(DUMMIES + BITS)
      BY <1>2, <2>1 DEF Steady, Ready
    <3> QED
      BY <1>2, <2>1, <3>1, ReadThrough DEF Ready
  <2>2. CASE eeprom.state # "ReadOut"
    <3>1. r.c = eeprom
      BY <1>3, <2>2, ReadNothing
    <3> QED
      BY <1>2, <2>2, <3>1 DEF Steady
  <2> QED
    BY <2>1, <2>2
<1> HIDE DEF r, a
<1>5. /\ eepromLibrary'.doing = "got" /\ eepromLibrary'.address = a
      /\ eepromLibrary'.fresh = inStep /\ eepromLibrary'.bits = r.bits
  BY <1>1, <1>2
<1>6. Holds(eeprom', saved')
  BY <1>1, <1>2, <1>4 DEF Holds
<1>7. InTurn(eeprom', eepromLibrary', inStep', saved')
  BY <1>1, <1>2, <1>4, <1>5 DEF InTurn
<1> QED
  BY <1>1, <1>4, <1>6, <1>7 DEF EepromState, Steady

LEMMA OtherSteps ==
  ASSUME EepromInv, E!Poll \/ E!Restart
  PROVE  EepromState(eeprom', eepromLibrary', inStep', saved') /\ width' = width
<1>1. /\ width \in {SMALL, LARGE} /\ ChipType(eeprom) /\ Steady(eeprom) /\ Holds(eeprom, saved)
      /\ InTurn(eeprom, eepromLibrary, inStep, saved) /\ inStep \in BOOLEAN
  BY DEF EepromInv, EepromState, InTurn
<1>2. CASE E!Poll
  <2>1. /\ eepromLibrary.doing = "wrote" /\ eeprom' = E!AfterRead(eeprom)
        /\ eepromLibrary' \in {eepromLibrary, [doing |-> "nothing"]}
        /\ width' = width /\ inStep' = inStep /\ saved' = saved
    BY <1>2 DEF E!Poll
  <2>2. inStep => Ready(eeprom)
    BY <1>1, <2>1 DEF InTurn
  <2>3. CASE Ready(eeprom)
    <3>1. eeprom' = eeprom
      BY <2>1, <2>3 DEF E!AfterRead, Ready
    <3> QED
      BY <1>1, <2>1, <2>2, <3>1 DEF EepromState, InTurn
  <2>4. CASE ~Ready(eeprom)
    <3> DEFINE m == Len(eeprom.out)
               d == E!AfterRead(eeprom)
    <3>1. eeprom.state = "ReadOut" /\ m \in 1..(DUMMIES + BITS) /\ ~inStep
      BY <1>1, <2>2, <2>4 DEF Steady
    <3>2. eeprom \in ChipRecords /\ m \in Nat \ {0} /\ DUMMIES + BITS \in Nat
      BY <1>1, <3>1, EepromAssumption DEF ChipType
    <3>3. /\ d \in ChipRecords /\ d.data = eeprom.data /\ d.size = eeprom.size
          /\ d.state = (IF m = 1 THEN "Idle" ELSE "ReadOut") /\ Len(d.out) = m - 1
      <4> HIDE DEF d
      <4>1. \A k \in Nat \ {0} : Len(eeprom.out) = k =>
              /\ d \in ChipRecords /\ d.data = eeprom.data /\ d.size = eeprom.size
              /\ d.state = (IF k = 1 THEN "Idle" ELSE "ReadOut") /\ Len(d.out) = k - 1
        BY <3>1, <3>2, BitRead DEF d
      <4> QED
        BY <3>2, <4>1
    <3> HIDE DEF d
    <3>4. ChipType(d) /\ Holds(d, saved)
      BY <1>1, <3>3 DEF ChipType, Holds
    <3>5. Steady(d)
      <4> DEFINE n == DUMMIES + BITS
      <4>0. n \in Nat /\ m \in 1..n
        BY <3>1, <3>2
      <4> HIDE DEF m, n
      <4>1. m # 1 => m - 1 \in 1..n
        BY <4>0
      <4> USE DEF n
      <4> QED
        BY <3>3, <4>1 DEF Steady, Ready
    <3> QED
      BY <1>1, <2>1, <3>1, <3>4, <3>5 DEF EepromState, InTurn, d
  <2> QED
    BY <2>3, <2>4
<1>3. CASE E!Restart
  <2>1. /\ eeprom' = eeprom /\ eepromLibrary' = [doing |-> "nothing"]
        /\ inStep' = (inStep /\ eepromLibrary.doing # "asked") /\ width' = width /\ saved' = saved
    BY <1>3 DEF E!Restart, E!Free
  <2> QED
    BY <1>1, <2>1 DEF EepromState, InTurn
<1> QED
  BY <1>2, <1>3

LEMMA PowerStep ==
  ASSUME EepromInv, E!PowerCycle
  PROVE  EepromState(eeprom', eepromLibrary', inStep', saved') /\ width' = width
<1>1. /\ eeprom' = E!import_save(E!NewChip, eeprom.data) /\ eepromLibrary' = [doing |-> "nothing"]
      /\ inStep' = TRUE /\ width' = width /\ saved' = saved
  BY DEF E!PowerCycle
<1>2. width \in {SMALL, LARGE} /\ ChipType(eeprom) /\ Holds(eeprom, saved)
  BY DEF EepromInv, EepromState
<1> DEFINE n == IF eeprom.size = "Small" THEN SMALL_BLOCKS ELSE LARGE_BLOCKS
<1>3. n \in Nat /\ eeprom.data \in Array(n)
  BY <1>2, EepromAssumption DEF ChipType
<1> HIDE DEF n
<1>4. /\ ChipType(eeprom') /\ eeprom'.state = "Idle"
      /\ \A b \in 0..(LARGE_BLOCKS - 1) : b \in DOMAIN eeprom.data => eeprom'.data[b] = eeprom.data[b]
  BY <1>1, <1>3, NewEeprom
<1>5. \A b \in E!Blocks : b \in DOMAIN eeprom.data /\ b \in 0..(LARGE_BLOCKS - 1)
  <2>1. \A b \in E!Blocks : b \in 0..(LARGE_BLOCKS - 1)
    BY <1>2, EepromAssumption DEF E!Blocks
  <2> QED
    BY <1>2, <2>1, BlocksThere
<1>6. Holds(eeprom', saved')
  BY <1>1, <1>2, <1>4, <1>5 DEF Holds
<1> QED
  BY <1>1, <1>4, <1>6 DEF EepromState, Steady, Ready, InTurn

LEMMA EepromStep == EepromInv /\ [BusNext]_busVars => EepromInv'
<1> SUFFICES ASSUME EepromInv, [BusNext]_busVars PROVE EepromInv'
  OBVIOUS
<1>1. EepromState(eeprom', eepromLibrary', inStep', saved') /\ width' = width
  <2>1. CASE E!Next
    <3>1. \/ \E bits \in E!AddressBits : E!AskBlock(bits) \/ \E w \in Contents : E!WriteBlock(bits, w)
          \/ E!Poll \/ E!ReadBack \/ E!Restart \/ E!PowerCycle
      BY <2>1 DEF E!Next
    <3> QED
      BY <3>1, WriteStep, AskStep, ReadStep, OtherSteps, PowerStep
  <2>2. CASE UNCHANGED eepromVars
    <3>1. /\ eeprom' = eeprom /\ eepromLibrary' = eepromLibrary /\ inStep' = inStep
          /\ saved' = saved /\ width' = width
      BY <2>2 DEF eepromVars
    <3> QED
      BY <3>1 DEF EepromInv
  <2>3. E!Next \/ UNCHANGED eepromVars
    BY DEF BusNext, UseCartridge, UseMemory, UseServices, busVars, CartNext, UseFlash, UseEeprom, UseRtc,
           WriteSram, EepromIdle, cartVars
  <2> QED
    BY <2>1, <2>2, <2>3
<1>2. E!Address' = E!Address /\ E!Blocks' = E!Blocks /\ OwnSize' = OwnSize
  BY <1>1 DEF E!Address, E!AddressBits, E!Blocks, OwnSize
<1>3. width' \in {SMALL, LARGE}
  BY <1>1 DEF EepromInv
<1> QED
  BY <1>1, <1>2, <1>3 DEF EepromInv, EepromState, ChipType, ChipRecords, Steady, Ready, Holds, InTurn, Answers

LEMMA EepromHolds == BusSpec => []EepromInv
BY EepromStarts, EepromStep, PTL DEF BusSpec

(* What was last written to a block in step with the chip is there, as     *)
(* long as the game runs and through save files, whatever commands were    *)
(* lost (eeprom.rs, write).                                                *)
THEOREM BlocksStay == BusSpec => []BlocksKept
<1>1. EepromInv => BlocksKept
  <2> SUFFICES ASSUME EepromInv PROVE E!BlocksKept
    BY DEF BlocksKept
  <2> QED
    BY BlocksThere DEF EepromInv, EepromState, Holds, E!BlocksKept
<1> QED
  BY <1>1, EepromHolds, PTL

(* A block asked for in step comes back behind its dummy bits, and a whole *)
(* read brings the chip back to where it takes commands (read_bit).        *)
THEOREM BlocksComeBack == BusSpec => []ReadsBack
<1>1. EepromInv => ReadsBack
  <2> SUFFICES ASSUME EepromInv PROVE E!ReadsBack
    BY DEF ReadsBack
  <2> QED
    BY DEF EepromInv, EepromState, InTurn, Ready, Answers, Shown, E!ReadsBack
<1> QED
  BY <1>1, EepromHolds, PTL
=============================================================================
