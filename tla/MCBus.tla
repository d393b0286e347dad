------------------------------- MODULE MCBus -------------------------------
(***************************************************************************)
(* Small instances of Bus, and of what becomes of a cartridge's save when  *)
(* the program is closed: "guest" is a guest that uses the bus, "files"    *)
(* the frontend's files over several sessions, each alone, in one state    *)
(* space.                                                                  *)
(***************************************************************************)
EXTENDS Bus, MCSaveFiles

VARIABLE
  which  \* what this behaviour is about

OneGuest == use = "services" /\ ram = CHOOSE m \in Fillings : TRUE
MCInit ==
  /\ which \in {"guest", "files"}
  /\ BusInit /\ (which # "guest" => OneGuest)
  /\ FilesInit /\ (which # "files" => files[0] = NoFile)

MCNext == \/ which = "guest" /\ BusNext /\ UNCHANGED <<which, filesVars>>
          \/ which = "files" /\ FilesNext /\ UNCHANGED <<which, busVars>>

MCSpec == MCInit /\ [][MCNext]_<<which, busVars, filesVars>>
-----------------------------------------------------------------------------
OneOfEach == {{"FLASH_V"}, {"FLASH1M_V"}, {"EEPROM_V"}, {"SRAM_V"}, {"SIIRTC_V"}}

\* The offsets of the flash protocol, and a second one in the sector of 0x5555.
FourOffsets == {0, ADDR1, ADDR2, 20480}
\* Overlapping bytes at one offset, and one that ends like an unlock.
SomePrograms == {<<20480, xAA>>, <<20480, {0, 1}>>, <<ADDR1, xAA>>}
SomeStrays == {<<ADDR1, xAA>>, <<20480, ERASE_SECTOR>>}
xC2 == {1, 6, 7}
x09 == {0, 3}

TwoBlocks == {<<0, 1>>, <<1, 0>>}

\* The last second of a 28th of February of a leap year, and the next one.
Midnight == {951782399, 951782400}
\* READ_DATETIME is 101, READ_STATUS 99, WRITE_TIME 102, WRITE_STATUS 98.
SomeTransactions ==
  [op : {101}, bytes : {FALSE}] \cup [op : {99, 102}, bytes : {TRUE}]
    \cup {[op |-> 98, value |-> 2, bytes |-> FALSE]}

SomeBytes == {{}, {0}}

W1234 == <<1, 2, 3, 4>>
H56 == <<5, 6>>
B7 == <<7>>
SomeHalves == {<<1, 0>>, <<2, 1>>, <<3, 2>>, <<0, 3>>}
SomeWords == {<<1, 2, 3, 0>>, <<2, 3, 0, 1>>}

Lit(b) == [bytes |-> <<b>>]
Ref(n, o) == [length |-> n, offset |-> o]
SomeLz == {<<Lit(1), Lit(2), Ref(3, 2)>>, <<Lit(1), Ref(3, 1), Lit(2)>>,
           <<Lit(2), Lit(1), Lit(3), Ref(4, 3), Ref(3, 2)>>}
SomeRl == {<<[byte |-> 1, length |-> 3], [bytes |-> <<2, 3>>], [byte |-> 2, length |-> 4]>>,
           <<[bytes |-> <<1>>], [byte |-> 3, length |-> 3]>>}
SomeUnits == {<<1, 0, 1>>, <<0, 1, 1, 0, 1>>, <<3, 0, 2, 1>>}
TwoFillings == {[i \in 0..7 |-> 0], [i \in 0..7 |-> i % 4]}
=============================================================================
