----------------------------- MODULE SaveFiles -----------------------------
(***************************************************************************)
(* How the frontend keeps cartridge saves (gba-frontend/src/main.rs):      *)
(* load_sav at start, save_sav and rotate_sav_backups at exit, one file    *)
(* operation per step, with a process that may die or a write that may     *)
(* fail half way.  Slot 0 is the .sav file, slot n the file .sav.bak-n.    *)
(* A save is a sequence of blocks; every write of a file is numbered.      *)
(* SRAM, flash and the large EEPROM keep the size they are made with; an   *)
(* EEPROM is made large and is cut to 512 bytes when a command shows that  *)
(* the game has the small one (eeprom.rs).                                 *)
(***************************************************************************)
EXTENDS Integers, Sequences

CONSTANTS
  SLOTS,      \* BACKUP_SLOTS (5)
  FULL,       \* blocks of the backup chip as it is made
  GAME_SIZE,  \* blocks it has once the game has accessed it
  Value,      \* contents of a block
  BlankBlock, \* 0xFF, erased
  Imports,    \* bound: contents of a .sav that comes from elsewhere
  MaxVersion, \* bound: the number of writes
  MaxFailed   \* bound: the number of failed saves in a row

ASSUME SlotsAssumption == SLOTS \in Nat \ {0}
ASSUME SaveAssumption ==
  /\ FULL \in Nat /\ GAME_SIZE \in 1..FULL /\ BlankBlock \in Value
  /\ Imports \subseteq Seq(Value) /\ MaxVersion \in Nat /\ MaxFailed \in Nat

VARIABLES
  pc,      \* "off", "playing", or the next file operation of save_sav
  slot,    \* the slot rotate_sav_backups is about to rename
  chip,    \* the data of the emulated backup chip
  loaded,  \* history: the version of the .sav this session started from
  changed, \* history: the guest stored to the chip in this session
  files,   \* the file system: per slot a version and its data
  version, \* history: the number of the last write
  latest,  \* history: the version of the last save that was written whole
  kept,    \* history: what it holds for the game
  failed   \* history: saves that were cut short since then

filesVars == <<pc, slot, chip, loaded, changed, files, version, latest, kept, failed>>

Slot == 0..SLOTS
NoFile == [version |-> 0, data |-> <<>>]
Exists(s) == files[s].version # 0
BlankChip == [b \in 1..FULL |-> BlankBlock]

(* What a game finds in data of any length. *)
Shown(data) == [b \in 1..GAME_SIZE |-> IF b <= Len(data) THEN data[b] ELSE BlankBlock]

FilesInit ==
  /\ pc = "off" /\ slot = 0 /\ loaded = 0 /\ changed = FALSE
  /\ chip = BlankChip
  /\ \E first \in {NoFile} \cup [version : {1}, data : Imports] :
       files = [s \in Slot |-> IF s = 0 THEN first ELSE NoFile]
  /\ version = 1 /\ failed = 0
  /\ latest = files[0].version /\ kept = Shown(files[0].data)
-----------------------------------------------------------------------------
(* import_save: as much of the file as fits into the chip as it is made. *)
Import(data) == [b \in 1..FULL |-> IF b <= Len(data) THEN data[b] ELSE BlankBlock]

(* load_sav; a file that is missing or cannot be read leaves a blank chip. *)
Start ==
  /\ pc = "off"
  /\ \/ chip' = Import(files[0].data) /\ loaded' = files[0].version
     \/ chip' = BlankChip /\ loaded' = 0
  /\ changed' = FALSE /\ pc' = "playing"
  /\ UNCHANGED <<slot, files, version, latest, kept, failed>>

(* The first command of a session tells the chip's size: data.resize. *)
\* Mutant: the data is made anew.
Cut_Anew(data) == [b \in 1..GAME_SIZE |-> BlankBlock]
Cut(data) == [b \in 1..GAME_SIZE |-> data[b]]

Access ==
  /\ pc = "playing"
  /\ chip' = Cut(chip)
  /\ UNCHANGED <<loaded, changed, pc, slot, files, version, latest, kept, failed>>

Store(b, v) ==
  /\ pc = "playing"
  /\ chip' = [Cut(chip) EXCEPT ![b] = v]
  /\ changed' = TRUE
  /\ UNCHANGED <<loaded, pc, slot, files, version, latest, kept, failed>>

(* save_sav returns early if the file holds the chip's data already; a     *)
(* .sav that exists can be read at exit.                                   *)
\* Mutant: the comparison is left out.
Matches_Never == FALSE
Matches == Exists(0) /\ files[0].data = chip
Exit ==
  /\ pc = "playing" /\ version < MaxVersion
  /\ pc' = IF Matches THEN "off" ELSE "remove"
  /\ UNCHANGED <<slot, chip, loaded, changed, files, version, latest, kept, failed>>

\* Mutant: the last but one is not renamed.
FirstRenamed_Short == IF SLOTS > 1 THEN SLOTS - 2 ELSE 0
FirstRenamed == SLOTS - 1
RemoveOldest ==
  /\ pc = "remove"
  /\ files' = [files EXCEPT ![SLOTS] = NoFile]
  /\ slot' = FirstRenamed /\ pc' = "rename"
  /\ UNCHANGED <<chip, loaded, changed, version, latest, kept, failed>>

(* One fs::rename, from the oldest backup to the .sav itself; it replaces  *)
(* its target, and fails without effect if there is nothing to rename.     *)
\* Mutant: the file is copied.
Renamed_Copy(s) ==
  IF Exists(s) THEN [files EXCEPT ![s + 1] = files[s]] ELSE files
Renamed(s) ==
  IF Exists(s) THEN [files EXCEPT ![s + 1] = files[s], ![s] = NoFile] ELSE files
Rename ==
  /\ pc = "rename"
  /\ files' = Renamed(slot)
  /\ IF slot > 0 THEN slot' = slot - 1 /\ UNCHANGED pc
     ELSE pc' = "write" /\ UNCHANGED slot
  /\ UNCHANGED <<chip, loaded, changed, version, latest, kept, failed>>

WriteFile(data) ==
  /\ pc = "write"
  /\ version' = version + 1
  /\ files' = [files EXCEPT ![0] = [version |-> version', data |-> data]]
  /\ pc' = "off"
  /\ UNCHANGED <<slot, chip, loaded, changed>>

(* fs::write truncates the file and fills it. *)
WriteWhole ==
  /\ WriteFile(chip)
  /\ latest' = version' /\ kept' = Shown(chip) /\ failed' = 0
WriteCutShort ==
  /\ failed < MaxFailed
  /\ \E n \in 0..(Len(chip) - 1) : WriteFile(SubSeq(chip, 1, n))
  /\ failed' = failed + 1
  /\ UNCHANGED <<latest, kept>>

(* The process dies between two file operations, or in the game. *)
Crash ==
  /\ pc # "off" /\ failed < MaxFailed
  /\ pc' = "off"
  /\ failed' = IF pc \in {"rename", "write"} THEN failed + 1 ELSE failed
  /\ UNCHANGED <<slot, chip, loaded, changed, files, version, latest, kept>>

FilesNext ==
  \/ Start \/ Access \/ Exit \/ RemoveOldest \/ Rename \/ WriteWhole \/ WriteCutShort \/ Crash
  \/ \E b \in 1..GAME_SIZE, v \in Value : Store(b, v)

FilesSpec == FilesInit /\ [][FilesNext]_filesVars
-----------------------------------------------------------------------------
(* Whatever went wrong in whichever sessions, the files that exist are     *)
(* distinct saves, in order of age: a rotation that was interrupted leaves *)
(* gaps but no duplicates, and never the wrong order.                      *)
NewestFirst ==
  \A s, t \in Slot : s < t /\ Exists(s) /\ Exists(t) => files[t].version < files[s].version

(* The last save that was written whole is still there: each attempt since *)
(* then has moved it by at most one slot.  Only as many failed saves as    *)
(* there are backups can lose it.                                          *)
LatestKept ==
  latest # 0 /\ failed < SLOTS => \E s \in 0..(failed + 1) : files[s].version = latest

(* A session that starts from the last whole save shows the game what the  *)
(* chip held when that was written, however long the file is and whether   *)
(* or not the chip has been cut to its size since.                         *)
SaveFound ==
  pc = "playing" /\ latest # 0 /\ loaded = latest /\ ~changed => Shown(chip) = kept

(* "Pure open-and-close cycles with no in-game save are no-ops and don't   *)
(* fill the slots" (main.rs): a session that started from a .sav this      *)
(* emulator wrote is about to rotate the backups only if the guest stored  *)
(* something.  The code does not keep this promise: a chip that was cut in *)
(* the last session and is closed before it is accessed has another length *)
(* than its file (eeprom.rs).                                              *)
OpenAndClose ==
  pc = "remove" /\ loaded = latest /\ loaded > 1 => changed

(* What it does keep: as long as the chip is as long as it was when it was *)
(* written, a session without a store rotates nothing.  That is every      *)
(* session for SRAM, flash and the large EEPROM, and for the small one     *)
(* those that read it, after a session that did, too (main.rs, eeprom.rs). *)
OpenAndCloseSameSize ==
  Len(chip) = Len(files[0].data) => OpenAndClose
=============================================================================
