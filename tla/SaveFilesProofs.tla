-------------------------- MODULE SaveFilesProofs --------------------------
(***************************************************************************)
(* The backups stay in order of age, the last whole save is among them and *)
(* a session finds it, for every number of slots and every size of chip.   *)
(***************************************************************************)
EXTENDS SaveFiles, TLAPS

(* A chip has the size it is made with or the one its accesses tell. *)
Chip == [1..FULL -> Value] \cup [1..GAME_SIZE -> Value]

(* The files are in order and none is newer than the last write, so that   *)
(* the next one is the newest; the rotation stays within the slots.        *)
Ordered ==
  /\ files \in [Slot -> [version : Nat, data : Seq(Value)]]
  /\ version \in Nat /\ \A s \in Slot : files[s].version <= version
  /\ chip \in Chip
  /\ slot \in 0..(SLOTS - 1)
  /\ NewestFirst

(* What is read into the chip has the chip's size as it is made, what is   *)
(* left of it at the first access that of the game's chip.                 *)
LEMMA ImportFits ==
  ASSUME NEW data \in Seq(Value)
  PROVE  Import(data) \in [1..FULL -> Value]
  <1> SUFFICES ASSUME NEW b \in 1..FULL
               PROVE  (IF b <= Len(data) THEN data[b] ELSE BlankBlock) \in Value
    BY DEF Import
  <1>1. CASE b <= Len(data)
    <2>1. Len(data) \in Nat /\ \A i \in 1..Len(data) : data[i] \in Value
      OBVIOUS
    <2> QED BY <1>1, <2>1, SaveAssumption
  <1>2. CASE ~(b <= Len(data))
    BY <1>2, SaveAssumption
  <1> QED BY <1>1, <1>2

LEMMA CutFits ==
  ASSUME NEW data \in Chip
  PROVE  Cut(data) \in [1..GAME_SIZE -> Value]
  BY SaveAssumption DEF Cut, Chip

LEMMA ChipIsSequence == Chip \subseteq Seq(Value)
  BY SaveAssumption DEF Chip

(* At first there is at most the .sav. *)
LEMMA InitOrdered == FilesInit => Ordered
  <1> SUFFICES ASSUME FilesInit PROVE Ordered
    OBVIOUS
  <1> USE SlotsAssumption, SaveAssumption DEF Slot
  <1>1. PICK first \in {NoFile} \cup [version : {1}, data : Imports] :
          files = [s \in Slot |-> IF s = 0 THEN first ELSE NoFile]
    BY DEF FilesInit
  <1>2. NoFile \in [version : Nat, data : Seq(Value)] /\ NoFile.version = 0
    BY DEF NoFile
  <1>3. first \in [version : Nat, data : Seq(Value)] /\ first.version <= 1
    BY <1>2, SaveAssumption
  <1>4. /\ files \in [Slot -> [version : Nat, data : Seq(Value)]]
        /\ \A s \in Slot : s # 0 => files[s].version = 0
        /\ \A s \in Slot : files[s].version <= 1
    BY <1>1, <1>2, <1>3
  <1>5. NewestFirst
    BY <1>4 DEF NewestFirst, Exists
  <1>6. chip \in Chip
    BY DEF FilesInit, BlankChip, Chip
  <1>7. version = 1 /\ slot \in 0..(SLOTS - 1)
    BY DEF FilesInit
  <1> QED BY <1>4, <1>5, <1>6, <1>7 DEF Ordered

(* Emptying a slot disturbs no order. *)
LEMMA RemoveKeepsOrder ==
  ASSUME Ordered, NEW t \in Slot, files' = [files EXCEPT ![t] = NoFile], UNCHANGED <<version, chip>>,
         slot' \in 0..(SLOTS - 1)
  PROVE  Ordered'
  <1>1. NoFile \in [version : Nat, data : Seq(Value)] /\ NoFile.version = 0
    BY DEF NoFile
  <1>2. /\ files' \in [Slot -> [version : Nat, data : Seq(Value)]]
        /\ \A s \in Slot : files'[s] = IF s = t THEN NoFile ELSE files[s]
    BY <1>1 DEF Ordered
  <1>3. NewestFirst'
    BY <1>1, <1>2 DEF Ordered, NewestFirst, Exists
  <1> QED BY <1>1, <1>2, <1>3 DEF Ordered

(* Nor does moving a file to the next slot, whatever that held. *)
LEMMA RenameKeepsOrder ==
  ASSUME Ordered, files' = Renamed(slot), UNCHANGED <<version, chip>>, slot' \in 0..(SLOTS - 1)
  PROVE  Ordered'
  <1> USE SlotsAssumption DEF Slot
  <1>1. CASE ~Exists(slot)
    BY <1>1 DEF Renamed, Ordered, NewestFirst, Exists
  <1>2. CASE Exists(slot)
    <2>1. NoFile \in [version : Nat, data : Seq(Value)] /\ NoFile.version = 0
      BY DEF NoFile
    <2>2. slot \in Slot /\ slot + 1 \in Slot /\ slot \in Nat
      BY DEF Ordered
    <2>3. files' = [files EXCEPT ![slot + 1] = files[slot], ![slot] = NoFile]
      BY <1>2 DEF Renamed
    <2>4. /\ files' \in [Slot -> [version : Nat, data : Seq(Value)]]
          /\ \A s \in Slot : files'[s] = IF s = slot THEN NoFile
                                         ELSE IF s = slot + 1 THEN files[slot] ELSE files[s]
      BY <2>1, <2>2, <2>3, ZenonT(60) DEF Ordered
    <2> DEFINE V(s) == files[s].version
               W(s) == files'[s].version
    <2>5. \A s \in Slot : V(s) \in Nat /\ V(s) <= version
      BY DEF Ordered
    <2>6. \A s \in Slot : W(s) = IF s = slot THEN 0 ELSE IF s = slot + 1 THEN V(slot) ELSE V(s)
      BY <2>1, <2>4
    <2>7. \A s, t \in Slot : s < t /\ V(s) # 0 /\ V(t) # 0 => V(t) < V(s)
      BY DEF Ordered, NewestFirst, Exists
    <2>8. Slot \subseteq Nat /\ version \in Nat
      BY DEF Ordered
    <2> HIDE DEF V, W, Slot
    <2>9. \A s \in Slot : W(s) <= version
      BY <2>2, <2>5, <2>6, <2>8
    <2>10. \A s, t \in Slot : s < t /\ W(s) # 0 /\ W(t) # 0 => W(t) < W(s)
      BY <2>2, <2>5, <2>6, <2>7, <2>8
    <2>11. NewestFirst'
      BY <2>10 DEF NewestFirst, Exists, W
    <2> QED BY <2>4, <2>9, <2>11 DEF Ordered, W
  <1> QED BY <1>1, <1>2

(* A file that is written is newer than all that exist. *)
LEMMA WriteKeepsOrder ==
  ASSUME Ordered, NEW data \in Seq(Value), WriteFile(data)
  PROVE  Ordered'
  <1> USE SlotsAssumption DEF Slot
  <1>1. version' = version + 1 /\ version' \in Nat /\ UNCHANGED <<slot, chip>>
    BY DEF WriteFile, Ordered
  <1>2. /\ files' \in [Slot -> [version : Nat, data : Seq(Value)]]
        /\ files'[0].version = version'
        /\ \A s \in Slot : s # 0 => files'[s] = files[s]
    BY <1>1, SMTT(40) DEF WriteFile, Ordered
  <1>3. \A s \in Slot : files'[s].version <= version' /\ (s # 0 => files'[s].version < version')
    BY <1>1, <1>2, SMTT(40) DEF Ordered
  <1>4. \A s, t \in Slot : s < t /\ files'[s].version # 0 /\ files'[t].version # 0
                             => files'[t].version < files'[s].version
    <2> SUFFICES ASSUME NEW s \in Slot, NEW t \in Slot, s < t,
                        files'[s].version # 0, files'[t].version # 0
                 PROVE  files'[t].version < files'[s].version
      OBVIOUS
    <2>1. t # 0 /\ files'[t] = files[t]
      BY <1>2, SMTT(40)
    <2>2. CASE s = 0
      BY <1>2, <1>3, <2>1, <2>2
    <2>3. CASE s # 0
      BY <1>2, <2>1, <2>3 DEF Ordered, NewestFirst, Exists
    <2> QED BY <2>2, <2>3
  <1>5. NewestFirst'
    BY <1>4 DEF NewestFirst, Exists
  <1> QED BY <1>1, <1>2, <1>3, <1>5 DEF Ordered

(* Every step preserves the order. *)
LEMMA StepOrdered ==
  ASSUME Ordered, [FilesNext]_filesVars
  PROVE  Ordered'
  <1> USE SlotsAssumption
  <1>1. CASE UNCHANGED <<files, version>> /\ chip' \in Chip /\ UNCHANGED slot
    BY <1>1 DEF Ordered, NewestFirst, Exists
  <1>2. CASE Start
    <2>1. files[0].data \in Seq(Value)
      BY DEF Ordered, Slot
    <2>2. BlankChip \in Chip /\ Import(files[0].data) \in Chip
      BY <2>1, ImportFits, SaveAssumption DEF BlankChip, Chip
    <2> QED BY <1>1, <1>2, <2>2 DEF Start
  <1>3. CASE Exit
    BY <1>1, <1>3 DEF Exit, Ordered
  <1>4. CASE RemoveOldest
    <2>1. SLOTS \in Slot /\ slot' \in 0..(SLOTS - 1) /\ UNCHANGED <<version, chip>>
          /\ files' = [files EXCEPT ![SLOTS] = NoFile]
      BY <1>4 DEF RemoveOldest, FirstRenamed, Slot
    <2> QED BY <2>1, RemoveKeepsOrder
  <1>5. CASE Rename
    <2>1. slot' \in 0..(SLOTS - 1)
      BY <1>5 DEF Rename, Ordered
    <2> QED BY <1>5, <2>1, RenameKeepsOrder DEF Rename
  <1>6. CASE WriteWhole
    <2>1. chip \in Seq(Value)
      BY ChipIsSequence DEF Ordered
    <2> QED BY <1>6, <2>1, WriteKeepsOrder DEF WriteWhole
  <1>7. CASE WriteCutShort
    <2>1. PICK n \in 0..(Len(chip) - 1) : WriteFile(SubSeq(chip, 1, n))
      BY <1>7 DEF WriteCutShort
    <2>2. chip \in Seq(Value)
      BY ChipIsSequence DEF Ordered
    <2>3. SubSeq(chip, 1, n) \in Seq(Value)
      BY <2>2
    <2> QED BY <2>1, <2>3, WriteKeepsOrder
  <1>8. CASE Crash
    BY <1>1, <1>8 DEF Crash, Ordered
  <1>9. CASE \E b \in 1..GAME_SIZE, v \in Value : Store(b, v)
    <2>1. Cut(chip) \in [1..GAME_SIZE -> Value]
      BY CutFits DEF Ordered
    <2> QED BY <1>1, <1>9, <2>1 DEF Store, Chip
  <1>11. CASE Access
    <2>1. Cut(chip) \in [1..GAME_SIZE -> Value]
      BY CutFits DEF Ordered
    <2> QED BY <1>1, <1>11, <2>1 DEF Access, Chip
  <1>10. CASE UNCHANGED filesVars
    BY <1>1, <1>10 DEF filesVars, Ordered
  <1> QED BY <1>2, <1>3, <1>4, <1>5, <1>6, <1>7, <1>8, <1>9, <1>10, <1>11 DEF FilesNext

(* In every session, after any sequence of crashes and failed writes, the  *)
(* .sav and its backups are distinct saves from the newest to the oldest.  *)
THEOREM BackupsInOrder == FilesSpec => []NewestFirst
  <1>1. FilesInit => Ordered
    BY InitOrdered
  <1>2. Ordered /\ [FilesNext]_filesVars => Ordered'
    BY StepOrdered
  <1>3. Ordered => NewestFirst
    BY DEF Ordered
  <1> QED BY <1>1, <1>2, <1>3, PTL DEF FilesSpec
-----------------------------------------------------------------------------
(* Where the last whole save is.  Since it was written it has moved by one *)
(* slot in each attempt that was cut short, and in the present one if the  *)
(* renaming has come past it already; the slot the next file moves to is   *)
(* empty, so that a rename never overwrites it.                            *)
Within(s) ==
  /\ pc \in {"off", "playing", "remove"} => s <= failed
  /\ pc = "rename" => s <= (IF s <= slot THEN failed ELSE failed + 1)
  /\ pc = "write" => s \in 1..(failed + 1)

Reachable ==
  /\ Ordered /\ failed \in Nat /\ latest \in Nat
  /\ pc \in {"off", "playing", "remove", "rename", "write"}
  /\ pc = "rename" => ~Exists(slot + 1)
  /\ latest # 0 /\ failed < SLOTS => \E s \in Slot : files[s].version = latest /\ Within(s)

(* What one rename leaves in each slot. *)
LEMMA RenamedEffect ==
  ASSUME Ordered, files' = Renamed(slot)
  PROVE  /\ slot \in Slot /\ slot + 1 \in Slot /\ slot \in Nat
         /\ \A s \in Slot : files'[s] = IF ~Exists(slot) THEN files[s]
                                       ELSE IF s = slot THEN NoFile
                                       ELSE IF s = slot + 1 THEN files[slot] ELSE files[s]
  <1>1. slot \in Slot /\ slot + 1 \in Slot /\ slot \in Nat
    BY SlotsAssumption DEF Ordered, Slot
  <1> QED BY <1>1 DEF Renamed, Ordered

(* At first the .sav, if there is one, is the last whole save. *)
LEMMA InitReachable == FilesInit => Reachable
  <1> SUFFICES ASSUME FilesInit PROVE Reachable
    OBVIOUS
  <1>1. Ordered
    BY InitOrdered
  <1>2. 0 \in Slot /\ files[0].version \in Nat
    BY <1>1, SlotsAssumption DEF Ordered, Slot
  <1> QED BY <1>1, <1>2 DEF FilesInit, Reachable, Within

(* One rename moves the save by at most one slot, past the one it was      *)
(* about to move.                                                          *)
LEMMA RenameReachable == Reachable /\ Rename => Reachable'
  <1> SUFFICES ASSUME Reachable, Rename PROVE Reachable'
    OBVIOUS
  <1> USE SlotsAssumption DEF Slot
  <1>1. Ordered' /\ Ordered
    BY StepOrdered DEF Reachable, FilesNext
  <1>2. NoFile.version = 0
    BY DEF NoFile
  <1>3. slot \in Slot /\ slot + 1 \in Slot /\ slot \in Nat
    BY <1>1, RenamedEffect DEF Rename
  <1>4. \A s \in Slot : files'[s] = IF ~Exists(slot) THEN files[s]
                                    ELSE IF s = slot THEN NoFile
                                    ELSE IF s = slot + 1 THEN files[slot] ELSE files[s]
    BY <1>1, RenamedEffect DEF Rename
  <1>5. files'[slot].version = 0
    BY <1>2, <1>3, <1>4 DEF Exists
  <1>6. /\ UNCHANGED <<latest, failed>> /\ pc' \in {"rename", "write"}
        /\ pc' = "rename" => slot' = slot - 1
        /\ pc' = "write" => slot = 0
        /\ pc = "rename" /\ slot \in Nat /\ failed \in Nat /\ latest \in Nat
    BY <1>3 DEF Rename, Reachable
  <1>7. pc' = "rename" => files'[slot' + 1].version = 0
    <2>1. pc' = "rename" => slot' + 1 = slot
      BY <1>3, <1>6
    <2> QED BY <2>1, <1>5
  <1>8. ASSUME latest # 0, failed < SLOTS
        PROVE  \E s \in Slot : files'[s].version = latest /\ Within(s)'
    <2>1. PICK s \in Slot : files[s].version = latest /\ Within(s)
      BY <1>8 DEF Reachable
    <2>2. s # slot + 1
      BY <1>6, <1>8, <2>1 DEF Reachable, Exists
    <2>3. CASE s = slot
      <3>1. PICK t \in Slot : t = slot + 1
        BY <1>3
      <3>2. files'[t].version = latest
        BY <1>3, <1>4, <1>8, <2>1, <2>3, <3>1 DEF Exists
      <3>3. slot <= failed
        BY <1>6, <2>1, <2>3 DEF Within
      <3>4. Within(t)'
        BY <1>6, <3>1, <3>3 DEF Within
      <3> QED BY <3>2, <3>4
    <2>4. CASE s # slot
      <3>1. files'[s].version = latest
        BY <1>4, <2>1, <2>2, <2>4
      <3>2. s \in Nat /\ s <= (IF s <= slot THEN failed ELSE failed + 1)
        BY <1>6, <2>1 DEF Within
      <3>3. Within(s)'
        BY <1>6, <2>4, <3>2 DEF Within
      <3> QED BY <2>1, <3>1, <3>3
    <2> QED BY <2>3, <2>4
  <1> QED BY <1>1, <1>6, <1>7, <1>8 DEF Reachable, Exists

(* A write that is cut short leaves the save where the renames brought it. *)
LEMMA CutShortReachable == Reachable /\ WriteCutShort => Reachable'
  <1> SUFFICES ASSUME Reachable, WriteCutShort PROVE Reachable'
    OBVIOUS
  <1>1. Ordered' /\ Ordered
    BY StepOrdered DEF Reachable, FilesNext
  <1>2. /\ \A s \in Slot : s # 0 => files'[s] = files[s]
        /\ pc = "write" /\ pc' = "off" /\ failed' = failed + 1 /\ latest' = latest
    BY <1>1 DEF WriteCutShort, WriteFile, Ordered
  <1>3. failed \in Nat /\ failed' \in Nat /\ latest \in Nat
    BY <1>2 DEF Reachable
  <1>4. ASSUME latest # 0, failed' < SLOTS
        PROVE  \E s \in Slot : files'[s].version = latest /\ Within(s)'
    <2>1. PICK s \in Slot : files[s].version = latest /\ Within(s)
      BY <1>2, <1>3, <1>4, SlotsAssumption DEF Reachable
    <2>2. s \in 1..(failed + 1)
      BY <1>2, <2>1 DEF Within
    <2>3. files'[s].version = latest /\ s <= failed'
      BY <1>2, <1>3, <2>1, <2>2
    <2> QED BY <1>2, <2>1, <2>3 DEF Within
  <1> QED BY <1>1, <1>2, <1>3, <1>4 DEF Reachable

(* The other steps. *)
LEMMA StepReachable == Reachable /\ [FilesNext]_filesVars => Reachable'
  <1> SUFFICES ASSUME Reachable, [FilesNext]_filesVars PROVE Reachable'
    OBVIOUS
  <1>0. Ordered' /\ Ordered /\ failed \in Nat /\ latest \in Nat
    BY StepOrdered DEF Reachable
  <1>1. CASE Start
    BY <1>0, <1>1 DEF Start, Reachable, Within
  <1>2. CASE Exit
    BY <1>0, <1>2 DEF Exit, Reachable, Within
  <1>3. CASE RemoveOldest
    <2>1. /\ \A s \in Slot : s # SLOTS => files'[s] = files[s]
          /\ files'[SLOTS].version = 0
      BY <1>0, <1>3, SlotsAssumption DEF RemoveOldest, NoFile, Ordered, Slot
    <2>2. /\ pc = "remove" /\ pc' = "rename" /\ slot' = SLOTS - 1 /\ SLOTS \in Nat \ {0}
          /\ UNCHANGED <<latest, failed>>
      BY <1>3, SlotsAssumption DEF RemoveOldest, FirstRenamed
    <2>3. files'[slot' + 1].version = 0
      <3>1. slot' + 1 = SLOTS
        BY <2>2
      <3> QED BY <3>1, <2>1
    <2>4. ASSUME latest # 0, failed < SLOTS
          PROVE  \E s \in Slot : files'[s].version = latest /\ Within(s)'
      <3>1. PICK s \in Slot : files[s].version = latest /\ s <= failed
        BY <2>2, <2>4 DEF Reachable, Within
      <3>2. s # SLOTS /\ s \in Nat
        BY <1>0, <2>2, <2>4, <3>1 DEF Slot
      <3>3. Within(s)'
        BY <1>0, <2>2, <2>4, <3>1, <3>2 DEF Within
      <3> QED BY <2>1, <3>1, <3>2, <3>3
    <2> QED BY <1>0, <2>2, <2>3, <2>4 DEF Reachable, Exists
  <1>4. CASE Rename
    BY <1>4, RenameReachable
  <1>5. CASE WriteWhole
    <2>1. files'[0].version = version' /\ latest' = version' /\ failed' = 0 /\ pc' = "off"
      BY <1>0, <1>5, SlotsAssumption DEF WriteWhole, WriteFile, Ordered, Slot
    <2>2. latest' \in Nat /\ 0 \in Slot /\ Within(0)'
      BY <1>0, <2>1, SlotsAssumption DEF Ordered, Slot, Within
    <2> QED BY <1>0, <2>1, <2>2 DEF Reachable
  <1>6. CASE WriteCutShort
    BY <1>6, CutShortReachable
  <1>7. CASE Crash
    <2>1. UNCHANGED <<files, slot, latest>> /\ pc' = "off"
          /\ failed' = IF pc \in {"rename", "write"} THEN failed + 1 ELSE failed
      BY <1>7 DEF Crash
    <2>2. failed' \in Nat
      BY <1>0, <2>1
    <2>3. ASSUME latest # 0, failed' < SLOTS
          PROVE  \E s \in Slot : files'[s].version = latest /\ Within(s)'
      <3>1. failed < SLOTS
        BY <1>0, <2>1, <2>3, SlotsAssumption
      <3>2. PICK s \in Slot : files[s].version = latest /\ Within(s)
        BY <2>3, <3>1 DEF Reachable
      <3>3. Within(s) => s <= failed'
        BY <1>0, <2>1, SlotsAssumption DEF Within, Reachable, Slot
      <3> QED BY <2>1, <3>2, <3>3 DEF Within
    <2> QED BY <1>0, <2>1, <2>2, <2>3 DEF Reachable
  <1>8. CASE \E b \in 1..GAME_SIZE, v \in Value : Store(b, v)
    BY <1>0, <1>8 DEF Store, Reachable, Within, Exists
  <1>9. CASE UNCHANGED filesVars
    BY <1>0, <1>9 DEF filesVars, Reachable, Within, Exists
  <1>10. CASE Access
    BY <1>0, <1>10 DEF Access, Reachable, Within, Exists
  <1> QED BY <1>1, <1>2, <1>3, <1>4, <1>5, <1>6, <1>7, <1>8, <1>9, <1>10 DEF FilesNext

(* For every number of slots: only as many failed saves as there are       *)
(* backups can lose the last whole one, and until then it is as near to    *)
(* the front as there were failures.                                       *)
THEOREM LatestSaveKept == FilesSpec => []LatestKept
  <1>1. Reachable => LatestKept
    <2> SUFFICES ASSUME Reachable, latest # 0, failed < SLOTS
                 PROVE  \E s \in 0..(failed + 1) : files[s].version = latest
      BY DEF LatestKept
    <2>1. PICK s \in Slot : files[s].version = latest /\ Within(s)
      BY DEF Reachable
    <2>2. s \in 0..(failed + 1)
      BY <2>1 DEF Reachable, Within, Slot
    <2> QED BY <2>1, <2>2
  <1> QED BY <1>1, InitReachable, StepReachable, PTL DEF FilesSpec
-----------------------------------------------------------------------------
(* What a session finds and leaves: the last whole save holds what the     *)
(* history says, and until the guest stores something the chip holds what  *)
(* was read from it, whole or cut to the game's size.                      *)
AsLoaded == chip = Import(files[0].data) \/ chip = Cut(Import(files[0].data))

Unchanged ==
  /\ Ordered /\ latest \in Nat /\ latest <= version
  /\ latest # 0 => \A s \in Slot : files[s].version = latest => Shown(files[s].data) = kept
  /\ latest > 1 => \A s \in Slot : files[s].version = latest => files[s].data \in Chip
  /\ pc \in {"playing", "remove"} /\ ~changed /\ loaded = latest /\ latest # 0
       => files[0].version = latest /\ AsLoaded
  /\ pc = "remove" => ~Matches

(* Reading a file into the chip and cutting the chip to its size leaves    *)
(* what the game finds in it, and cutting it again changes nothing.        *)
LEMMA ImportShows ==
  ASSUME NEW data \in Seq(Value)
  PROVE  /\ Shown(Import(data)) = Shown(data)
         /\ Shown(Cut(Import(data))) = Shown(data)
         /\ Cut(Cut(Import(data))) = Cut(Import(data))
  <1>1. Import(data) \in [1..FULL -> Value] /\ Len(Import(data)) = FULL
    BY ImportFits, SaveAssumption
  <1>2. Cut(Import(data)) \in [1..GAME_SIZE -> Value] /\ Len(Cut(Import(data))) = GAME_SIZE
    BY <1>1, CutFits, SaveAssumption DEF Chip
  <1>3. \A b \in 1..GAME_SIZE : b \in 1..FULL /\ b <= GAME_SIZE /\ b <= FULL
    BY SaveAssumption
  <1>4. \A b \in 1..GAME_SIZE :
          /\ Import(data)[b] = IF b <= Len(data) THEN data[b] ELSE BlankBlock
          /\ Cut(Import(data))[b] = Import(data)[b]
    BY <1>3 DEF Import, Cut
  <1>5. Shown(Import(data)) = Shown(data) /\ Shown(Cut(Import(data))) = Shown(data)
    BY <1>1, <1>2, <1>3, <1>4 DEF Shown
  <1>6. Cut(Cut(Import(data))) = Cut(Import(data))
    BY <1>4 DEF Cut
  <1> QED BY <1>5, <1>6

(* If what is read into the chip, cut or not, has the length of the file,  *)
(* it is what the file holds.                                              *)
LEMMA SameLengthSameData ==
  ASSUME NEW data \in Chip, NEW read \in {Import(data), Cut(Import(data))},
         Len(read) = Len(data)
  PROVE  read = data
  <1> USE SaveAssumption
  <1>1. data \in Seq(Value)
    BY ChipIsSequence
  <1>2. Import(data) \in [1..FULL -> Value] /\ Cut(Import(data)) \in [1..GAME_SIZE -> Value]
    BY <1>1, ImportFits, CutFits DEF Chip
  <1>3. data = [b \in 1..Len(data) |-> data[b]] /\ Len(data) \in {FULL, GAME_SIZE}
    BY DEF Chip
  <1>4. CASE read = Import(data)
    <2>1. Len(data) = FULL
      BY <1>2, <1>4
    <2> QED BY <1>3, <1>4, <2>1 DEF Import
  <1>5. CASE read = Cut(Import(data))
    <2>1. Len(data) = GAME_SIZE
      BY <1>2, <1>5
    <2>2. \A b \in 1..GAME_SIZE : Import(data)[b] = data[b]
      BY <2>1 DEF Import
    <2> QED BY <1>3, <1>5, <2>1, <2>2 DEF Cut
  <1> QED BY <1>4, <1>5

LEMMA InitUnchanged == FilesInit => Unchanged
  <1> SUFFICES ASSUME FilesInit PROVE Unchanged
    OBVIOUS
  <1>1. Ordered /\ 0 \in Slot
    BY InitOrdered, SlotsAssumption DEF Slot
  <1>2. latest \in Nat /\ latest <= version /\ ~(latest > 1) /\ pc = "off"
    BY <1>1 DEF FilesInit, Ordered
  <1>3. ASSUME latest # 0, NEW s \in Slot, files[s].version = latest
        PROVE  Shown(files[s].data) = kept
    <2>1. s = 0
      BY <1>3 DEF FilesInit, NoFile
    <2> QED BY <2>1 DEF FilesInit
  <1> QED BY <1>1, <1>2, <1>3 DEF Unchanged

(* Files are only changed outside of sessions; the one that is written     *)
(* whole becomes the last whole save, and no other file has its number.    *)
LEMMA StepUnchanged == Unchanged /\ [FilesNext]_filesVars => Unchanged'
  <1> SUFFICES ASSUME Unchanged, [FilesNext]_filesVars PROVE Unchanged'
    OBVIOUS
  <1> USE SlotsAssumption
  <1>0. Ordered' /\ Ordered /\ 0 \in Slot /\ files[0].data \in Seq(Value)
    BY StepOrdered DEF Unchanged, Ordered, Slot
  <1>1. CASE Start
    <2>1. UNCHANGED <<files, version, latest, kept>> /\ pc' = "playing"
      BY <1>1 DEF Start
    <2>2. loaded' = latest /\ latest # 0 => files[0].version = latest /\ chip' = Import(files[0].data)
      BY <1>1 DEF Start
    <2> QED BY <1>0, <2>1, <2>2 DEF Unchanged, AsLoaded
  <1>2. CASE Exit
    <2>1. pc' = "remove" => ~Matches'
      BY <1>2 DEF Exit, Matches, Exists
    <2> QED BY <1>0, <1>2, <2>1 DEF Exit, Unchanged, AsLoaded
  <1>3. CASE RemoveOldest
    <2>1. \A s \in Slot : files'[s] = files[s] \/ files'[s].version = 0
      BY <1>0, <1>3 DEF RemoveOldest, NoFile, Ordered, Slot
    <2>2. UNCHANGED <<version, latest, kept>> /\ pc' = "rename"
      BY <1>3 DEF RemoveOldest
    <2> QED BY <1>0, <2>1, <2>2 DEF Unchanged
  <1>4. CASE Rename
    <2>1. \A s \in Slot : \/ files'[s] = files[s] \/ files'[s].version = 0
                          \/ \E t \in Slot : files'[s] = files[t]
      BY <1>0, <1>4, RenamedEffect DEF Rename, NoFile
    <2>2. UNCHANGED <<version, latest, kept>> /\ pc' \in {"rename", "write"}
      BY <1>4 DEF Rename
    <2> QED BY <1>0, <2>1, <2>2 DEF Unchanged
  <1>5. CASE WriteWhole
    <2>1. /\ files'[0].data = chip /\ latest' = version' /\ pc' = "off" /\ kept' = Shown(chip)
          /\ \A s \in Slot : s # 0 => files'[s] = files[s]
          /\ version' = version + 1
      BY <1>0, <1>5 DEF WriteWhole, WriteFile, Ordered, Slot
    <2>2. \A s \in Slot : s # 0 => files'[s].version # latest'
      BY <1>0, <2>1 DEF Ordered
    <2>3. latest' \in Nat /\ latest' <= version' /\ chip \in Chip
      BY <1>0, <2>1 DEF Ordered
    <2> QED BY <1>0, <2>1, <2>2, <2>3 DEF Unchanged
  <1>6. CASE WriteCutShort
    <2>1. /\ files'[0].version = version + 1 /\ latest' = latest /\ kept' = kept /\ pc' = "off"
          /\ \A s \in Slot : s # 0 => files'[s] = files[s]
          /\ version' = version + 1 /\ version \in Nat
      BY <1>0, <1>6 DEF WriteCutShort, WriteFile, Ordered, Slot
    <2>2. files'[0].version # latest' /\ latest' <= version'
      BY <2>1 DEF Unchanged
    <2> QED BY <1>0, <2>1, <2>2 DEF Unchanged
  <1>7. CASE Crash
    BY <1>0, <1>7 DEF Crash, Unchanged
  <1>8. CASE \E b \in 1..GAME_SIZE, v \in Value : Store(b, v)
    BY <1>0, <1>8 DEF Store, Unchanged
  <1>9. CASE Access
    <2>1. UNCHANGED <<files, version, latest, kept, loaded, changed, pc>> /\ pc = "playing"
          /\ chip' = Cut(chip)
      BY <1>9 DEF Access
    <2>2. AsLoaded => AsLoaded'
      BY <1>0, <2>1, ImportShows DEF AsLoaded
    <2> QED BY <1>0, <2>1, <2>2 DEF Unchanged
  <1>10. CASE UNCHANGED filesVars
    BY <1>0, <1>10 DEF filesVars, Unchanged, AsLoaded, Matches, Exists
  <1> QED BY <1>1, <1>2, <1>3, <1>4, <1>5, <1>6, <1>7, <1>8, <1>9, <1>10 DEF FilesNext

(* Whatever was lost or cut short before, and however long the file is,    *)
(* the game finds what the chip held when the last whole save was written. *)
THEOREM SavesFound == FilesSpec => []SaveFound
  <1>1. Unchanged => SaveFound
    <2> SUFFICES ASSUME Unchanged, pc = "playing", latest # 0, loaded = latest, ~changed
                 PROVE  Shown(chip) = kept
      BY DEF SaveFound
    <2>1. 0 \in Slot /\ files[0].data \in Seq(Value) /\ files[0].version = latest /\ AsLoaded
      BY SlotsAssumption DEF Unchanged, Ordered, Slot
    <2>2. Shown(files[0].data) = kept
      BY <2>1 DEF Unchanged
    <2> QED BY <2>1, <2>2, ImportShows DEF AsLoaded
  <1> QED BY <1>1, InitUnchanged, StepUnchanged, PTL DEF FilesSpec

(* A session that started from a save of this emulator and closes with a   *)
(* chip of the length of that save rotates the backups only if the guest   *)
(* stored something, whatever sessions, crashes and accesses came before.  *)
THEOREM OpeningIsNoSave == FilesSpec => []OpenAndCloseSameSize
  <1>1. Unchanged => OpenAndCloseSameSize
    <2> SUFFICES ASSUME Unchanged, Len(chip) = Len(files[0].data),
                        pc = "remove", loaded = latest, loaded > 1, ~changed
                 PROVE  FALSE
      BY DEF OpenAndCloseSameSize, OpenAndClose
    <2>1. latest > 1 /\ latest # 0 /\ latest \in Nat
      BY DEF Unchanged
    <2>2. files[0].version = latest /\ AsLoaded /\ 0 \in Slot
      BY <2>1, SlotsAssumption DEF Unchanged, Slot
    <2>3. files[0].data \in Chip
      BY <2>1, <2>2 DEF Unchanged
    <2>4. chip = files[0].data
      BY <2>2, <2>3, SameLengthSameData DEF AsLoaded
    <2>5. Matches
      BY <2>1, <2>2, <2>4 DEF Matches, Exists
    <2> QED BY <2>5 DEF Unchanged
  <1> QED BY <1>1, InitUnchanged, StepUnchanged, PTL DEF FilesSpec
=============================================================================
