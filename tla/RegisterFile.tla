---------------------------- MODULE RegisterFile ----------------------------
(***************************************************************************)
(* What the banking of registers promises (the ARM architecture, as the    *)
(* comments of gba-core/src/arm7tdmi/mod.rs tell it): every mode has the   *)
(* registers of its own and shares the others with User mode.  Going from  *)
(* one mode to another changes none.                                       *)
(***************************************************************************)
EXTENDS Integers

CONSTANTS
  Value,
  Registers, \* 0..14
  Modes, Status

VARIABLES
  file,    \* the registers, by owner and number
  saved,   \* the status each mode has put aside
  status,  \* the current one: mode, instruction set, interrupts
  seen     \* what was read last of User mode's registers

abstractVars == <<file, saved, status, seen>>

Owner(mode, r) ==
  IF r \in 8..12 /\ mode = "Fiq" THEN "Fiq"
  ELSE IF r \in 13..14 /\ mode # "System" THEN mode ELSE "User"
Own(r) == <<Owner(status.mode, r), r>>
HasSaved(mode) == mode \notin {"User", "System"}
Current == IF HasSaved(status.mode) THEN saved[status.mode] ELSE status

Write(r, v) ==
  file' = [file EXCEPT ![Own(r)] = v] /\ UNCHANGED <<saved, status, seen>>
WriteUser(r, v) ==
  file' = [file EXCEPT ![<<"User", r>>] = v] /\ UNCHANGED <<saved, status, seen>>
ReadUser(r) == seen' = file[<<"User", r>>] /\ UNCHANGED <<file, saved, status>>
Switch(mode) == status' = [status EXCEPT !.mode = mode] /\ UNCHANGED <<file, saved, seen>>

(* An exception: the status is put aside for the way back.                 *)
Take(mode, v) ==
  /\ saved' = [saved EXCEPT ![mode] = status]
  /\ file' = [file EXCEPT ![<<mode, 14>>] = v]
  /\ status' = [status EXCEPT !.mode = mode, !.thumb = FALSE, !.irq_disabled = TRUE]
  /\ UNCHANGED seen
Return == status' = Current /\ UNCHANGED <<file, saved, seen>>

(* The status put aside is replaced.                                       *)
Save(s) ==
  /\ saved' = IF HasSaved(status.mode) THEN [saved EXCEPT ![status.mode] = s] ELSE saved
  /\ UNCHANGED <<file, status, seen>>

Step ==
  \/ \E r \in Registers, v \in Value : Write(r, v) \/ WriteUser(r, v)
  \/ \E r \in Registers : ReadUser(r)
  \/ Return
  \/ \E mode \in Modes : Switch(mode)
  \/ \E mode \in {"Irq", "Supervisor"}, v \in Value : Take(mode, v)
  \/ \E s \in Status : Save(s)
=============================================================================
