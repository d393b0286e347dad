------------------------------- MODULE Banks -------------------------------
(***************************************************************************)
(* The register banks in use: modes change, by MSR and by exceptions, and  *)
(* registers are written and read, those of User mode from any mode too.   *)
(***************************************************************************)
EXTENDS BanksCore

CONSTANTS
  Value,
  Registers,  \* 0..14
  Reached,    \* the modes that MSR switches to
  Status,     \* what a mode's SPSR may be set to
  MaxWrites   \* bound

VARIABLES m, seen, writes \* so far

banksVars == <<m, seen, writes>>

Statuses == [mode : Modes, thumb : BOOLEAN, irq_disabled : BOOLEAN]

ASSUME BanksAssumption ==
  /\ 0 \in Value /\ Value \subseteq Int
  /\ {13, 14} \subseteq Registers /\ Registers \subseteq 0..14
  /\ Reached \subseteq Modes /\ Status \subseteq Statuses

StatusOf(mode, masked) == [mode |-> mode, thumb |-> FALSE, irq_disabled |-> masked]

new_skip_bios ==
  [regs |-> [r \in Registers \cup {15} |-> 0], cpsr |-> StatusOf("System", FALSE),
   sp |-> [b \in 0..5 |-> 0], lr |-> [b \in 0..5 |-> 0],
   fiq |-> [r \in Registers \cap 8..12 |-> 0], usr |-> [r \in Registers \cap 8..12 |-> 0],
   spsr |-> [b \in 1..5 |-> StatusOf("User", FALSE)], flushed |-> TRUE]

BanksInit == m = new_skip_bios /\ seen = 0 /\ writes = 0

Bounded == writes < MaxWrites /\ writes' = writes + 1 /\ UNCHANGED seen

WriteReg(r, v) == Bounded /\ m' = set_reg(m, r, v)
WriteUserReg(r, v) == Bounded /\ m' = write_user_reg(m, r, v)
SetSpsr(s) == Bounded /\ m' = set_spsr(m, s)
Exception(mode, v) == Bounded /\ m' = Enter(m, mode, v, 0)

SwitchMode(mode) == m' = switch_mode(m, mode) /\ UNCHANGED <<seen, writes>>
ExceptionReturn(v) == m' = set_reg_with_flags(m, 15, v, TRUE) /\ UNCHANGED <<seen, writes>>

ReadUserReg(r) == seen' = read_user_reg(m, r) /\ UNCHANGED <<m, writes>>

BanksNext ==
  \/ \E r \in Registers, v \in Value : WriteReg(r, v) \/ WriteUserReg(r, v)
  \/ \E r \in Registers : ReadUserReg(r)
  \/ \E mode \in Reached : SwitchMode(mode)
  \/ \E mode \in {"Irq", "Supervisor"}, v \in Value : Exception(mode, v)
  \/ \E s \in Status : SetSpsr(s)
  \/ \E v \in Value : ExceptionReturn(v)

BanksSpec == BanksInit /\ [][BanksNext]_banksVars
-----------------------------------------------------------------------------
Kept ==
  {p \in (Modes \ {"System"}) \X Registers :
     p[1] = "User" \/ p[2] \in 13..14 \/ (p[1] = "Fiq" /\ p[2] \in 8..12)}

File == INSTANCE RegisterFile WITH
  file <- [p \in Kept |-> Lies(m, p[1], p[2])],
  saved <- [mode \in Modes \ {"User", "System"} |-> m.spsr[bank_index(mode)]],
  status <- m.cpsr

(* Whatever modes the program goes through, by MSR, exceptions and their   *)
(* returns, each register keeps what was written to it last in the modes   *)
(* that share it, from User mode's registers read and written elsewhere to *)
(* the five that FIQ mode has for itself (mod.rs:523-750).                 *)
ImplementsRegisterFile == [][m' = m \/ File!Step]_(File!abstractVars)
=============================================================================
