----------------------------- MODULE BanksCore -----------------------------
(***************************************************************************)
(* The banked registers of the ARM7TDMI (gba-core/src/arm7tdmi/mod.rs).    *)
(* The current mode's registers lie in regs; switch_mode puts away those   *)
(* that the old mode does not share with the new one and fetches the new   *)
(* one's.  The operators take and give the machine as a record m with, at  *)
(* least, the fields regs, cpsr, sp, lr, fiq, usr, spsr and flushed.       *)
(***************************************************************************)
EXTENDS Integers

Modes == {"User", "Fiq", "Irq", "Supervisor", "Abort", "Undefined", "System"}

bank_index(mode) ==
  CASE mode = "Fiq" -> 1
    [] mode = "Irq" -> 2
    [] mode = "Supervisor" -> 3
    [] mode = "Abort" -> 4
    [] mode = "Undefined" -> 5
    [] OTHER -> 0
has_spsr(mode) == mode \notin {"User", "System"}
-----------------------------------------------------------------------------
(* R8 to R12, the domain of usr and fiq, rest in the one or the other while *)
(* the mode in force has its own.                                          *)
High(m) == [r \in DOMAIN m.usr |-> m.regs[r]]
\* Mutant: leaving FIQ mode for another, R8 to R12 stay.
Fetched_Kept(m, new) == IF new = "Fiq" THEN m.fiq ELSE High(m)
Fetched(m, new) ==
  IF m.cpsr.mode = "Fiq" THEN m.usr ELSE IF new = "Fiq" THEN m.fiq ELSE High(m)

switch_mode(m, new) ==
  LET old == m.cpsr.mode
      sp == [m.sp EXCEPT ![bank_index(old)] = m.regs[13]]
      lr == [m.lr EXCEPT ![bank_index(old)] = m.regs[14]]
  IN  IF old = new THEN m
      ELSE [m EXCEPT
              !.sp = sp, !.lr = lr,
              !.fiq = IF old = "Fiq" THEN High(m) ELSE m.fiq,
              !.usr = IF old # "Fiq" /\ new = "Fiq" THEN High(m) ELSE m.usr,
              !.regs = [r \in DOMAIN m.regs |->
                          IF r \in DOMAIN m.usr THEN Fetched(m, new)[r]
                          ELSE IF r = 13 THEN sp[bank_index(new)]
                          ELSE IF r = 14 THEN lr[bank_index(new)]
                          ELSE m.regs[r]],
              !.cpsr.mode = new]

spsr(m) == IF has_spsr(m.cpsr.mode) THEN m.spsr[bank_index(m.cpsr.mode)] ELSE m.cpsr
set_spsr(m, psr) ==
  IF has_spsr(m.cpsr.mode) THEN [m EXCEPT !.spsr[bank_index(m.cpsr.mode)] = psr] ELSE m

(* The registers of User mode, for LDM and STM with the S bit.             *)
read_user_reg(m, r) ==
  IF r \in DOMAIN m.usr /\ m.cpsr.mode = "Fiq" THEN m.usr[r]
  ELSE IF r = 13 /\ bank_index(m.cpsr.mode) # 0 THEN m.sp[0]
  ELSE IF r = 14 /\ bank_index(m.cpsr.mode) # 0 THEN m.lr[0]
  ELSE m.regs[r]

write_user_reg(m, r, v) ==
  IF r \in DOMAIN m.usr /\ m.cpsr.mode = "Fiq" THEN [m EXCEPT !.usr[r] = v]
  ELSE IF r = 13 /\ bank_index(m.cpsr.mode) # 0 THEN [m EXCEPT !.sp[0] = v]
  ELSE IF r = 14 /\ bank_index(m.cpsr.mode) # 0 THEN [m EXCEPT !.lr[0] = v]
  ELSE [m EXCEPT !.regs[r] = v]
-----------------------------------------------------------------------------
(* Writes to the program counter.                                          *)
branch(m, addr) == [m EXCEPT !.regs[15] = addr, !.flushed = TRUE]
branch_exchange(m, addr) ==
  [m EXCEPT !.cpsr.thumb = addr % 2 = 1, !.regs[15] = addr - (addr % 2), !.flushed = TRUE]
set_reg(m, r, v) == IF r = 15 THEN branch(m, v - (v % 2)) ELSE [m EXCEPT !.regs[r] = v]

(* SPSR back to CPSR, with the mode it names.                              *)
restore_psr(m) == [switch_mode(m, spsr(m).mode) EXCEPT !.cpsr = spsr(m)]
set_reg_with_flags(m, r, v, s) ==
  IF r = 15 /\ s THEN branch(restore_psr(m), v - (v % 2)) ELSE set_reg(m, r, v)

(* The entry to an exception: the mode, the address to come back to and    *)
(* the vector differ.                                                      *)
Enter(m, mode, return_addr, vector) ==
  LET entered == set_spsr(switch_mode(m, mode), m.cpsr)
  IN  branch([entered EXCEPT !.regs[14] = return_addr,
                             !.cpsr.thumb = FALSE, !.cpsr.irq_disabled = TRUE], vector)
-----------------------------------------------------------------------------
(* The registers of the architecture, by owner and number, and where each  *)
(* lies.                                                                   *)
Physical ==
  {p \in (Modes \ {"System"}) \X (8..14) :
     p[1] = "User" \/ p[2] \in 13..14 \/ p[1] = "Fiq"}
Lies(m, owner, r) ==
  LET mode == m.cpsr.mode
  IN  IF r \in 13..14
      THEN IF bank_index(mode) = bank_index(owner) THEN m.regs[r]
           ELSE IF r = 13 THEN m.sp[bank_index(owner)] ELSE m.lr[bank_index(owner)]
      ELSE IF r \in DOMAIN m.usr /\ owner = "Fiq" THEN IF mode = "Fiq" THEN m.regs[r] ELSE m.fiq[r]
      ELSE IF r \in DOMAIN m.usr /\ mode = "Fiq" THEN m.usr[r]
      ELSE m.regs[r]
=============================================================================
