-------------------------------- MODULE Arm --------------------------------
(***************************************************************************)
(* The ARM instructions (gba-core/src/arm7tdmi/arm.rs), each a function of *)
(* the machine.  An instruction is the record of its fields, as execute_arm*)
(* and the handlers extract them; the cycles that handlers return are left *)
(* out.  Data lies in one RAM that repeats through the address space; a    *)
(* byte is a quarter of a word.                                            *)
(***************************************************************************)
EXTENDS Alu, BanksCore, FiniteSets

CONSTANT SIZE  \* bytes of RAM: 32 K, for IWRAM

B8 == W \div 4
BYTE == 2^B8
HALF == 2^(2 * B8)

Cell(a) == (a % SIZE) \div 4
read32(m, a) == m.mem[Cell(a)]
read16(m, a) == (read32(m, a) \div HALF^((a % 4) \div 2)) % HALF
read8(m, a) == (read32(m, a) \div BYTE^(a % 4)) % BYTE
write32(m, a, v) == [m EXCEPT !.mem[Cell(a)] = v]
write16(m, a, v) == write32(m, a, read32(m, a) + ((v % HALF) - read16(m, a)) * HALF^((a % 4) \div 2))
write8(m, a, v) == write32(m, a, read32(m, a) + ((v % BYTE) - read8(m, a)) * BYTE^(a % 4))

SignExtend(x, bits) == IF Bit(x, bits - 1) THEN Wrap(x - 2^bits) ELSE x
-----------------------------------------------------------------------------
(* Data processing.  A shift by a register reads the program counter four  *)
(* bytes further.                                                          *)
Later(m, r, by_register) == IF by_register /\ r = 15 THEN Wrap(m.regs[15] + 4) ELSE m.regs[r]
Rotated(o, c) ==
  LET v == rotate_right(o.value, 2 * o.rotate)
  IN  Out(v, IF o.rotate = 0 THEN c ELSE Negative(v))
Operand2(m, o) ==
  LET by_register == o.by = "register"
      amount == IF by_register THEN Later(m, o.n, TRUE) % 256 ELSE o.n
  IN  IF o.by = "value" THEN Rotated(o, m.cpsr.c)
      ELSE barrel_shift(Later(m, o.rm, by_register), o.type, amount, m.cpsr.c, ~by_register)

arm_data_processing(m, i) ==
  LET o == Operand2(m, i.operand)
      r == Compute(i.op, Later(m, i.rn, i.operand.by = "register"), o.value, o.carry, m.cpsr)
      psr == [set_nz(m.cpsr, r.value) EXCEPT
                !.c = r.carry, !.v = IF is_logical(i.op) THEN @ ELSE r.overflow]
      flagged == [m EXCEPT !.cpsr = psr]
  IN  CASE i.s /\ i.rd = 15 /\ is_test(i.op) -> restore_psr(m)
        [] i.s /\ i.rd = 15 /\ ~is_test(i.op) -> set_reg_with_flags(m, 15, r.value, TRUE)
        [] i.s /\ i.rd # 15 -> IF is_test(i.op) THEN flagged
                               ELSE [flagged EXCEPT !.regs[i.rd] = r.value]
        [] OTHER -> IF is_test(i.op) THEN m ELSE set_reg(m, i.rd, r.value)

arm_multiply(m, i) ==
  LET v == Wrap(m.regs[i.rm] * m.regs[i.rs] + (IF i.a THEN m.regs[i.rn] ELSE 0))
  IN  [m EXCEPT !.regs[i.rd] = v, !.cpsr = IF i.s THEN set_nz(@, v) ELSE @]

arm_multiply_long(m, i) ==
  LET Factor(x) == IF i.signed THEN Signed(x) ELSE x
      acc == IF i.a THEN m.regs[i.rd_hi] * WORD + m.regs[i.rd_lo] ELSE 0
      v == (Factor(m.regs[i.rm]) * Factor(m.regs[i.rs]) + acc) % 2^(2 * W)
      low == [m.regs EXCEPT ![i.rd_lo] = v % WORD]
  IN  [m EXCEPT !.regs = [low EXCEPT ![i.rd_hi] = v \div WORD],
                !.cpsr = IF i.s THEN [@ EXCEPT !.n = Negative(v \div WORD), !.z = v = 0] ELSE @]
-----------------------------------------------------------------------------
(* Loads and stores of one register, with an offset that is added or       *)
(* subtracted, before or after, and kept in the base or not.  A load that  *)
(* is not aligned is rotated.                                              *)
Loaded(m, size, a) ==
  CASE size = "W" -> rotate_right(read32(m, a), (a % 4) * B8)
    [] size = "B" -> read8(m, a)
    [] size = "H" -> rotate_right(read16(m, a), (a % 2) * B8)
    [] size = "SB" \/ (size = "SH" /\ a % 2 = 1) -> SignExtend(read8(m, a), B8)
    [] OTHER -> SignExtend(read16(m, a), 2 * B8)
Stored(m, size, a, v) ==
  CASE size = "W" -> write32(m, a, v)
    [] size = "B" -> write8(m, a, v)
    [] size = "H" -> write16(m, a, v)

Offset(base, up, n) == Wrap(IF up THEN base + n ELSE base - n)

KeepBase(m, i, a) ==
  IF (~i.p \/ i.w) /\ ~(i.l /\ i.rn = i.rd) /\ i.rn # 15 THEN [m EXCEPT !.regs[i.rn] = a] ELSE m

Transfer(m, i, offset, stored) ==
  LET moved == Offset(m.regs[i.rn], i.u, offset)
      a == IF i.p THEN moved ELSE m.regs[i.rn]
  IN  KeepBase(IF i.l THEN set_reg(m, i.rd, Loaded(m, i.size, a))
               ELSE Stored(m, i.size, a, stored), i, moved)

arm_single_transfer(m, i) ==
  Transfer(m, i, IF i.operand.by = "value" THEN i.operand.value ELSE Operand2(m, i.operand).value,
           IF i.rd = 15 THEN Wrap(m.regs[15] + 4) ELSE m.regs[i.rd])

arm_halfword_transfer(m, i) ==
  Transfer(m, i, IF i.operand.by = "value" THEN i.operand.value ELSE m.regs[i.operand.rm],
           m.regs[i.rd])

arm_swap(m, i) ==
  LET a == m.regs[i.rn]
  IN  [Stored(m, i.size, a, m.regs[i.rm]) EXCEPT !.regs[i.rd] = Loaded(m, i.size, a)]
-----------------------------------------------------------------------------
(* Loads and stores of several registers, the lowest at the lowest         *)
(* address.                                                                *)
Below(list, r) == Cardinality({q \in list : q < r})

Start(base, i, total) ==
  IF i.u THEN Wrap(base + (IF i.p THEN 4 ELSE 0))
  ELSE Wrap(base - total + (IF i.p THEN 0 ELSE 4))

(* An empty list moves the program counter, and the base as far as sixteen *)
(* registers would.                                                        *)
EmptyList(m, i) ==
  LET a == Start(m.regs[i.rn], i, 64)
      moved == IF i.l THEN set_reg(m, 15, read32(m, a)) ELSE write32(m, a, Wrap(m.regs[15] + 4))
  IN  IF i.w THEN [moved EXCEPT !.regs[i.rn] = Offset(m.regs[i.rn], i.u, 64)] ELSE moved

(* The registers are loaded in order, so that with the S bit and R15 in    *)
(* the list the mode that is left gets the others.                         *)
LoadList(m, i, a) ==
  LET V(r) == read32(m, Wrap(a + 4 * Below(i.list, r)))
      Load(r, n) ==
        CASE r \notin i.list -> n
          [] r = 15 /\ r \in i.list ->
               branch(IF i.s THEN restore_psr(n) ELSE n, V(r) - (V(r) % 2))
          [] r # 15 /\ r \in i.list /\ i.s /\ 15 \notin i.list -> write_user_reg(n, r, V(r))
          [] OTHER -> [n EXCEPT !.regs[r] = V(r)]
      loaded[r \in 0..16] == IF r = 0 THEN m ELSE Load(r - 1, loaded[r - 1])
  IN  loaded[16]

(* The base, unless it is the lowest, is stored as it will be.             *)
StoreList(m, i, a, final) ==
  LET V(r) == CASE r = 15 -> Wrap(m.regs[15] + 4)
                [] r # 15 /\ r = i.rn /\ i.w /\ Below(i.list, r) > 0 -> final
                [] OTHER -> IF i.s THEN read_user_reg(m, r) ELSE m.regs[r]
      Place(r) == Cell(Wrap(a + 4 * Below(i.list, r)))
  IN  [m EXCEPT !.mem = [c \in DOMAIN @ |->
         LET here == {r \in i.list : Place(r) = c}
         IN  IF here = {} THEN @[c] ELSE V(CHOOSE r \in here : TRUE)]]

arm_block_transfer(m, i) ==
  LET base == m.regs[i.rn]
      total == 4 * Cardinality(i.list)
      a == Start(base, i, total)
      final == Offset(base, i.u, total)
      moved == IF i.l THEN LoadList(m, i, a) ELSE StoreList(m, i, a, final)
  IN  IF i.list = {} THEN EmptyList(m, i)
      ELSE IF i.w /\ ~(i.l /\ i.rn \in i.list) THEN [moved EXCEPT !.regs[i.rn] = final]
      ELSE moved
-----------------------------------------------------------------------------
(* Branches.                                                               *)
arm_branch(m, i) ==
  branch([m EXCEPT !.regs[14] = IF i.link THEN Wrap(m.regs[15] - 4) ELSE @],
         Wrap(m.regs[15] + i.offset))
arm_branch_exchange(m, i) == branch_exchange(m, m.regs[i.rm])
arm_swi(m, i) == [m EXCEPT !.pending_swi = i.comment]
-----------------------------------------------------------------------------
(* The status registers as words: the flags above, the interrupt mask, the *)
(* instruction set and the mode below.  A field mask chooses the two parts.*)
ModeNumbers == [User |-> 0, Fiq |-> 1, Irq |-> 2, Supervisor |-> 3, Abort |-> 4, Undefined |-> 5, System |-> 7]
ModeOf(bits) == IF bits % 8 = 6 THEN "User" ELSE CHOOSE mode \in Modes : ModeNumbers[mode] = bits % 8
BitsOf(p) ==
  ModeNumbers[p.mode] + 8 * One(p.thumb) + 16 * One(p.irq_disabled)
  + (TOP \div 8) * (8 * One(p.n) + 4 * One(p.z) + 2 * One(p.c) + One(p.v))
PsrOf(bits) ==
  [mode |-> ModeOf(bits), thumb |-> Bit(bits, 3), irq_disabled |-> Bit(bits, 4),
   n |-> Bit(bits, W - 1), z |-> Bit(bits, W - 2), c |-> Bit(bits, W - 3), v |-> Bit(bits, W - 4)]
Masked(old, new, fields) ==
  LET control == IF "c" \in fields THEN new ELSE old
      flags == IF "f" \in fields THEN new ELSE old
  IN  [control EXCEPT !.n = flags.n, !.z = flags.z, !.c = flags.c, !.v = flags.v]

arm_mrs(m, i) == [m EXCEPT !.regs[i.rd] = BitsOf(IF i.spsr THEN spsr(m) ELSE m.cpsr)]

MsrValue(m, i) == IF i.operand.by = "value" THEN Rotated(i.operand, FALSE).value ELSE m.regs[i.operand.rm]
Replaced(m, psr) == [switch_mode(m, psr.mode) EXCEPT !.cpsr = psr]
arm_msr(m, i) ==
  LET fields == IF m.cpsr.mode = "User" THEN i.fields \ {"c"} ELSE i.fields
      new == PsrOf(MsrValue(m, i))
  IN  IF i.spsr THEN set_spsr(m, Masked(spsr(m), new, fields))
      ELSE Replaced(m, Masked(m.cpsr, new, fields))
-----------------------------------------------------------------------------
(* Undefined instructions do nothing.                                      *)
execute_arm(m, i) ==
  CASE i.kind = "data" -> arm_data_processing(m, i)
    [] i.kind = "multiply" -> arm_multiply(m, i)
    [] i.kind = "multiply_long" -> arm_multiply_long(m, i)
    [] i.kind = "single" -> arm_single_transfer(m, i)
    [] i.kind = "halfword" -> arm_halfword_transfer(m, i)
    [] i.kind = "block" -> arm_block_transfer(m, i)
    [] i.kind = "swap" -> arm_swap(m, i)
    [] i.kind = "branch" -> arm_branch(m, i)
    [] i.kind = "exchange" -> arm_branch_exchange(m, i)
    [] i.kind = "mrs" -> arm_mrs(m, i)
    [] i.kind = "msr" -> arm_msr(m, i)
    [] i.kind = "swi" -> arm_swi(m, i)
    [] OTHER -> m
=============================================================================
