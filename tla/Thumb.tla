------------------------------- MODULE Thumb -------------------------------
(***************************************************************************)
(* The Thumb instructions (gba-core/src/arm7tdmi/thumb.rs), each handler   *)
(* for itself as the source has them: they share the shifter, the adder    *)
(* and the memory with the ARM handlers, and nothing else.                 *)
(***************************************************************************)
EXTENDS Arm

\* A result with all its flags, or only N and Z, for a register or none.
Put(m, r, v) == [m EXCEPT !.regs[r] = v]
Flagged(m, r) == [m EXCEPT !.cpsr = WithFlags(@, r)]
Arith(m, rd, r) == Put(Flagged(m, r), rd, r.value)
TestNZ(m, v) == [m EXCEPT !.cpsr = set_nz(@, v)]
Logic(m, rd, v) == Put(TestNZ(m, v), rd, v)
Shift(m, rd, o) == Put([m EXCEPT !.cpsr = [set_nz(@, o.value) EXCEPT !.c = o.carry]], rd, o.value)
Sum(m, sub, a, b) == IF sub THEN sub_with_carry(a, b, TRUE) ELSE add_with_carry(a, b, FALSE)

thumb_shift_imm(m, i) == Shift(m, i.rd, barrel_shift(m.regs[i.rs], i.type, i.offset, m.cpsr.c, TRUE))
thumb_add_sub_reg(m, i) == Arith(m, i.rd, Sum(m, i.sub, m.regs[i.rs], m.regs[i.rn]))
thumb_add_sub_imm(m, i) == Arith(m, i.rd, Sum(m, i.sub, m.regs[i.rs], i.imm))
thumb_mov_imm(m, i) == Logic(m, i.rd, i.imm)
thumb_cmp_imm(m, i) == Flagged(m, sub_with_carry(m.regs[i.rd], i.imm, TRUE))
thumb_add_imm(m, i) == Arith(m, i.rd, add_with_carry(m.regs[i.rd], i.imm, FALSE))
thumb_sub_imm(m, i) == Arith(m, i.rd, sub_with_carry(m.regs[i.rd], i.imm, TRUE))

thumb_alu(m, i) ==
  LET a == m.regs[i.rd]
      b == m.regs[i.rs]
      By(type) == Shift(m, i.rd, barrel_shift(a, type, b % 256, m.cpsr.c, FALSE))
  IN  CASE i.op \in ShiftTypes -> By(i.op)
        [] i.op = "AND" -> Logic(m, i.rd, And(a, b))
        [] i.op = "EOR" -> Logic(m, i.rd, Xor(a, b))
        [] i.op = "ORR" -> Logic(m, i.rd, Or(a, b))
        [] i.op = "BIC" -> Logic(m, i.rd, And(a, Complement(b)))
        [] i.op = "MVN" -> Logic(m, i.rd, Complement(b))
        [] i.op = "MUL" -> Logic(m, i.rd, Wrap(a * b))
        [] i.op = "TST" -> TestNZ(m, And(a, b))
        [] i.op = "ADC" -> Arith(m, i.rd, add_with_carry(a, b, m.cpsr.c))
        [] i.op = "SBC" -> Arith(m, i.rd, sub_with_carry(a, b, m.cpsr.c))
        [] i.op = "NEG" -> Arith(m, i.rd, sub_with_carry(0, b, TRUE))
        [] i.op = "CMP" -> Flagged(m, sub_with_carry(a, b, TRUE))
        [] i.op = "CMN" -> Flagged(m, add_with_carry(a, b, FALSE))

\* Any of the sixteen registers; a result for R15 is a branch.
thumb_hi_reg_bx(m, i) ==
  CASE i.op = "ADD" -> set_reg(m, i.rd, Wrap(m.regs[i.rd] + m.regs[i.rs]))
    [] i.op = "CMP" -> Flagged(m, sub_with_carry(m.regs[i.rd], m.regs[i.rs], TRUE))
    [] i.op = "MOV" -> set_reg(m, i.rd, m.regs[i.rs])
    [] i.op = "BX" -> branch_exchange(m, m.regs[i.rs])
-----------------------------------------------------------------------------
(* Loads and stores.                                                       *)
Aligned(a, n) == a - (a % n)
Move(m, i, size, a) ==
  IF i.l THEN Put(m, i.rd, Loaded(m, size, a)) ELSE Stored(m, size, a, m.regs[i.rd])

thumb_ldr_pc(m, i) == Put(m, i.rd, read32(m, Wrap(Aligned(m.regs[15], 4) + 4 * i.offset)))
thumb_load_store_reg(m, i) == Move(m, i, i.size, Wrap(m.regs[i.rb] + m.regs[i.ro]))
thumb_load_store_imm(m, i) ==
  Move(m, i, i.size, Wrap(m.regs[i.rb] + (IF i.size = "B" THEN 1 ELSE 4) * i.offset))
thumb_load_store_half(m, i) == Move(m, i, "H", Wrap(m.regs[i.rb] + 2 * i.offset))
thumb_load_store_sp(m, i) == Move(m, i, "W", Wrap(m.regs[13] + 4 * i.offset))
thumb_load_address(m, i) ==
  Put(m, i.rd, Wrap((IF i.sp THEN m.regs[13] ELSE Aligned(m.regs[15], 4)) + 4 * i.offset))
thumb_add_sp(m, i) == Put(m, 13, Offset(m.regs[13], ~i.negative, 4 * i.offset))

\* The registers of a list, stored to and loaded from successive words.
PutList(m, list, a, value) ==
  [m EXCEPT !.mem = [c \in DOMAIN @ |->
     LET here == {r \in list : Cell(Wrap(a + 4 * Below(list, r))) = c}
     IN  IF here = {} THEN @[c] ELSE value[CHOOSE r \in here : TRUE]]]
GetList(m, list, a) ==
  [m EXCEPT !.regs = [r \in DOMAIN @ |->
     IF r \in list THEN read32(m, Wrap(a + 4 * Below(list, r))) ELSE @[r]]]

thumb_push(m, i) ==
  LET list == i.list \cup (IF i.lr THEN {14} ELSE {})
      a == Wrap(m.regs[13] - 4 * Cardinality(list))
  IN  Put(PutList(m, list, a, m.regs), 13, a)

thumb_pop(m, i) ==
  LET a == m.regs[13]
      top == Wrap(a + 4 * Cardinality(i.list))
      popped == GetList(m, i.list, a)
  IN  IF i.pc THEN Put(set_reg(popped, 15, read32(m, top)), 13, Wrap(top + 4))
      ELSE Put(popped, 13, top)

thumb_stmia(m, i) ==
  LET a == m.regs[i.rb]
      final == Wrap(a + 4 * Cardinality(i.list))
      value == IF Below(i.list, i.rb) > 0 THEN [m.regs EXCEPT ![i.rb] = final] ELSE m.regs
  IN  IF i.list = {} THEN Put(write32(m, a, Wrap(m.regs[15] + 2)), i.rb, Wrap(a + 64))
      ELSE Put(PutList(m, i.list, a, value), i.rb, final)

\* Mutant: the base goes on over the value loaded into it.
thumb_ldmia_Over(m, i) ==
  Put(GetList(m, i.list, m.regs[i.rb]), i.rb, Wrap(m.regs[i.rb] + 4 * Cardinality(i.list)))
thumb_ldmia(m, i) ==
  LET a == m.regs[i.rb]
      loaded == GetList(m, i.list, a)
  IN  IF i.list = {} THEN set_reg(Put(m, i.rb, Wrap(a + 64)), 15, read32(m, a))
      ELSE IF i.rb \in i.list THEN loaded ELSE Put(loaded, i.rb, Wrap(a + 4 * Cardinality(i.list)))
-----------------------------------------------------------------------------
(* Branches.  A call takes two instructions, with the upper half of the    *)
(* distance in LR between them.                                            *)
thumb_cond_branch(m, i) ==
  IF check_condition(m.cpsr, i.cond) THEN branch(m, Wrap(m.regs[15] + i.offset)) ELSE m
thumb_branch(m, i) == branch(m, Wrap(m.regs[15] + i.offset))
thumb_bl_prefix(m, i) == Put(m, 14, Wrap(m.regs[15] + i.offset))
thumb_bl_suffix(m, i) ==
  LET next == Wrap(m.regs[15] - 2)
  IN  branch(Put(m, 14, next + 1 - (next % 2)), Wrap(m.regs[14] + i.offset))
thumb_swi(m, i) == [m EXCEPT !.pending_swi = i.comment]

execute_thumb(m, i) ==
  CASE i.kind = "shift_imm" -> thumb_shift_imm(m, i)
    [] i.kind = "add_sub_reg" -> thumb_add_sub_reg(m, i)
    [] i.kind = "add_sub_imm" -> thumb_add_sub_imm(m, i)
    [] i.kind = "mov_imm" -> thumb_mov_imm(m, i)
    [] i.kind = "cmp_imm" -> thumb_cmp_imm(m, i)
    [] i.kind = "add_imm" -> thumb_add_imm(m, i)
    [] i.kind = "sub_imm" -> thumb_sub_imm(m, i)
    [] i.kind = "alu" -> thumb_alu(m, i)
    [] i.kind = "hi_reg_bx" -> thumb_hi_reg_bx(m, i)
    [] i.kind = "ldr_pc" -> thumb_ldr_pc(m, i)
    [] i.kind = "load_store_reg" -> thumb_load_store_reg(m, i)
    [] i.kind = "load_store_imm" -> thumb_load_store_imm(m, i)
    [] i.kind = "load_store_half" -> thumb_load_store_half(m, i)
    [] i.kind = "load_store_sp" -> thumb_load_store_sp(m, i)
    [] i.kind = "load_address" -> thumb_load_address(m, i)
    [] i.kind = "add_sp" -> thumb_add_sp(m, i)
    [] i.kind = "push" -> thumb_push(m, i)
    [] i.kind = "pop" -> thumb_pop(m, i)
    [] i.kind = "stmia" -> thumb_stmia(m, i)
    [] i.kind = "ldmia" -> thumb_ldmia(m, i)
    [] i.kind = "cond_branch" -> thumb_cond_branch(m, i)
    [] i.kind = "branch" -> thumb_branch(m, i)
    [] i.kind = "bl_prefix" -> thumb_bl_prefix(m, i)
    [] i.kind = "bl_suffix" -> thumb_bl_suffix(m, i)
    [] i.kind = "swi" -> thumb_swi(m, i)
    [] OTHER -> m
=============================================================================
