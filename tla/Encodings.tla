----------------------------- MODULE Encodings -----------------------------
(***************************************************************************)
(* The ARM7TDMI defines each Thumb instruction as a form of an ARM one.    *)
(* The source has two executors, of which nearly every handler is written  *)
(* twice (thumb.rs, arm.rs).  Here two machines in one state execute one   *)
(* instruction, each in its own encoding.                                  *)
(***************************************************************************)
EXTENDS Thumb

CONSTANTS
  Words, Bases, Stacks, \* bound: the values in registers at the start
  Instructions,         \* Thumb instructions
  PC                    \* where they are, and two ahead: a multiple of four

VARIABLES
  thumb, arm, \* the machines
  last        \* what was executed, the operands and the carry before

encodingVars == <<thumb, arm, last>>

Idle == [kind |-> "none"]

Psr(mode, is_thumb, c) ==
  [mode |-> mode, thumb |-> is_thumb, irq_disabled |-> FALSE,
   n |-> FALSE, z |-> TRUE, c |-> c, v |-> TRUE]
Fresh(regs, psr, mem) ==
  [regs |-> regs, cpsr |-> psr,
   sp |-> [b \in 0..5 |-> 0], lr |-> [b \in 0..5 |-> 0],
   fiq |-> [r \in 8..12 |-> 0], usr |-> [r \in 8..12 |-> 0],
   spsr |-> [b \in 1..5 |-> Psr("User", FALSE, FALSE)],
   flushed |-> FALSE, halted |-> FALSE, pending_swi |-> -1, pipeline |-> <<>>, mem |-> mem]

\* Neighbouring bytes differ, and so do their signs.
Contents == [c \in 0..(SIZE \div 4)-1 |-> Wrap(c * 1237 + 3181)]

Given(q) ==
  Fresh([r \in 0..15 |-> CASE r = 0 -> q.x [] r = 1 -> q.y [] r = 2 -> q.b [] r = 13 -> q.s
                           [] r = 15 -> PC [] OTHER -> 5 * r],
        Psr("System", TRUE, q.c), Contents)
Machines == {Given(q) : q \in [x : Words, y : Words, b : Bases, s : Stacks, c : BOOLEAN]}
-----------------------------------------------------------------------------
(* The ARM form of a Thumb instruction.                                    *)
Number(v) == [by |-> "value", value |-> v, rotate |-> 0]
Amount(r, type, n) == [by |-> "amount", rm |-> r, type |-> type, n |-> n]
Plain(r) == Amount(r, "LSL", 0)
ByRegister(r, type, s) == [by |-> "register", rm |-> r, type |-> type, n |-> s]

Data(op, s, rd, rn, operand) ==
  [kind |-> "data", op |-> op, s |-> s, rd |-> rd, rn |-> rn, operand |-> operand]
Single(kind, i, rn, operand) ==
  [kind |-> kind, size |-> i.size, l |-> i.l, p |-> TRUE, u |-> TRUE, w |-> FALSE,
   rn |-> rn, rd |-> i.rd, operand |-> operand]
Block(l, p, u, rn, list) ==
  [kind |-> "block", l |-> l, p |-> p, u |-> u, s |-> FALSE, w |-> TRUE, rn |-> rn, list |-> list]
Sized(i, size, l) == [size |-> size, l |-> l, rd |-> i.rd]
AddOrSub(sub) == IF sub THEN "SUB" ELSE "ADD"

ArmAlu(i) ==
  CASE i.op \in ShiftTypes -> Data("MOV", TRUE, i.rd, 0, ByRegister(i.rd, i.op, i.rs))
    [] i.op = "NEG" -> Data("RSB", TRUE, i.rd, i.rs, Number(0))
    [] i.op = "MUL" -> [kind |-> "multiply", a |-> FALSE, s |-> TRUE, rd |-> i.rd,
                        rm |-> i.rd, rs |-> i.rs]
    [] OTHER -> Data(i.op, TRUE, i.rd, i.rd, Plain(i.rs))
ArmHigh(i) ==
  CASE i.op = "BX" -> [kind |-> "exchange", rm |-> i.rs]
    [] i.op = "CMP" -> Data("CMP", TRUE, 0, i.rd, Plain(i.rs))
    [] OTHER -> Data(i.op, FALSE, i.rd, i.rd, Plain(i.rs))

ArmOf(i) ==
  CASE i.kind = "shift_imm" -> Data("MOV", TRUE, i.rd, 0, Amount(i.rs, i.type, i.offset))
    [] i.kind = "add_sub_reg" -> Data(AddOrSub(i.sub), TRUE, i.rd, i.rs, Plain(i.rn))
    [] i.kind = "add_sub_imm" -> Data(AddOrSub(i.sub), TRUE, i.rd, i.rs, Number(i.imm))
    [] i.kind = "mov_imm" -> Data("MOV", TRUE, i.rd, 0, Number(i.imm))
    [] i.kind = "cmp_imm" -> Data("CMP", TRUE, 0, i.rd, Number(i.imm))
    [] i.kind = "add_imm" -> Data("ADD", TRUE, i.rd, i.rd, Number(i.imm))
    [] i.kind = "sub_imm" -> Data("SUB", TRUE, i.rd, i.rd, Number(i.imm))
    [] i.kind = "alu" -> ArmAlu(i)
    [] i.kind = "hi_reg_bx" -> ArmHigh(i)
    [] i.kind = "ldr_pc" -> Single("single", Sized(i, "W", TRUE), 15, Number(4 * i.offset))
    [] i.kind = "load_store_reg" ->
         Single(IF i.size \in {"W", "B"} THEN "single" ELSE "halfword", i, i.rb, Plain(i.ro))
    [] i.kind = "load_store_imm" ->
         Single("single", i, i.rb, Number((IF i.size = "B" THEN 1 ELSE 4) * i.offset))
    [] i.kind = "load_store_half" ->
         Single("halfword", Sized(i, "H", i.l), i.rb, Number(2 * i.offset))
    [] i.kind = "load_store_sp" -> Single("single", Sized(i, "W", i.l), 13, Number(4 * i.offset))
    [] i.kind = "load_address" ->
         Data("ADD", FALSE, i.rd, IF i.sp THEN 13 ELSE 15, Number(4 * i.offset))
    [] i.kind = "add_sp" -> Data(AddOrSub(i.negative), FALSE, 13, 13, Number(4 * i.offset))
    [] i.kind = "push" -> Block(FALSE, TRUE, FALSE, 13, i.list \cup (IF i.lr THEN {14} ELSE {}))
    [] i.kind = "pop" -> Block(TRUE, FALSE, TRUE, 13, i.list \cup (IF i.pc THEN {15} ELSE {}))
    [] i.kind = "stmia" -> Block(FALSE, FALSE, TRUE, i.rb, i.list)
    [] i.kind = "ldmia" -> Block(TRUE, FALSE, TRUE, i.rb, i.list)
    [] i.kind \in {"branch", "cond_branch"} ->
         [kind |-> "branch", link |-> FALSE, offset |-> i.offset]
    [] i.kind = "swi" -> [kind |-> "swi", comment |-> i.comment]

(* The Thumb instructions that have an ARM form.  An empty list has one    *)
(* only where it is loaded: STMIA stores the program counter two ahead and *)
(* ARM four, and PUSH and POP move nothing.  The two instructions of a     *)
(* call have no form that is one instruction.                              *)
Low == 0..7
ThumbForms ==
  [kind : {"shift_imm"}, type : {"LSL", "LSR", "ASR"}, rd : Low, rs : Low, offset : 0..W-1]
  \cup [kind : {"add_sub_reg"}, sub : BOOLEAN, rd : Low, rs : Low, rn : Low]
  \cup [kind : {"add_sub_imm"}, sub : BOOLEAN, rd : Low, rs : Low, imm : Nat]
  \cup [kind : {"mov_imm", "cmp_imm", "add_imm", "sub_imm"}, rd : Low, imm : Nat]
  \cup [kind : {"alu"}, rd : Low, rs : Low,
        op : ShiftTypes \cup {"AND", "EOR", "ORR", "BIC", "MVN", "MUL", "TST",
                              "ADC", "SBC", "NEG", "CMP", "CMN"}]
  \cup [kind : {"hi_reg_bx"}, op : {"ADD", "CMP", "MOV", "BX"}, rd : 0..15, rs : 0..15]
  \cup [kind : {"ldr_pc"}, rd : Low, offset : Nat]
  \cup [kind : {"load_store_reg"}, size : {"W", "H", "B"}, l : BOOLEAN, rd : Low, rb : Low, ro : Low]
  \cup [kind : {"load_store_reg"}, size : {"SB", "SH"}, l : {TRUE}, rd : Low, rb : Low, ro : Low]
  \cup [kind : {"load_store_imm"}, size : {"W", "B"}, l : BOOLEAN, rd : Low, rb : Low, offset : Nat]
  \cup [kind : {"load_store_half"}, l : BOOLEAN, rd : Low, rb : Low, offset : Nat]
  \cup [kind : {"load_store_sp"}, l : BOOLEAN, rd : Low, offset : Nat]
  \cup [kind : {"load_address"}, sp : BOOLEAN, rd : Low, offset : Nat]
  \cup [kind : {"add_sp"}, negative : BOOLEAN, offset : Nat]
  \cup [kind : {"push"}, list : SUBSET Low, lr : {TRUE}]
  \cup [kind : {"pop"}, list : SUBSET Low, pc : {TRUE}]
  \cup [kind : {"push"}, list : (SUBSET Low) \ {{}}, lr : {FALSE}]
  \cup [kind : {"pop"}, list : (SUBSET Low) \ {{}}, pc : {FALSE}]
  \cup [kind : {"stmia"}, list : (SUBSET Low) \ {{}}, rb : Low]
  \cup [kind : {"ldmia"}, list : SUBSET Low, rb : Low]
  \cup [kind : {"cond_branch"}, cond : Conditions, offset : Int]
  \cup [kind : {"branch"}, offset : Int] \cup [kind : {"swi"}, comment : Nat]

ASSUME EncodingsAssumption ==
  /\ SIZE \in Nat \ {0} /\ SIZE % 4 = 0 /\ 70 < WORD
  /\ Words \cup Bases \cup Stacks \subseteq Word
  /\ PC \in Word /\ PC % 4 = 0 /\ Instructions \subseteq ThumbForms
-----------------------------------------------------------------------------
EncodingsInit == thumb \in Machines /\ arm = thumb /\ last = Idle

Execute(i) ==
  /\ last = Idle
  /\ thumb' = execute_thumb(thumb, i)
  /\ arm' = IF i.kind = "cond_branch" /\ ~check_condition(arm.cpsr, i.cond) THEN arm
            ELSE execute_arm(arm, ArmOf(i))
  /\ last' = [i |-> i, before |-> thumb]

EncodingsNext == \E i \in Instructions : Execute(i)
EncodingsSpec == EncodingsInit /\ [][EncodingsNext]_encodingVars
-----------------------------------------------------------------------------
(* An instruction does the same in both encodings, to the registers, the   *)
(* flags and the memory, whatever is in the registers: base registers in   *)
(* their own lists, addresses that are not aligned, shifts by nothing, by  *)
(* a word and by more (thumb.rs:89-673, arm.rs:108-587).                   *)
ThumbIsArm == thumb = arm

Exactly(v, c, x) == v + One(c) * WORD = x

(* The flags and the results are those of the numbers: a carry is the digit*)
(* that is left over, an overflow a result that no signed word holds, and  *)
(* after a comparison the conditions tell which number is the greater, as  *)
(* unsigned and as signed (alu.rs:27-193, mod.rs:500-520).                 *)
ArithmeticRight ==
  (last # Idle /\ last.i.kind = "alu") =>
    LET x == last.before.regs[last.i.rd]
        y == last.before.regs[last.i.rs]
        c == One(last.before.cpsr.c)
        v == thumb.regs[last.i.rd]
        Holds(cond) == check_condition(thumb.cpsr, cond)
        Fits(n) == n \in -TOP..TOP-1
    IN  CASE last.i.op = "CMP" ->
               /\ Holds("EQ") = (x = y) /\ Holds("NE") = (x # y)
               /\ Holds("HI") = (x > y) /\ Holds("LS") = (x <= y)
               /\ Holds("CS") = (x >= y) /\ Holds("CC") = (x < y)
               /\ Holds("GT") = (Signed(x) > Signed(y)) /\ Holds("LE") = (Signed(x) <= Signed(y))
               /\ Holds("GE") = (Signed(x) >= Signed(y)) /\ Holds("LT") = (Signed(x) < Signed(y))
          [] last.i.op = "ADC" ->
               /\ Exactly(v, thumb.cpsr.c, x + y + c)
               /\ Holds("VC") = Fits(Signed(x) + Signed(y) + c)
          [] last.i.op = "SBC" ->
               /\ Exactly(v, thumb.cpsr.c, x - y + c + WORD - 1)
               /\ Holds("VC") = Fits(Signed(x) - Signed(y) + c - 1)
          [] last.i.op = "ASR" -> Signed(v) = Signed(x) \div 2^(IF y % 256 > W THEN W ELSE y % 256)
          [] last.i.op = "LSR" -> v = x \div 2^(IF y % 256 > W THEN W ELSE y % 256)
          [] OTHER -> TRUE
=============================================================================
