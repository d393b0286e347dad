------------------------------- MODULE MCCpu -------------------------------
(***************************************************************************)
(* Small instances of the CPU.  One behaviour is about the arithmetic and  *)
(* the two encodings, about the register banks, or about a program that is *)
(* interrupted.                                                            *)
(***************************************************************************)
EXTENDS Encodings, Banks, Cpu

VARIABLE stage

OneStart == {CHOOSE s \in Machines : TRUE}
PartsInit ==
  /\ stage \in {"encodings", "banks", "program"}
  /\ EncodingsInit /\ (stage # "encodings" => thumb \in OneStart)
  /\ BanksInit /\ CpuInit
Encode == stage = "encodings" /\ EncodingsNext /\ UNCHANGED <<stage, banksVars, cpuVars>>
Bank == stage = "banks" /\ BanksNext /\ UNCHANGED <<stage, encodingVars, cpuVars>>
Program == stage = "program" /\ CpuNext /\ UNCHANGED <<stage, encodingVars, banksVars>>
PartsNext == Encode \/ Bank \/ Program

partsVars == <<stage, encodingVars, banksVars, cpuVars>>
PartsSpec == PartsInit /\ [][PartsNext]_partsVars
-----------------------------------------------------------------------------
SomeInstructions ==
  [kind : {"shift_imm"}, type : {"LSL", "LSR", "ASR"}, rd : {1}, rs : {0}, offset : {0, 1, W - 1}]
  \cup [kind : {"add_sub_reg"}, sub : BOOLEAN, rd : {3}, rs : {0}, rn : {1}]
  \cup [kind : {"add_sub_imm"}, sub : BOOLEAN, rd : {3}, rs : {0}, imm : {0, 7}]
  \cup [kind : {"mov_imm", "cmp_imm", "add_imm", "sub_imm"}, rd : {0}, imm : {0, 9}]
  \cup [kind : {"alu"}, rd : {0}, rs : {1},
        op : ShiftTypes \cup {"AND", "EOR", "ORR", "BIC", "MVN", "MUL", "TST", "ADC", "SBC", "NEG", "CMP", "CMN"}]
  \cup [kind : {"hi_reg_bx"}, op : {"ADD", "CMP", "MOV", "BX"}, rd : {8, 15}, rs : {0, 15}]
  \cup [kind : {"ldr_pc"}, rd : {0}, offset : {2}]
  \cup [kind : {"load_store_reg"}, size : {"W", "H", "B"}, l : BOOLEAN, rd : {0, 2}, rb : {2}, ro : {3}]
  \cup [kind : {"load_store_reg"}, size : {"SB", "SH"}, l : {TRUE}, rd : {0, 2}, rb : {2}, ro : {3}]
  \cup [kind : {"load_store_imm"}, size : {"W", "B"}, l : BOOLEAN, rd : {0, 2}, rb : {2}, offset : {1}]
  \cup [kind : {"load_store_half"}, l : BOOLEAN, rd : {0, 2}, rb : {2}, offset : {0, 3}]
  \cup [kind : {"load_store_sp"}, l : BOOLEAN, rd : {0}, offset : {1}]
  \cup [kind : {"load_address"}, sp : BOOLEAN, rd : {0}, offset : {3}]
  \cup [kind : {"add_sp"}, negative : BOOLEAN, offset : {3}]
  \cup [kind : {"push"}, list : {{}, {0, 2, 3}}, lr : {TRUE}]
  \cup [kind : {"pop"}, list : {{}, {0, 2, 3}}, pc : {TRUE}]
  \cup [kind : {"push"}, list : {{2}}, lr : {FALSE}] \cup [kind : {"pop"}, list : {{2}}, pc : {FALSE}]
  \cup [kind : {"stmia"}, list : {{0, 1}, {0, 2}, {2, 3}}, rb : {2}]
  \cup [kind : {"ldmia"}, list : {{}, {0, 1}, {0, 2}, {2, 3}}, rb : {2}]
  \cup [kind : {"cond_branch"}, cond : Conditions, offset : {-8}]
  \cup [kind : {"branch"}, offset : {-8}] \cup [kind : {"swi"}, comment : {6}]
-----------------------------------------------------------------------------
SomeStatus == {StatusOf("System", FALSE), StatusOf("Fiq", TRUE)}
-----------------------------------------------------------------------------
(* A program in both instruction sets, with calls, flags that live across  *)
(* instructions, registers of other modes and two services, and a handler  *)
(* that lets itself be interrupted, in System mode, as games' do.          *)
Always(i) == i @@ [cond |-> "AL"]
When(c, i) == i @@ [cond |-> c]
Op(op, s, rd, rn, v) == Always(Data(op, s, rd, rn, Number(v)))
Placed(base, n, code) == [a \in {base + n * k : k \in 0..Len(code)-1} |-> code[((a - base) \div n) + 1]]
Msr(is_spsr, fields, operand) ==
  Always([kind |-> "msr", spsr |-> is_spsr, fields |-> fields, operand |-> operand])
Mrs(is_spsr, rd) == Always([kind |-> "mrs", spsr |-> is_spsr, rd |-> rd])
Bx(r) == Always([kind |-> "exchange", rm |-> r])
Word1(l, rd, rn) ==
  Always([kind |-> "single", size |-> "W", l |-> l, p |-> TRUE, u |-> TRUE, w |-> FALSE,
          rn |-> rn, rd |-> rd, operand |-> Number(0)])
Jump(link, offset) == Always([kind |-> "branch", link |-> link, offset |-> offset])

Main == Placed(256, 4, <<
  Op("MOV", FALSE, 0, 0, 21),                 \* 256
  Op("SUB", TRUE, 1, 0, 21),                  \* 260: zero, and carry
  When("NE", Data("MOV", FALSE, 0, 0, Number(1))),
  Always(Data("ADC", TRUE, 1, 1, Number(3))), \* 268
  Stack(FALSE, {0, 1}),                       \* 272
  Op("ADD", FALSE, 12, 15, 9),                \* 276: 293
  Bx(12),                                     \* 280
  Op("MOV", FALSE, 0, 0, 77)>>)               \* 284: is skipped
Back == Placed(312, 4, <<
  Msr(FALSE, {"c"}, Number(3)),               \* 312: Supervisor
  Op("MOV", FALSE, 14, 0, 5),
  Msr(FALSE, {"c"}, Number(1)),               \* 320: FIQ
  Op("ADD", FALSE, 12, 14, 6),
  Msr(FALSE, {"c"}, Number(7)),               \* 328: System
  Jump(TRUE, 8),                              \* 332: call 348
  Stack(TRUE, {0, 1}),                        \* 336
  Jump(FALSE, 256 - 348),                     \* 340
  Nop,
  Op("MOV", FALSE, 3, 14, 0),                 \* 348
  Bx(14)>>)
Handler == Placed(400, 4, <<
  Mrs(TRUE, 1),                               \* 400
  Stack(FALSE, {1, 14}),
  Msr(FALSE, {"c"}, Number(7)),               \* 408: System, interrupts on
  Stack(FALSE, {14}),
  Op("MOV", FALSE, 0, 0, IO_BASE + 8),        \* 416
  Word1(TRUE, 1, 0),
  Op("ADD", TRUE, 1, 1, 1),
  Word1(FALSE, 1, 0),                         \* 428
  Jump(TRUE, 0),                              \* 432: call 440, LR 436
  Nop,
  Stack(TRUE, {14}),                          \* 440
  Msr(FALSE, {"c"}, Number(18)),              \* 444: IRQ, interrupts off
  Stack(TRUE, {1, 14}),
  Msr(TRUE, {"c", "f"}, Plain(1)),
  Bx(14)>>)
SomeArm == Main @@ Back @@ Handler

SomeThumb ==
  Placed(292, 2, <<
    [kind |-> "push", list |-> {0}, lr |-> TRUE],
    [kind |-> "cmp_imm", rd |-> 0, imm |-> 21],
    [kind |-> "cond_branch", cond |-> "EQ", offset |-> 0], \* 296: to 300
    [kind |-> "mov_imm", rd |-> 0, imm |-> 1],
    [kind |-> "bl_prefix", offset |-> 0],                 \* 300
    [kind |-> "bl_suffix", offset |-> 500 - 304],
    [kind |-> "pop", list |-> {2, 3}, pc |-> FALSE],      \* 304
    [kind |-> "swi", comment |-> 6],
    [kind |-> "hi_reg_bx", op |-> "BX", rd |-> 0, rs |-> 15]>>)
  @@ Placed(500, 2, <<
    [kind |-> "shift_imm", type |-> "LSR", rd |-> 1, rs |-> 0, offset |-> 1],
    [kind |-> "alu", op |-> "ADC", rd |-> 0, rs |-> 1],
    [kind |-> "load_store_sp", l |-> FALSE, rd |-> 0, offset |-> 1],
    [kind |-> "swi", comment |-> 2],
    [kind |-> "hi_reg_bx", op |-> "BX", rd |-> 0, rs |-> 14]>>)

SomeBoot ==
  [Fresh([r \in 0..15 |-> CASE r = 13 -> 1064 [] r = 15 -> 256 [] OTHER -> 0],
         Psr("System", FALSE, FALSE), [[c \in 0..31 |-> 0] EXCEPT ![31] = 400])
     EXCEPT !.flushed = TRUE, !.sp = [@ EXCEPT ![2] = 1144]]
(* With a BIOS image, whose services return at once.                       *)
WithBios ==
  Placed(256, 4, <<Always([kind |-> "swi", comment |-> 25]), Op("MOV", FALSE, 0, 0, 1),
                   Op("MOV", FALSE, 1, 0, 2), Op("MOV", FALSE, 2, 0, 3)>>)
  @@ 8 :> Always(Data("MOV", TRUE, 15, 0, Plain(14)))

SomeScratch == {2} \cup 11..30
SomeStack == 3..10
=============================================================================
