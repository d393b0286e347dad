-------------------------------- MODULE Cpu --------------------------------
(***************************************************************************)
(* The step of the CPU (gba-core/src/arm7tdmi/mod.rs): the pipeline, the   *)
(* entry to an interrupt, one instruction, and after it the run loop's     *)
(* share (lib.rs): software interrupts and the end of a halt.              *)
(*                                                                         *)
(* A program runs that knows nothing of interrupts, and they come at any   *)
(* instruction.  A second machine, the ghost, runs it without them.        *)
(***************************************************************************)
EXTENDS Thumb, Sequences, TLC

CONSTANTS
  ArmCode, ThumbCode,  \* the guest, and a BIOS image: instructions by address
  Boot,                \* the machine at its start
  IO_BASE,             \* 0x04000000: RAM repeats below it
  HAS_BIOS,            \* was a BIOS image given?
  Returns,             \* the addresses of the last instructions of handlers
  Scratch, StackCells, \* cells that the handler works on; the program's stack
  MaxInterrupts, MaxDepth \* bounds

VARIABLES
  cpu, ghost,
  depth,  \* history: exceptions entered and not left
  taken   \* interrupts so far

cpuVars == <<cpu, ghost, depth, taken>>

ASSUME CpuAssumption == MaxInterrupts \in Nat /\ MaxDepth \in Nat

None == -1
Nop == [kind |-> "none", cond |-> "AL"]
-----------------------------------------------------------------------------
(* Without a BIOS image its place holds the handler that leads to the      *)
(* guest's, by the address in the last word of RAM.                        *)
Operand(v) == [by |-> "value", value |-> v, rotate |-> 0]
Saved == {0, 1, 2, 3, 12, 14}
Stack(l, list) ==
  [kind |-> "block", cond |-> "AL", l |-> l, p |-> ~l, u |-> l, s |-> FALSE, w |-> TRUE,
   rn |-> 13, list |-> list]
Datum(op, s, rd, rn, v) ==
  [kind |-> "data", cond |-> "AL", op |-> op, s |-> s, rd |-> rd, rn |-> rn, operand |-> Operand(v)]
make_hle_bios ==
  24 :> Stack(FALSE, Saved) @@ 28 :> Datum("MOV", FALSE, 0, 0, IO_BASE)
  @@ 32 :> Datum("ADD", FALSE, 14, 15, 0)
  @@ 36 :> [kind |-> "single", cond |-> "AL", size |-> "W", l |-> TRUE, p |-> TRUE, u |-> FALSE,
            w |-> FALSE, rn |-> 0, rd |-> 15, operand |-> Operand(4)]
  @@ 40 :> Stack(TRUE, Saved) @@ 44 :> Datum("SUB", TRUE, 15, 14, 4)

ArmProgram == IF HAS_BIOS THEN ArmCode ELSE ArmCode @@ make_hle_bios
fetch(pc, is_thumb) ==
  LET code == IF is_thumb THEN ThumbCode ELSE ArmProgram
  IN  IF pc \in DOMAIN code THEN code[pc] ELSE Nop
-----------------------------------------------------------------------------
(* The pipeline: the instruction at hand and the next, with the program    *)
(* counter two ahead, or, after a branch, nothing and the target.          *)
Length(is_thumb) == IF is_thumb THEN 2 ELSE 4
Ahead(m) == 2 * Length(m.cpsr.thumb)

refill_pipeline(m) ==
  LET n == Length(m.cpsr.thumb)
      pc == m.regs[15] - (m.regs[15] % n)
  IN  [m EXCEPT !.pipeline = <<fetch(pc, m.cpsr.thumb), fetch(Wrap(pc + n), m.cpsr.thumb)>>,
                !.regs[15] = Wrap(pc + 2 * n), !.flushed = FALSE]
Refilled(m) == IF m.flushed THEN refill_pipeline(m) ELSE m

advance_pipeline(m, is_thumb) ==
  [m EXCEPT !.pipeline = <<@[2], fetch(m.regs[15], is_thumb)>>,
            !.regs[15] = Wrap(@ + Length(is_thumb))]
Advanced(m, is_thumb) == IF m.flushed THEN m ELSE advance_pipeline(m, is_thumb)

step_thumb(m) == Advanced(execute_thumb(m, m.pipeline[1]), TRUE)
step_arm(m) ==
  Advanced(IF check_condition(m.cpsr, m.pipeline[1].cond)
           THEN execute_arm(m, m.pipeline[1]) ELSE m, FALSE)

(* Exceptions.                                                             *)
handle_interrupt(m) ==
  Enter(m, "Irq", IF m.cpsr.thumb THEN m.regs[15] ELSE Wrap(m.regs[15] - 4), 24)
software_interrupt(m) ==
  Enter(m, "Supervisor", Wrap(m.regs[15] - Length(m.cpsr.thumb)), 8)

Takes(m, pending) == pending /\ ~m.cpsr.irq_disabled
Awake(m, pending) ==
  LET filled == Refilled(m)
  IN  IF Takes(filled, pending) THEN [handle_interrupt(filled) EXCEPT !.halted = FALSE] ELSE filled

\* Mutant: the interrupt is taken before the pipeline is refilled.
step_Early(m, pending) ==
  LET awake == IF Takes(m, pending) THEN [handle_interrupt(m) EXCEPT !.halted = FALSE] ELSE Refilled(m)
      ready == Refilled(awake)
  IN  IF awake.halted THEN awake
      ELSE IF ready.cpsr.thumb THEN step_thumb(ready) ELSE step_arm(ready)
step(m, pending) ==
  LET awake == Awake(m, pending)
      ready == Refilled(awake)
  IN  IF awake.halted THEN awake
      ELSE IF ready.cpsr.thumb THEN step_thumb(ready) ELSE step_arm(ready)
-----------------------------------------------------------------------------
(* The run loop: without a BIOS image its services are the emulator's, of  *)
(* which the guest here uses Halt and Div.                                 *)
Magnitude(x) == IF x < 0 THEN -x ELSE x
Divided(m) ==
  LET n == Signed(m.regs[0])
      d == Signed(m.regs[1])
      q == (Magnitude(n) \div Magnitude(d)) * (IF (n < 0) = (d < 0) THEN 1 ELSE -1)
  IN  [m EXCEPT !.regs = [@ EXCEPT ![0] = Wrap(q), ![1] = Wrap(n - q * d), ![3] = Magnitude(q)]]
Serve(m) ==
  CASE m.pending_swi = 2 -> [m EXCEPT !.halted = TRUE]
    [] m.pending_swi = 6 /\ m.regs[1] # 0 -> Divided(m)
    [] OTHER -> m
Swi(m, has_bios) ==
  IF m.pending_swi = None THEN m
  ELSE [IF has_bios THEN software_interrupt(m) ELSE Serve(m) EXCEPT !.pending_swi = None]
OneInstruction(m, pending, has_bios) == Swi(step(m, pending), has_bios)

\* The address of the next instruction.
Next1(m) ==
  IF m.flushed THEN m.regs[15] - (m.regs[15] % Length(m.cpsr.thumb)) ELSE Wrap(m.regs[15] - Ahead(m))
Enters(m, pending) == Takes(Refilled(m), pending)

Interrupt ==
  /\ Enters(cpu, TRUE)
  /\ taken < MaxInterrupts /\ depth < MaxDepth
  /\ cpu' = OneInstruction(cpu, TRUE, HAS_BIOS)
  /\ ghost' = [ghost EXCEPT !.halted = FALSE]
  /\ depth' = depth + 1 /\ taken' = taken + 1

RunProgram ==
  /\ ~cpu.halted
  /\ cpu' = OneInstruction(cpu, FALSE, HAS_BIOS)
  /\ ghost' = IF depth = 0 THEN OneInstruction(ghost, FALSE, FALSE) ELSE ghost
  /\ depth' = IF Next1(cpu) \in Returns THEN depth - 1
              ELSE IF cpu'.cpsr.mode = "Supervisor" /\ cpu'.regs[15] = 8 /\ cpu'.flushed THEN depth + 1
              ELSE depth
  /\ UNCHANGED taken

(* A halted CPU goes on when an enabled interrupt is there, though it may  *)
(* not take it.                                                            *)
Wake ==
  /\ cpu.halted
  /\ cpu' = [cpu EXCEPT !.halted = FALSE] /\ ghost' = [ghost EXCEPT !.halted = FALSE]
  /\ UNCHANGED <<depth, taken>>

CpuInit == cpu = Boot /\ ghost = Boot /\ depth = 0 /\ taken = 0
CpuNext == Interrupt \/ RunProgram \/ Wake
CpuSpec == CpuInit /\ [][CpuNext]_cpuVars
-----------------------------------------------------------------------------
(* What a program can see: the registers of every mode but the link of IRQ *)
(* mode, where it is, and memory, but for the handler's and what lies      *)
(* below its stack pointer.                                                *)
Visible(m) ==
  [low |-> [r \in 0..7 |-> m.regs[r]],
   file |-> [p \in Physical \ {<<"Irq", 14>>} |-> Lies(m, p[1], p[2])],
   spsr |-> [b \in 1..5 \ {2} |-> m.spsr[b]],
   status |-> m.cpsr, pc |-> Next1(m), halted |-> m.halted,
   mem |-> [c \in DOMAIN m.mem \ Scratch |->
              IF c \in StackCells /\ 4 * c < Lies(m, "User", 13) % SIZE THEN 0 ELSE m.mem[c]]]

(* Interrupts are transparent: whatever instruction they come at, in       *)
(* either instruction set, right after a branch or in the middle of a call,*)
(* in a mode with registers of its own or while one interrupt is being     *)
(* served, when the last handler has returned the program is where it      *)
(* would be without them, with the same registers, flags and memory        *)
(* (mod.rs:227-497, 523-680; bus/mod.rs:1287-1306).                        *)
Transparent == depth = 0 => Visible(cpu) = Visible(ghost)

(* "Real BIOS: trigger the SWI exception normally" (lib.rs): from a BIOS   *)
(* service that returns at once the program comes back to the instruction  *)
(* after its SWI.                                                          *)
SwiReturns == depth = 0 => Next1(cpu) = Next1(ghost)
=============================================================================
