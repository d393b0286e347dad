-------------------------------- MODULE Alu --------------------------------
(***************************************************************************)
(* The arithmetic of the ARM7TDMI (gba-core/src/arm7tdmi/alu.rs): the      *)
(* barrel shifter, the adder, the flags they make and the conditions that  *)
(* are decided from them, at any word width.                               *)
(***************************************************************************)
EXTENDS Integers

CONSTANT W  \* bits of a word: 32

(* What is said of W is that there are whole bytes, of the powers of two   *)
(* only what is true of all of them.                                       *)
ASSUME WidthAssumption ==
  /\ W \in Nat \ {0} /\ W % 4 = 0
  /\ \A n \in 0..W : 2^n \in Nat \ {0}
  /\ \A n \in 1..W : 2^n = 2 * 2^(n - 1)

WORD == 2^W
Word == 0..WORD-1
TOP == 2^(W-1)
Negative(x) == x >= TOP
Signed(x) == IF Negative(x) THEN x - WORD ELSE x
Wrap(x) == x % WORD
Complement(x) == WORD - 1 - x
Bit(x, n) == (x \div 2^n) % 2 = 1
One(b) == IF b THEN 1 ELSE 0

\* Words bit by bit: &, | and ^.
OfBits(bits) ==
  LET sum[n \in 0..W] == IF n = 0 THEN 0 ELSE sum[n - 1] + One(bits[n - 1]) * 2^(n - 1)
  IN  sum[W]
And(x, y) == OfBits([n \in 0..W-1 |-> Bit(x, n) /\ Bit(y, n)])
Or(x, y) == OfBits([n \in 0..W-1 |-> Bit(x, n) \/ Bit(y, n)])
Xor(x, y) == OfBits([n \in 0..W-1 |-> Bit(x, n) # Bit(y, n)])

ShiftTypes == {"LSL", "LSR", "ASR", "ROR"}
-----------------------------------------------------------------------------
(* The shifter's value and carry.  A shift by an immediate 0 stands for    *)
(* one by a whole word, and ROR for one place through the carry.           *)
Out(v, c) == [value |-> v, carry |-> c]
SignFill(x) == Out(IF Negative(x) THEN WORD - 1 ELSE 0, Negative(x))

shift_lsl(x, n, c) ==
  CASE n = 0 -> Out(x, c)
    [] n \in 1..W-1 -> Out(Wrap(x * 2^n), Bit(x, W - n))
    [] n = W -> Out(0, Bit(x, 0))
    [] OTHER -> Out(0, FALSE)

shift_lsr(x, n, c, immediate) ==
  CASE n = 0 -> IF immediate THEN Out(0, Negative(x)) ELSE Out(x, c)
    [] n \in 1..W-1 -> Out(x \div 2^n, Bit(x, n - 1))
    [] OTHER -> Out(0, n = W /\ Negative(x))

shift_asr(x, n, c, immediate) ==
  CASE n = 0 -> IF immediate THEN SignFill(x) ELSE Out(x, c)
    [] n \in 1..W-1 -> Out(Wrap(Signed(x) \div 2^n), Bit(x, n - 1))
    [] OTHER -> SignFill(x)

rotate_right(x, n) == Wrap(x * 2^(W - n)) + x \div 2^n

shift_ror(x, n, c, immediate) ==
  CASE n = 0 -> IF immediate THEN Out(One(c) * TOP + x \div 2, Bit(x, 0)) ELSE Out(x, c)
    [] OTHER -> LET v == rotate_right(x, n % W) IN Out(v, Negative(v))

barrel_shift(x, type, n, c, immediate) ==
  CASE type = "LSL" -> shift_lsl(x, n, c)
    [] type = "LSR" -> shift_lsr(x, n, c, immediate)
    [] type = "ASR" -> shift_asr(x, n, c, immediate)
    [] type = "ROR" -> shift_ror(x, n, c, immediate)
-----------------------------------------------------------------------------
(* The adder.  The carry of a subtraction means that nothing is borrowed.  *)
add_with_carry(a, b, c) ==
  LET sum == a + b + One(c)
      v == Wrap(sum)
  IN  [value |-> v, carry |-> sum >= WORD,
       overflow |-> Negative(a) = Negative(b) /\ Negative(v) # Negative(a)]

\* Mutant: the carry is taken for a borrow.
sub_with_carry_Borrow(a, b, c) == add_with_carry(a, Complement(b), ~c)
sub_with_carry(a, b, c) == add_with_carry(a, Complement(b), c)

is_test(op) == op \in {"TST", "TEQ", "CMP", "CMN"}
is_logical(op) == op \in {"AND", "EOR", "TST", "TEQ", "ORR", "MOV", "BIC", "MVN"}
AluOps == {"AND", "EOR", "SUB", "RSB", "ADD", "ADC", "SBC", "RSC",
           "TST", "TEQ", "CMP", "CMN", "ORR", "MOV", "BIC", "MVN"}

(* An operation of the data processing instructions, with its flags.       *)
Logical(v, carry, psr) == [value |-> v, carry |-> carry, overflow |-> psr.v]
Compute(op, a, b, shifter_carry, psr) ==
  CASE op \in {"AND", "TST"} -> Logical(And(a, b), shifter_carry, psr)
    [] op \in {"EOR", "TEQ"} -> Logical(Xor(a, b), shifter_carry, psr)
    [] op \in {"SUB", "CMP"} -> sub_with_carry(a, b, TRUE)
    [] op = "RSB" -> sub_with_carry(b, a, TRUE)
    [] op \in {"ADD", "CMN"} -> add_with_carry(a, b, FALSE)
    [] op = "ADC" -> add_with_carry(a, b, psr.c)
    [] op = "SBC" -> sub_with_carry(a, b, psr.c)
    [] op = "RSC" -> sub_with_carry(b, a, psr.c)
    [] op = "ORR" -> Logical(Or(a, b), shifter_carry, psr)
    [] op = "MOV" -> Logical(b, shifter_carry, psr)
    [] op = "BIC" -> Logical(And(a, Complement(b)), shifter_carry, psr)
    [] op = "MVN" -> Logical(Complement(b), shifter_carry, psr)
-----------------------------------------------------------------------------
(* The flags, and the conditions on them.                                  *)
set_nz(psr, x) == [psr EXCEPT !.n = Negative(x), !.z = x = 0]
WithFlags(psr, r) == [set_nz(psr, r.value) EXCEPT !.c = r.carry, !.v = r.overflow]

Conditions == {"EQ", "NE", "CS", "CC", "MI", "PL", "VS", "VC",
               "HI", "LS", "GE", "LT", "GT", "LE", "AL"}
check_condition(psr, cond) ==
  CASE cond = "EQ" -> psr.z
    [] cond = "NE" -> ~psr.z
    [] cond = "CS" -> psr.c
    [] cond = "CC" -> ~psr.c
    [] cond = "MI" -> psr.n
    [] cond = "PL" -> ~psr.n
    [] cond = "VS" -> psr.v
    [] cond = "VC" -> ~psr.v
    [] cond = "HI" -> psr.c /\ ~psr.z
    [] cond = "LS" -> ~psr.c \/ psr.z
    [] cond = "GE" -> psr.n = psr.v
    [] cond = "LT" -> psr.n # psr.v
    [] cond = "GT" -> ~psr.z /\ psr.n = psr.v
    [] cond = "LE" -> psr.z \/ psr.n # psr.v
    [] cond = "AL" -> TRUE
=============================================================================
