------------------------------- MODULE MCSweep -------------------------------
(***************************************************************************)
(* The instruction set for TLC: from each of a set of machines, Execute of *)
(* Cpu8080 with every opcode in turn, or with DAA alone where the machine  *)
(* is there for its accumulator and operand.                               *)
(***************************************************************************)
EXTENDS Cpu8080, DasmTable8080, FiniteSets

CONSTANTS Samples,  \* The machines to execute every opcode on, as Fetch leaves
                    \* them, and
          Operands  \* those to execute DAA on.

ASSUME SweepAssumption ==
  Samples \cup Operands \subseteq {m \in Machine : m.cycles = 0}

VARIABLES all,     \* Is it every opcode?
          sample,  \* The machine each opcode is executed on.
          tried    \* The opcode executed last, or about to be.

swvars == <<cpu, executing, handed, returned, all, sample, tried>>

DAA == 39
First == IF all THEN 0 ELSE DAA

SweepInit == /\ all \in BOOLEAN
             /\ sample \in IF all THEN Samples ELSE Operands
             /\ cpu = sample
             /\ tried = First
             /\ executing = tried
             /\ handed = "userdata"
             /\ returned = 0

\* Back to the sample, with the next opcode.
Again == /\ executing = NoOp
         /\ tried' = IF all THEN (tried + 1) % 256 ELSE DAA
         /\ executing' = tried'
         /\ cpu' = sample
         /\ UNCHANGED <<handed, returned, all, sample>>

SweepNext == (Execute /\ UNCHANGED <<all, sample, tried>>) \/ Again

SweepSpec == SweepInit /\ [][SweepNext]_swvars

-----------------------------------------------------------------------------
(* Decoder against disassembler.                                            *)

\* The next instruction in the listing, from m with the opcode op fetched.
Falls(m, op) == Wrap16(m.pc + size(op) - 1)

\* Does op branch in m?
Taken(m, op) ==
  \/ op \in JmpOps \cup CallOps \cup RetOps \cup RstOps \cup {233}
  \/ op \in JmpCondOps \cup CallCondOps \cup RetCondOps /\ Cond(m, Y(op))

\* Where op branches to: the last two bytes the listing gives it, the top of
\* the stack, the vector of an RST, or HL.
Target(m, op) ==
  CASE op \in JmpOps \cup JmpCondOps \cup CallOps \cup CallCondOps ->
         ReadWord(m, Wrap16(Falls(m, op) - 2))
    [] op \in RetOps \cup RetCondOps -> StackTop(m)
    [] op \in RstOps -> 8 * Y(op)
    [] OTHER -> HL(m)

Leaves(m, op) == Taken(m, op) /\ op \in CallOps \cup CallCondOps \cup RstOps

Lands(n, m, op) ==
  /\ n.pc = IF Taken(m, op) THEN Target(m, op) ELSE Falls(m, op)
  /\ Leaves(m, op) => StackTop(n) = Falls(m, op)

\* exec_next takes as many operand bytes as s_dasm_lut gives the opcode: an
\* instruction goes on at the next one in the listing, a branch that is not
\* taken too; a branch taken goes to its target, which is the operand where
\* the listing has it, and a call leaves the next instruction on the stack.
LengthsAgree == [][Execute => Lands(cpu', cpu, executing)]_swvars

\* The opcodes whose entry in s_dasm_lut leaves out flags they change: DAA
\* (line 242), CMC (266) and POP PSW (444).
Unlisted == {DAA, 63, 241}

Changed == {f \in Flag : cpu.cf[f] # cpu'.cf[f]}

\* An instruction changes no condition bit that s_dasm_lut does not list.
CondbitsAgree ==
  [][Execute /\ executing \notin Unlisted
       => Changed \subseteq condbits_affected(executing)]_swvars

\* A step costs what its table entry says, and six cycles more exactly when a
\* conditional call or return moved the stack.
CyclesFollowTheBranch ==
  [][Execute =>
       returned' = Cycles(executing)
         + IF executing \in CallCondOps \cup RetCondOps /\ cpu'.sp # cpu.sp
           THEN 6 ELSE 0]_swvars

\* What goes through the stack comes back, wherever the stack wraps: a return
\* finds the pc the call left, and the sp is back; a second XTHL undoes the
\* first, as a second XCHG does.
CallsReturn ==
  /\ LET back == op_ret(op_call(cpu, 56)) IN back.pc = cpu.pc /\ back.sp = cpu.sp
  /\ op_xthl(op_xthl(cpu)) = cpu
  /\ op_xchg(op_xchg(cpu)) = cpu

-----------------------------------------------------------------------------
(* Arithmetic against integers.                                             *)

\* The bits of a byte, by weight.
Weights == {1, 2, 4, 8, 16, 32, 64, 128}
BitsOf(v) == [w \in Weights |-> (v \div w) % 2]

\* A sample before any opcode has been tried on it.
Untried == tried = First /\ executing # NoOp

\* The operand of the B column of the ALU opcodes, and a carry in.
V == cpu.reg["b"]
A == cpu.reg["a"]
C == FlagBit(cpu.cf["c"])

\* The flags of an 8 bit result, with the carry and the nibble carry given.
FlagsOf(v, carry, aux) ==
  [s |-> v > 127, z |-> v = 0, p |-> Cardinality({w \in Weights : BitsOf(v)[w] = 1}) % 2 = 0,
   a |-> aux, c |-> carry]

Outcome(r) == <<r.reg["a"], r.cf>>

\* ADD and ADC are the sum modulo 256 with the carries out of bits 3 and 7;
\* SUB, SBB and CMP are the difference with the borrow as carry and the aux
\* flag set when the low nibble does not borrow.  CMP keeps the accumulator.
\* INR and DCR are ADD 1 and SUB 1 that keep the carry.
ArithmeticIsExact == Untried =>
  /\ \A c \in {0, 1} : LET sum == A + V + c IN
       Outcome(op_add(cpu, V, c = 1))
         = <<sum % 256, FlagsOf(sum % 256, sum > 255, (A % 16) + (V % 16) + c > 15)>>
  /\ \A c \in {0, 1} : LET diff == A - V - c IN
       Outcome(op_sub(cpu, V, c = 1))
         = <<diff % 256, FlagsOf(diff % 256, diff < 0, A % 16 >= (V % 16) + c)>>
  /\ Outcome(op_cmp(cpu, V)) = <<A, op_sub(cpu, V, FALSE).cf>>
  /\ inr_flags(cpu, A).cf = [op_add(cpu, 1, FALSE).cf EXCEPT !["c"] = cpu.cf["c"]]
  /\ dcr_flags(cpu, A).cf = [op_sub(cpu, 1, FALSE).cf EXCEPT !["c"] = cpu.cf["c"]]

IsBcd(v) == v % 16 < 10 /\ v \div 16 < 10
FromBcd(v) == 10 * (v \div 16) + (v % 16)

\* DAA after the addition of two packed decimals gives the packed decimal of
\* their sum, with the hundred in the carry.
DecimalAdjusts ==
  Untried /\ IsBcd(A) /\ IsBcd(V) =>
    LET r == op_daa(op_add(cpu, V, cpu.cf["c"]))
    IN /\ IsBcd(r.reg["a"])
       /\ FromBcd(r.reg["a"]) + 100 * FlagBit(r.cf["c"])
            = FromBcd(A) + FromBcd(V) + C

\* POP PSW restores what PUSH PSW saved: all five flags, the accumulator, sp.
PswRoundTrip ==
  LET back == op_pop_psw(op_push_psw(cpu))
  IN back.cf = cpu.cf /\ back.reg = cpu.reg /\ back.sp = cpu.sp

\* ANA, ORA and XRA are the bitwise operations.  RAR undoes RAL, carry included;
\* RLC and RRC undo each other in the accumulator.
LogicIsBitwise == Untried =>
  LET a == BitsOf(A)  b == BitsOf(V) IN
  /\ BitsOf(op_ana(cpu, V).reg["a"]) = [w \in Weights |-> IF a[w] + b[w] = 2 THEN 1 ELSE 0]
  /\ BitsOf(op_ora(cpu, V).reg["a"]) = [w \in Weights |-> IF a[w] + b[w] > 0 THEN 1 ELSE 0]
  /\ BitsOf(op_xra(cpu, V).reg["a"]) = [w \in Weights |-> IF a[w] # b[w] THEN 1 ELSE 0]
  /\ op_rar(op_ral(cpu)) = cpu
  /\ op_rrc(op_rlc(cpu)).reg = cpu.reg
  /\ op_rlc(op_rrc(cpu)).reg = cpu.reg

-----------------------------------------------------------------------------
(* Values for the runs.                                                     *)

MCMemSize == 32
MCImage == [i \in 0..(MCMemSize - 1) |-> (37 * i + 11) % 256]
MCRequestOps == {207}

Registers(a, b, hl) == [r \in RegName |->
  CASE r = "a" -> a [] r = "b" -> b [] r = "c" -> 3 [] r = "d" -> 254
    [] r = "e" -> 128 [] r = "h" -> High(hl) [] OTHER -> Low(hl)]

Sample(reg, on, pc, sp) ==
  [Initialised(TRUE) EXCEPT !.reg = reg, !.pc = pc, !.sp = sp,
                            !.cf = [f \in Flag |-> f \in on]]

\* Every opcode, at the ends of the address space, under the conditions that
\* take and do not take each branch.
IsaSamples ==
  {Sample(Registers(a, 255, hl), on, pc, sp) :
     a \in {0, 149}, hl \in {4660, 65535},
     on \in {{}, Flag, {"s", "p"}, {"z", "c"}},
     pc \in {100, 65534, 65535}, sp \in {0, 1, 200}}

\* Every accumulator with every packed decimal and the bytes at the edges of
\* a nibble, of the sign and of the range, and both carries.
AluSamples ==
  {Sample(Registers(a, v, 4660), on, 100, 0) :
     a \in Byte, v \in {n \in Byte : IsBcd(n)} \cup {10, 15, 127, 128, 240, 254, 255},
     on \in {{}, {"c", "a"}}}
=============================================================================
