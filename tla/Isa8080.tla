------------------------------- MODULE Isa8080 -------------------------------
(***************************************************************************)
(* exec_next of adc_8080_cpu.c: what each of the 256 opcodes does to the   *)
(* machine.  An opcode is 64x + 8y + z; the switch lists every value, the  *)
(* model one definition per family of cases.                               *)
(***************************************************************************)
EXTENDS Alu8080

Y(op) == (op \div 8) % 8
Z(op) == op % 8
P(op) == Y(op) \div 2         \* register pair

-----------------------------------------------------------------------------
(* Families of opcodes.                                                     *)

EI == 251
DI == 243
HLT == 118
IN_ == 219
OUT == 211

\* The top quarter (or bottom quarter) of the opcodes, by column.
Low64(S) == {op \in 0..63 : op % 16 \in S}
Top64(S) == {op \in 192..255 : op % 16 \in S}

LxiOps == Low64({1})
InxOps == Low64({3})
DcxOps == Low64({11})
DadOps == Low64({9})
InrOps == Low64({4, 12})
DcrOps == Low64({5, 13})
MviOps == Low64({6, 14})
MovOps == 64..127 \ {HLT}
AluRegOps == 128..191
AluImmOps == Top64({6, 14})
RetCondOps == Top64({0, 8})
JmpCondOps == Top64({2, 10})
CallCondOps == Top64({4, 12})
PopOps == {193, 209, 225}
PushOps == {197, 213, 229}
RstOps == Top64({7, 15})
JmpOps == {195, 203}
CallOps == {205, 221, 237, 253}
RetOps == {201, 217}

-----------------------------------------------------------------------------
(* s_cycles_lut: the cycles before a taken conditional call or return.      *)

\* Does a MOV or a register ALU operation address memory?
UsesM(op) == Z(op) = 6 \/ op \in 112..119

Cycles(op) ==
  IF op \in 64..191 THEN IF UsesM(op) THEN 7 ELSE IF op < 128 THEN 5 ELSE 4
  ELSE IF op \in {34, 42} THEN 16                               \* SHLD, LHLD
  ELSE IF op \in {50, 58} THEN 13                               \* STA, LDA
  ELSE IF op \in {52, 53, 54} \cup LxiOps \cup DadOps THEN 10   \* and INR M ..
  ELSE IF op \in Low64({3, 4, 5, 11, 12, 13}) THEN 5            \* INX .. DCR
  ELSE IF op \in Low64({2, 6, 10, 14}) \cup AluImmOps THEN 7    \* STAX .. MVI
  ELSE IF op \in 0..63 \cup {235, EI, DI} THEN 4                \* rotates .. XCHG
  ELSE IF op \in {233, 249} \cup RetCondOps THEN 5              \* PCHL, SPHL
  ELSE IF op \in CallCondOps \cup RstOps \cup Top64({5}) THEN 11    \* .. PUSH
  ELSE IF op \in CallOps THEN 17
  ELSE IF op = 227 THEN 18                                      \* XTHL
  ELSE 10                                                       \* POP, jumps, IO

-----------------------------------------------------------------------------
(* Families that share a body.                                              *)

alu(m, y, v) ==
  CASE y = 0 -> op_add(m, v, FALSE)
    [] y = 1 -> op_add(m, v, m.cf["c"])
    [] y = 2 -> op_sub(m, v, FALSE)
    [] y = 3 -> op_sub(m, v, m.cf["c"])
    [] y = 4 -> op_ana(m, v)
    [] y = 5 -> op_xra(m, v)
    [] y = 6 -> op_ora(m, v)
    [] OTHER -> op_cmp(m, v)

\* NZ, Z, NC, C, PO, PE, P and M are conditions 0 to 7.
CondFlag(y) == CASE y \in {0, 1} -> "z" [] y \in {2, 3} -> "c"
                 [] y \in {4, 5} -> "p" [] OTHER -> "s"
Cond(m, y) == m.cf[CondFlag(y)] = (y % 2 = 1)

op_jmp_cond(m, addr, condition) ==
  IF condition THEN [m EXCEPT !.pc = addr] ELSE m
\* slip: pushes the pc after it was set.
op_callLate(m, addr) == StackPush([m EXCEPT !.pc = addr], addr)
op_call(m, addr) == [StackPush(m, m.pc) EXCEPT !.pc = addr]
op_ret(m) == [StackDrop(m) EXCEPT !.pc = StackTop(m)]
op_call_cond(m, addr, condition) ==
  IF condition THEN [op_call(m, addr) EXCEPT !.cycles = @ + 6] ELSE m

\* slip: the six cycles whether or not the return is taken.
op_ret_condFlat(m, condition) ==
  [(IF condition THEN op_ret(m) ELSE m) EXCEPT !.cycles = @ + 6]
op_ret_cond(m, condition) ==
  IF condition THEN [op_ret(m) EXCEPT !.cycles = @ + 6] ELSE m

op_xchg(m) == SetPair(SetHL(m, Pair(m, "d", "e")), "d", "e", HL(m))
op_xthl(m) == SetHL(WriteWord(m, m.sp, HL(m)), StackTop(m))

\* The cases the switch spells out in place.
op_cma(m) == [m EXCEPT !.reg["a"] = 255 - m.reg["a"]]
op_stc(m) == [m EXCEPT !.cf["c"] = TRUE]
op_cmc(m) == [m EXCEPT !.cf["c"] = ~m.cf["c"]]
op_hlt(m) == [m EXCEPT !.halted = TRUE]
op_ei(m) == [m EXCEPT !.inte = TRUE, !.interrupt_delay = TRUE]
op_di(m) == [m EXCEPT !.inte = FALSE]

\* The four loads and stores by address: STAX, SHLD and STA, and back.
store(m, op) ==
  CASE op = 2 -> WriteByte(m, Pair(m, "b", "c"), m.reg["a"])
    [] op = 18 -> WriteByte(m, Pair(m, "d", "e"), m.reg["a"])
    [] op = 34 -> WriteWord(SkipWord(m), NextWord(m), HL(m))
    [] OTHER -> WriteByte(SkipWord(m), NextWord(m), m.reg["a"])
load(m, op) ==
  CASE op = 10 -> [m EXCEPT !.reg["a"] = ReadByte(m, Pair(m, "b", "c"))]
    [] op = 26 -> [m EXCEPT !.reg["a"] = ReadByte(m, Pair(m, "d", "e"))]
    [] op = 42 -> SetHL(SkipWord(m), ReadWord(m, NextWord(m)))
    [] OTHER -> [SkipWord(m) EXCEPT !.reg["a"] = ReadByte(m, NextWord(m))]

-----------------------------------------------------------------------------
(* The quarters of the switch, after the cycle count and the delay.         *)

exec_low(m, op) ==
  LET y == Y(op) IN
  CASE op \in LxiOps -> Set16(SkipWord(m), P(op), NextWord(m))
    [] op \in DadOps -> op_dad(m, Get16(m, P(op)))
    [] op \in InxOps -> Set16(m, P(op), Wrap16(Get16(m, P(op)) + 1))
    [] op \in DcxOps -> Set16(m, P(op), Wrap16(Get16(m, P(op)) - 1))
    [] op \in InrOps -> Set8(inr_flags(m, Get8(m, y)), y, inr(Get8(m, y)))
    [] op \in DcrOps -> Set8(dcr_flags(m, Get8(m, y)), y, dcr(Get8(m, y)))
    [] op \in MviOps -> Set8(SkipByte(m), y, NextByte(m))
    [] op \in Low64({2}) -> store(m, op)
    [] op \in Low64({10}) -> load(m, op)
    [] op = 7 -> op_rlc(m)
    [] op = 15 -> op_rrc(m)
    [] op = 23 -> op_ral(m)
    [] op = 31 -> op_rar(m)
    [] op = 39 -> op_daa(m)
    [] op = 47 -> op_cma(m)
    [] op = 55 -> op_stc(m)
    [] op = 63 -> op_cmc(m)
    [] OTHER -> m                                            \* NOP, *NOP

exec_middle(m, op) ==
  CASE op = HLT -> op_hlt(m)
    [] op \in MovOps -> Set8(m, Y(op), Get8(m, Z(op)))
    [] OTHER -> alu(m, Y(op), Get8(m, Z(op)))

\* Calls, jumps and returns.
exec_branch(m, op) ==
  CASE op \in JmpCondOps -> op_jmp_cond(SkipWord(m), NextWord(m), Cond(m, Y(op)))
    [] op \in CallCondOps -> op_call_cond(SkipWord(m), NextWord(m), Cond(m, Y(op)))
    [] op \in RetCondOps -> op_ret_cond(m, Cond(m, Y(op)))
    [] op \in JmpOps -> [m EXCEPT !.pc = NextWord(m)]
    [] op \in CallOps -> op_call(SkipWord(m), NextWord(m))
    [] op \in RetOps -> op_ret(m)
    [] op \in RstOps -> op_call(m, 8 * Y(op))
    [] OTHER -> [m EXCEPT !.pc = HL(m)]                      \* PCHL

\* in is the byte the host's read_device returns to an IN.
exec_other(m, op, in) ==
  CASE op \in AluImmOps -> alu(SkipByte(m), Y(op), NextByte(m))
    [] op \in PushOps -> StackPush(m, Get16(m, P(op)))
    [] op = 245 -> op_push_psw(m)
    [] op \in PopOps -> Set16(StackDrop(m), P(op), StackTop(m))
    [] op = 241 -> op_pop_psw(m)
    [] op = 235 -> op_xchg(m)
    [] op = 227 -> op_xthl(m)
    [] op = 249 -> [m EXCEPT !.sp = HL(m)]                   \* SPHL
    [] op = EI -> op_ei(m)
    [] op = DI -> op_di(m)
    [] op = IN_ -> [SkipByte(m) EXCEPT !.reg["a"] = in]
    [] OTHER -> SkipByte(m)                                  \* OUT

BranchOps == JmpCondOps \cup CallCondOps \cup RetCondOps \cup JmpOps
               \cup CallOps \cup RetOps \cup RstOps \cup {233}

\* Every instruction starts its cycle count and ends the delay of an EI.
\* slip: the delay is kept.
beginDelayed(m, op) == [m EXCEPT !.cycles = Cycles(op)]
begin(m, op) == [m EXCEPT !.cycles = Cycles(op), !.interrupt_delay = FALSE]

exec_next(m0, op, in) ==
  LET m == begin(m0, op)
  IN CASE op \in 0..63 -> exec_low(m, op)
       [] op \in 64..191 -> exec_middle(m, op)
       [] op \in BranchOps -> exec_branch(m, op)
       [] OTHER -> exec_other(m, op, in)
=============================================================================
