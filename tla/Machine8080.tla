----------------------------- MODULE Machine8080 -----------------------------
(***************************************************************************)
(* The state of one adc_8080_cpu, the memory its host keeps behind the     *)
(* read_byte and write_byte handlers, and the helpers every instruction is *)
(* built from (adc_8080_cpu.c, "Helper functions and macros").             *)
(*                                                                         *)
(* A C helper that updates the cpu in place is an operator from a machine  *)
(* to the machine after the call.  8 and 16 bit registers wrap as uint8_t  *)
(* and uint16_t do.                                                        *)
(***************************************************************************)
EXTENDS Integers

(***************************************************************************)
(* Here and in the modules that follow, a definition marked "slip:" is one *)
(* a hasty edit of the code could turn the next definition into.  The      *)
(* specification never uses it; it shows which property would notice.      *)
(***************************************************************************)

CONSTANT MemSize  \* Bytes of host memory; an address selects addr % MemSize.

ASSUME MemSizeAssumption == MemSize \in Nat \ {0}

Byte == 0..255
MaxWord == 65535
Word == 0..MaxWord

RegName == {"a", "b", "c", "d", "e", "h", "l"}

\* cfs, cfz, cfa, cfp and cfc.
Flag == {"s", "z", "a", "p", "c"}

Memory == [0..(MemSize - 1) -> Byte]

\* One adc_8080_cpu and the memory of its host.
Machine ==
  [reg : [RegName -> Byte], cf : [Flag -> BOOLEAN], pc : Word, sp : Word,
   halted : BOOLEAN, inte : BOOLEAN, interrupt_pending : BOOLEAN,
   interrupt_opcode : Byte, interrupt_delay : BOOLEAN, cycles : Nat,
   mem : Memory]

-----------------------------------------------------------------------------
(* Bits of a byte, by weight 1, 2, 4, ..., 128.                             *)

Bit(v, weight) == (v \div weight) % 2
FlagBit(b) == IF b THEN 1 ELSE 0
Ones(v) == Bit(v, 1) + Bit(v, 2) + Bit(v, 4) + Bit(v, 8)
             + Bit(v, 16) + Bit(v, 32) + Bit(v, 64) + Bit(v, 128)

\* s_parity_lut, as adc_8080_cpu_init fills it.
Parity(v) == Ones(v) % 2 = 0

WordFromBytes(high, low) == 256 * high + low
High(w) == w \div 256
Low(w) == w % 256
Wrap8(n) == n % 256
Wrap16(n) == n % 65536

-----------------------------------------------------------------------------
(* Memory, through the host's handlers.                                     *)

Cell(addr) == addr % MemSize

ReadByte(m, addr) == m.mem[Cell(addr)]
ReadWord(m, addr) ==
  WordFromBytes(ReadByte(m, Wrap16(addr + 1)), ReadByte(m, addr))
WriteByte(m, addr, b) == [m EXCEPT !.mem[Cell(addr)] = b]
WriteWord(m, addr, w) ==
  WriteByte(WriteByte(m, addr, Low(w)), Wrap16(addr + 1), High(w))

\* next_byte and next_word: the operand at pc, and the machine past it.
NextByte(m) == ReadByte(m, m.pc)
NextWord(m) == ReadWord(m, m.pc)
SkipByte(m) == [m EXCEPT !.pc = Wrap16(m.pc + 1)]
\* slip: past one operand byte only.
SkipWordShort(m) == [m EXCEPT !.pc = Wrap16(m.pc + 1)]
\* slip: without the wrap of uint16_t.
SkipWordWide(m) == [m EXCEPT !.pc = m.pc + 2]
SkipWord(m) == [m EXCEPT !.pc = Wrap16(m.pc + 2)]

-----------------------------------------------------------------------------
(* Register operands, in the numbering the opcodes use.                     *)

Pair(m, hi, lo) == WordFromBytes(m.reg[hi], m.reg[lo])
SetPair(m, hi, lo, w) ==
  [m EXCEPT !.reg = [m.reg EXCEPT ![hi] = High(w), ![lo] = Low(w)]]

HL(m) == Pair(m, "h", "l")
SetHL(m, w) == SetPair(m, "h", "l", w)

\* B, C, D, E, H, L, M (the byte at HL) and A are operands 0 to 7.
RegOf(i) == CASE i = 0 -> "b" [] i = 1 -> "c" [] i = 2 -> "d" [] i = 3 -> "e"
              [] i = 4 -> "h" [] i = 5 -> "l" [] OTHER -> "a"

Get8(m, i) == IF i = 6 THEN ReadByte(m, HL(m)) ELSE m.reg[RegOf(i)]
Set8(m, i, v) ==
  IF i = 6 THEN WriteByte(m, HL(m), v) ELSE [m EXCEPT !.reg[RegOf(i)] = v]

\* BC, DE, HL and SP are pairs 0 to 3.
Get16(m, i) == CASE i = 0 -> Pair(m, "b", "c") [] i = 1 -> Pair(m, "d", "e")
                 [] i = 2 -> HL(m) [] OTHER -> m.sp
Set16(m, i, w) == CASE i = 0 -> SetPair(m, "b", "c", w)
                    [] i = 1 -> SetPair(m, "d", "e", w)
                    [] i = 2 -> SetHL(m, w)
                    [] OTHER -> [m EXCEPT !.sp = w]

-----------------------------------------------------------------------------
(* The stack.                                                               *)

\* slip: without the wrap of uint16_t.
StackPushWide(m, w) ==
  WriteWord([m EXCEPT !.sp = m.sp - 2], m.sp - 2, w)

StackPush(m, w) ==
  LET sp == Wrap16(m.sp - 2) IN WriteWord([m EXCEPT !.sp = sp], sp, w)

\* stack_pop: the word on top, and the machine without it.
StackTop(m) == ReadWord(m, m.sp)
StackDrop(m) == [m EXCEPT !.sp = Wrap16(m.sp + 2)]
=============================================================================
