---------------------------- MODULE Cpu8080_proofs ----------------------------
(***************************************************************************)
(* Cpu8080 for every host.  First the instructions: every helper keeps a   *)
(* machine a machine, none touches the members that hold the interrupt and *)
(* halt state, and what the stack and the flags mean.  Then the steps: the *)
(* types, the inductive invariant of the halt and interrupt state, the     *)
(* step properties, and that the cpu implements InterruptLine8080.         *)
(***************************************************************************)
EXTENDS Cpu8080, TLAPS

\* n is a machine with the interrupt and halt state of m.
Quiet(n, m) ==
  /\ n \in Machine
  /\ n.halted = m.halted
  /\ n.inte = m.inte
  /\ n.interrupt_pending = m.interrupt_pending
  /\ n.interrupt_opcode = m.interrupt_opcode
  /\ n.interrupt_delay = m.interrupt_delay

\* The bounds of a word are stated once, here, with MaxWord hidden: the
\* provers are slow on an interval that ends in a literal of five digits.
LEMMA Interval ==
  ASSUME NEW n \in Int
  PROVE  \A w : w \in 0..n <=> w \in Int /\ 0 <= w /\ w <= n
  BY SMT

LEMMA WordRange == \A w : w \in Word <=> w \in Int /\ 0 <= w /\ w <= 65535
<1>1. MaxWord \in Int
  BY SMT DEF MaxWord
<1>2. \A w : w \in Word <=> w \in Int /\ 0 <= w /\ w <= MaxWord
  BY <1>1, Interval, Zenon DEF Word
<1> QED
  BY <1>2, SMT DEF MaxWord

LEMMA ByteIsInt == \A v \in Byte : v \in Int /\ 0 <= v /\ v <= 255
  BY SMT DEF Byte

\* Bits are bits.
LEMMA BitType ==
  ASSUME NEW v \in Int, NEW w \in {1, 2, 4, 8, 16, 32, 64, 128}
  PROVE  Bit(v, w) \in {0, 1}
<1>1. v \div w \in Int
  BY SMT
<1> DEFINE q == v \div w
<1> HIDE DEF q
<1>2. q % 2 \in {0, 1}
  BY <1>1, SMT DEF q
<1> QED
  BY <1>2, SMT DEF Bit, q

LEMMA FlagBitType == \A b \in BOOLEAN : FlagBit(b) \in {0, 1}
  BY DEF FlagBit

\* Bytes make words and words make bytes.
LEMMA WordType == \A h, l \in Byte : WordFromBytes(h, l) \in Word
<1>1. \A h, l \in Byte : /\ 256 * h + l \in Int
                         /\ 0 <= 256 * h + l /\ 256 * h + l <= 65535
  BY ByteIsInt, SMT
<1> QED
  BY <1>1, WordRange, SMT DEF WordFromBytes

LEMMA BytesType ==
  ASSUME NEW w \in Word
  PROVE  High(w) \in Byte /\ Low(w) \in Byte
<1>1. w \in Int /\ 0 <= w /\ w <= 65535
  BY WordRange
<1>2. w \div 256 \in Int /\ 0 <= w \div 256 /\ w \div 256 <= 255
  BY <1>1
<1>3. w % 256 \in Int /\ 0 <= w % 256 /\ w % 256 <= 255
  BY <1>1
<1> QED
  BY <1>2, <1>3 DEF High, Low, Byte

LEMMA WrapType == \A n \in Int : Wrap8(n) \in Byte /\ Wrap16(n) \in Word
<1>1. \A n \in Int : n % 256 \in Int /\ 0 <= n % 256 /\ n % 256 <= 255
  BY SMT
<1>2. \A n \in Int : n % 65536 \in Int /\ 0 <= n % 65536 /\ n % 65536 <= 65535
  BY SMT
<1> QED
  BY <1>1, <1>2, WordRange, SMT DEF Wrap8, Wrap16, Byte

LEMMA WordIsInt == \A w \in Word : w \in Int /\ w + 1 \in Int /\ w + 2 \in Int
                                     /\ w - 1 \in Int /\ w - 2 \in Int
  BY WordRange, SMT

\* Two down and two up is where it was.
LEMMA WrapBack ==
  ASSUME NEW w \in Word
  PROVE  Wrap16(Wrap16(w - 2) + 2) = w
<1>1. w \in Int /\ 0 <= w /\ w <= 65535
  BY WordRange
<1>2. CASE w >= 2
  <2>1. (w - 2) % 65536 = w - 2
    BY <1>1, <1>2
  <2>2. w % 65536 = w
    BY <1>1
  <2> QED BY <1>1, <2>1, <2>2 DEF Wrap16
<1>3. CASE w < 2
  <2>1. (w - 2) % 65536 = w + 65534
    BY <1>1, <1>3
  <2>2. (w + 65536) % 65536 = w
    BY <1>1
  <2> QED BY <1>1, <2>1, <2>2 DEF Wrap16
<1> QED
  BY <1>1, <1>2, <1>3

\* A word splits into the bytes it is made from.
LEMMA WordSplits ==
  \A h, l \in Byte : High(WordFromBytes(h, l)) = h /\ Low(WordFromBytes(h, l)) = l
  BY ByteIsInt, SMT DEF High, Low, WordFromBytes

LEMMA WordJoins == \A w \in Word : WordFromBytes(High(w), Low(w)) = w
  BY WordRange, SMT DEF High, Low, WordFromBytes

LEMMA CellType == \A addr \in Int : Cell(addr) \in 0..(MemSize - 1)
  BY MemSizeAssumption, Z3 DEF Cell

-----------------------------------------------------------------------------
(* One assignment to each kind of member.                                   *)

LEMMA SetRegQuiet ==
  ASSUME NEW m \in Machine, NEW r \in RegName, NEW v \in Byte
  PROVE  Quiet([m EXCEPT !.reg[r] = v], m)
  BY DEF Quiet, Machine

LEMMA SetFlagsQuiet ==
  ASSUME NEW m \in Machine, NEW f \in [Flag -> BOOLEAN]
  PROVE  Quiet([m EXCEPT !.cf = f], m)
  BY DEF Quiet, Machine

LEMMA SetFlagQuiet ==
  ASSUME NEW m \in Machine, NEW x \in Flag, NEW b \in BOOLEAN
  PROVE  Quiet([m EXCEPT !.cf[x] = b], m)
  BY DEF Quiet, Machine

LEMMA SetPcQuiet ==
  ASSUME NEW m \in Machine, NEW w \in Word
  PROVE  Quiet([m EXCEPT !.pc = w], m)
  BY DEF Quiet, Machine

LEMMA SetSpQuiet ==
  ASSUME NEW m \in Machine, NEW w \in Word
  PROVE  Quiet([m EXCEPT !.sp = w], m)
  BY DEF Quiet, Machine

LEMMA SetCyclesQuiet ==
  ASSUME NEW m \in Machine, NEW n \in Nat
  PROVE  Quiet([m EXCEPT !.cycles = n], m)
  BY DEF Quiet, Machine

LEMMA QuietTrans ==
  ASSUME NEW m \in Machine, NEW n, NEW k, Quiet(n, m), Quiet(k, n)
  PROVE  Quiet(k, m)
  BY DEF Quiet

LEMMA QuietRefl == \A m \in Machine : Quiet(m, m)
  BY DEF Quiet

LEMMA QuietType == \A n, m : Quiet(n, m) => n \in Machine
  BY DEF Quiet

LEMMA MembersType ==
  ASSUME NEW m \in Machine
  PROVE  /\ m.pc \in Word /\ m.sp \in Word
         /\ \A r \in RegName : m.reg[r] \in Byte
         /\ \A f \in Flag : m.cf[f] \in BOOLEAN
         /\ m.cf \in [Flag -> BOOLEAN]
         /\ m.reg \in [RegName -> Byte]
         /\ m.mem \in [0..(MemSize - 1) -> Byte]
  BY DEF Machine, Memory

-----------------------------------------------------------------------------
(* Memory.                                                                  *)

LEMMA ReadByteType ==
  ASSUME NEW m \in Machine, NEW addr \in Int
  PROVE  ReadByte(m, addr) \in Byte
  BY MembersType, CellType DEF ReadByte

LEMMA ReadWordType ==
  ASSUME NEW m \in Machine, NEW addr \in Word
  PROVE  ReadWord(m, addr) \in Word
<1>1. addr \in Int /\ Wrap16(addr + 1) \in Int
  BY WrapType, WordIsInt
<1>2. ReadByte(m, Wrap16(addr + 1)) \in Byte /\ ReadByte(m, addr) \in Byte
  BY <1>1, ReadByteType
<1> QED
  BY <1>2, WordType DEF ReadWord

LEMMA WriteByteQuiet ==
  ASSUME NEW m \in Machine, NEW addr \in Int, NEW b \in Byte
  PROVE  Quiet(WriteByte(m, addr, b), m)
<1> DEFINE c == Cell(addr)
<1>1. c \in 0..(MemSize - 1)
  BY CellType
<1>2. Quiet([m EXCEPT !.mem[c] = b], m)
  <2> HIDE DEF c
  <2> QED BY <1>1 DEF Quiet, Machine, Memory
<1> QED
  BY <1>2 DEF WriteByte

LEMMA WriteWordQuiet ==
  ASSUME NEW m \in Machine, NEW addr \in Int, NEW w \in Word
  PROVE  Quiet(WriteWord(m, addr, w), m)
<1> DEFINE n == WriteByte(m, addr, Low(w))
<1>1. Low(w) \in Byte /\ High(w) \in Byte
  BY BytesType
<1>2. Quiet(n, m) /\ n \in Machine
  BY <1>1, WriteByteQuiet, QuietType
<1>3. Wrap16(addr + 1) \in Int
  BY WrapType, WordIsInt
<1> HIDE DEF n
<1>4. Quiet(WriteByte(n, Wrap16(addr + 1), High(w)), n)
  BY <1>1, <1>2, <1>3, WriteByteQuiet
<1> QED
  BY <1>2, <1>4, QuietTrans DEF WriteWord, n

LEMMA NextType ==
  ASSUME NEW m \in Machine
  PROVE  NextByte(m) \in Byte /\ NextWord(m) \in Word
  BY MembersType, WordIsInt, ReadByteType, ReadWordType DEF NextByte, NextWord

LEMMA SkipQuiet ==
  ASSUME NEW m \in Machine
  PROVE  Quiet(SkipByte(m), m) /\ Quiet(SkipWord(m), m)
<1>1. Wrap16(m.pc + 1) \in Word /\ Wrap16(m.pc + 2) \in Word
  BY MembersType, WordIsInt, WrapType
<1> QED
  BY <1>1, SetPcQuiet DEF SkipByte, SkipWord

-----------------------------------------------------------------------------
(* Register operands.                                                       *)

LEMMA PairType ==
  ASSUME NEW m \in Machine, NEW hi \in RegName, NEW lo \in RegName
  PROVE  Pair(m, hi, lo) \in Word
  BY MembersType, WordType DEF Pair

LEMMA HLType == \A m \in Machine : HL(m) \in Word
  BY PairType DEF HL, RegName

LEMMA SetPairQuiet ==
  ASSUME NEW m \in Machine, NEW hi \in RegName, NEW lo \in RegName, NEW w \in Word
  PROVE  Quiet(SetPair(m, hi, lo, w), m)
<1> DEFINE reg == [m.reg EXCEPT ![hi] = High(w), ![lo] = Low(w)]
<1>1. reg \in [RegName -> Byte]
  BY MembersType, BytesType
<1>2. Quiet([m EXCEPT !.reg = reg], m)
  <2> HIDE DEF reg
  <2> QED BY <1>1 DEF Quiet, Machine
<1> QED
  BY <1>2 DEF SetPair

LEMMA SetHLQuiet ==
  ASSUME NEW m \in Machine, NEW w \in Word
  PROVE  Quiet(SetHL(m, w), m)
  BY SetPairQuiet DEF SetHL, RegName

LEMMA RegOfType == \A i : RegOf(i) \in RegName
  BY DEF RegOf, RegName

LEMMA Get8Type ==
  ASSUME NEW m \in Machine, NEW i
  PROVE  Get8(m, i) \in Byte
<1>1. HL(m) \in Int
  BY HLType, WordIsInt
<1> QED
  BY <1>1, ReadByteType, RegOfType, MembersType DEF Get8

LEMMA Set8Quiet ==
  ASSUME NEW m \in Machine, NEW i, NEW v \in Byte
  PROVE  Quiet(Set8(m, i, v), m)
<1>1. HL(m) \in Int
  BY HLType, WordIsInt
<1>2. CASE i = 6
  BY <1>1, <1>2, WriteByteQuiet DEF Set8
<1>3. CASE i # 6
  <2>1. Quiet([m EXCEPT !.reg[RegOf(i)] = v], m)
    BY RegOfType, SetRegQuiet
  <2> QED BY <1>3, <2>1 DEF Set8
<1> QED
  BY <1>2, <1>3

LEMMA Get16Type ==
  ASSUME NEW m \in Machine, NEW i
  PROVE  Get16(m, i) \in Word
<1>1. Pair(m, "b", "c") \in Word /\ Pair(m, "d", "e") \in Word
  BY PairType DEF RegName
<1> QED
  BY <1>1, HLType, MembersType DEF Get16

LEMMA Set16Quiet ==
  ASSUME NEW m \in Machine, NEW i, NEW w \in Word
  PROVE  Quiet(Set16(m, i, w), m)
<1>1. Quiet(SetPair(m, "b", "c", w), m) /\ Quiet(SetPair(m, "d", "e", w), m)
  BY SetPairQuiet DEF RegName
<1>2. Quiet(SetHL(m, w), m) /\ Quiet([m EXCEPT !.sp = w], m)
  BY SetHLQuiet, SetSpQuiet
<1> QED
  BY <1>1, <1>2 DEF Set16

-----------------------------------------------------------------------------
(* The stack.                                                               *)

LEMMA StackPushQuiet ==
  ASSUME NEW m \in Machine, NEW w \in Word
  PROVE  Quiet(StackPush(m, w), m)
<1> DEFINE sp == Wrap16(m.sp - 2)
           n == [m EXCEPT !.sp = sp]
<1>1. sp \in Word /\ sp \in Int
  BY MembersType, WordIsInt, WrapType
<1>2. Quiet(n, m) /\ n \in Machine
  BY <1>1, SetSpQuiet, QuietType
<1> HIDE DEF n, sp
<1>3. Quiet(WriteWord(n, sp, w), n)
  BY <1>1, <1>2, WriteWordQuiet
<1> QED
  BY <1>2, <1>3, QuietTrans DEF StackPush, n, sp

LEMMA StackPopQuiet ==
  ASSUME NEW m \in Machine
  PROVE  StackTop(m) \in Word /\ Quiet(StackDrop(m), m)
<1>1. Wrap16(m.sp + 2) \in Word
  BY MembersType, WordIsInt, WrapType
<1> QED
  BY <1>1, MembersType, ReadWordType, SetSpQuiet DEF StackTop, StackDrop

\* A push moves sp and writes the two bytes above it.
LEMMA PushIs ==
  ASSUME NEW m \in Machine, NEW w \in Word,
         NEW sp, sp = Wrap16(m.sp - 2), NEW lo, lo = Cell(sp),
         NEW hi, hi = Cell(Wrap16(sp + 1))
  PROVE  LET n == StackPush(m, w) IN
         /\ n.sp = sp
         /\ n.mem = [m.mem EXCEPT ![lo] = Low(w), ![hi] = High(w)]
         /\ n.reg = m.reg /\ n.cf = m.cf /\ n.pc = m.pc
<1> DEFINE n == [m EXCEPT !.sp = sp]
<1>1. sp \in Word
  BY MembersType, WordIsInt, WrapType
<1>2. n \in Machine /\ n.mem = m.mem /\ n.sp = sp
  BY <1>1 DEF Machine
<1>3. WriteByte(n, sp, Low(w)) = [n EXCEPT !.mem = [m.mem EXCEPT ![lo] = Low(w)]]
  BY <1>2 DEF WriteByte
<1> DEFINE k == WriteByte(n, sp, Low(w))
<1>4. k.mem = [m.mem EXCEPT ![lo] = Low(w)]
  BY <1>2, <1>3 DEF Machine
<1>5. WriteByte(k, Wrap16(sp + 1), High(w))
        = [k EXCEPT !.mem = [k.mem EXCEPT ![hi] = High(w)]]
  BY DEF WriteByte
<1>6. @ = [n EXCEPT !.mem = [m.mem EXCEPT ![lo] = Low(w), ![hi] = High(w)]]
  BY <1>2, <1>3, <1>4 DEF Machine
<1>7. StackPush(m, w) = [n EXCEPT !.mem = [m.mem EXCEPT ![lo] = Low(w), ![hi] = High(w)]]
  BY <1>5, <1>6 DEF StackPush, WriteWord
<1> QED
  BY <1>7, <1>2 DEF n, Machine

\* What is pushed is what is popped, and sp is back where it was, wherever
\* the stack wraps: for any host that keeps neighbouring addresses in
\* different cells.
THEOREM StackRoundTrip ==
  ASSUME NEW m \in Machine, NEW w \in Word,
         \A a \in Word : Cell(a) # Cell(Wrap16(a + 1))
  PROVE  /\ StackTop(StackPush(m, w)) = w
         /\ StackDrop(StackPush(m, w)).sp = m.sp
<1> DEFINE sp == Wrap16(m.sp - 2)
           lo == Cell(sp)
           hi == Cell(Wrap16(sp + 1))
<1>1. sp \in Word /\ m.sp \in Word /\ sp \in Int /\ Wrap16(sp + 1) \in Int
  BY MembersType, WordIsInt, WrapType
<1>2. lo # hi /\ lo \in 0..(MemSize - 1) /\ hi \in 0..(MemSize - 1)
  BY <1>1, CellType
<1>3. /\ StackPush(m, w).sp = sp
      /\ StackPush(m, w).mem = [m.mem EXCEPT ![lo] = Low(w), ![hi] = High(w)]
  BY PushIs
<1>4. /\ StackPush(m, w).sp = sp
      /\ StackPush(m, w).mem[lo] = Low(w)
      /\ StackPush(m, w).mem[hi] = High(w)
  <2> HIDE DEF lo, hi, sp
  <2> QED BY <1>2, <1>3, MembersType DEF Machine
<1>5. StackTop(StackPush(m, w)) = w
  BY <1>4, WordJoins DEF StackTop, ReadWord, ReadByte
<1>6. StackDrop(StackPush(m, w)).sp = Wrap16(sp + 2)
  <2> HIDE DEF sp
  <2>1. Quiet(StackPush(m, w), m)
    BY StackPushQuiet
  <2> QED BY <1>4, <2>1 DEF StackDrop, Quiet, Machine
<1>7. Wrap16(sp + 2) = m.sp
  BY <1>1, WrapBack
<1> QED
  BY <1>5, <1>6, <1>7

\* Cells are apart in the memory the test harness gives the cpu, one byte for
\* every address.
THEOREM FullMemoryCells ==
  MemSize = 65536 => \A a \in Word : Cell(a) # Cell(Wrap16(a + 1))
  BY WordRange, SMT DEF Cell, Wrap16

-----------------------------------------------------------------------------
(* The arithmetic helpers.                                                  *)

LEMMA ZSPType ==
  ASSUME NEW f \in [Flag -> BOOLEAN], NEW v \in Int
  PROVE  ZSP(f, v) \in [Flag -> BOOLEAN]
<1>1. Parity(v) \in BOOLEAN /\ (v >= 128) \in BOOLEAN /\ (v = 0) \in BOOLEAN
  BY DEF Parity
<1> DEFINE p == Parity(v)
<1> HIDE DEF p
<1> QED
  BY <1>1 DEF ZSP, Flag, p

LEMMA SetRegFlagsQuiet ==
  ASSUME NEW m \in Machine, NEW v \in Byte, NEW f \in [Flag -> BOOLEAN]
  PROVE  Quiet([m EXCEPT !.reg["a"] = v, !.cf = f], m)
  BY DEF Quiet, Machine, RegName

LEMMA SetRegCarryQuiet ==
  ASSUME NEW m \in Machine, NEW v \in Byte, NEW b \in BOOLEAN
  PROVE  Quiet([m EXCEPT !.reg["a"] = v, !.cf["c"] = b], m)
  BY DEF Quiet, Machine, RegName, Flag

LEMMA ResultQuiet ==
  ASSUME NEW m \in Machine, NEW v \in Byte, NEW aux \in BOOLEAN, NEW carry \in BOOLEAN
  PROVE  Quiet(Result(m, v, aux, carry), m)
<1> DEFINE f == [m.cf EXCEPT !["a"] = aux, !["c"] = carry]
<1>1. f \in [Flag -> BOOLEAN]
  BY MembersType DEF Flag
<1>2. ZSP(f, v) \in [Flag -> BOOLEAN]
  BY <1>1, ZSPType, ByteIsInt
<1> HIDE DEF f
<1>3. Quiet([m EXCEPT !.reg["a"] = v, !.cf = ZSP(f, v)], m)
  BY <1>2, SetRegFlagsQuiet
<1> QED
  BY <1>3 DEF Result, f

\* The two kinds of flag update that keep the accumulator.
LEMMA FlagsOnlyQuiet ==
  ASSUME NEW m \in Machine, NEW v \in Byte, NEW aux \in BOOLEAN, NEW carry \in BOOLEAN
  PROVE  /\ Quiet([m EXCEPT !.cf = ZSP([m.cf EXCEPT !["a"] = aux], v)], m)
         /\ Quiet([m EXCEPT !.cf = ZSP([m.cf EXCEPT !["a"] = aux, !["c"] = carry], v)], m)
<1> DEFINE f == [m.cf EXCEPT !["a"] = aux]
           g == [m.cf EXCEPT !["a"] = aux, !["c"] = carry]
<1>1. f \in [Flag -> BOOLEAN] /\ g \in [Flag -> BOOLEAN]
  BY MembersType DEF Flag
<1>2. ZSP(f, v) \in [Flag -> BOOLEAN] /\ ZSP(g, v) \in [Flag -> BOOLEAN]
  BY <1>1, ZSPType, ByteIsInt
<1> HIDE DEF f, g
<1>3. Quiet([m EXCEPT !.cf = ZSP(f, v)], m) /\ Quiet([m EXCEPT !.cf = ZSP(g, v)], m)
  BY <1>2, SetFlagsQuiet
<1> QED
  BY <1>3 DEF f, g

LEMMA CountQuiet ==
  ASSUME NEW m \in Machine, NEW v \in Byte
  PROVE  /\ inr(v) \in Byte /\ Quiet(inr_flags(m, v), m)
         /\ dcr(v) \in Byte /\ Quiet(dcr_flags(m, v), m)
<1>1. inr(v) \in Byte /\ dcr(v) \in Byte
  BY WrapType, ByteIsInt DEF inr, dcr
<1> QED
  BY <1>1, FlagsOnlyQuiet DEF inr_flags, dcr_flags

LEMMA AddQuiet ==
  ASSUME NEW m \in Machine, NEW v \in Byte, NEW c \in BOOLEAN
  PROVE  Quiet(op_add(m, v, c), m)
<1>1. m.reg["a"] + v + FlagBit(c) \in Int
  BY MembersType, FlagBitType, ByteIsInt, SMTT(60) DEF RegName
<1> DEFINE sres == m.reg["a"] + v + FlagBit(c)
           aux == (Bit(sres, 16) + Bit(m.reg["a"], 16) + Bit(v, 16)) % 2 = 1
           carry == sres > 255
<1>2. Wrap8(sres) \in Byte
  BY <1>1, WrapType
<1>3. aux \in BOOLEAN /\ carry \in BOOLEAN
  OBVIOUS
<1>4. op_add(m, v, c) = Result(m, Wrap8(sres), aux, carry)
  BY DEF op_add
<1> HIDE DEF sres, aux, carry
<1> QED
  BY <1>2, <1>3, <1>4, ResultQuiet

LEMMA SubQuiet ==
  ASSUME NEW m \in Machine, NEW v \in Byte, NEW c \in BOOLEAN
  PROVE  Quiet(op_sub(m, v, c), m)
<1> DEFINE r == op_add(m, 255 - v, ~c)
<1>1. Quiet(r, m) /\ r \in Machine
  <2>1. 255 - v \in Byte
    BY DEF Byte
  <2> QED BY <2>1, AddQuiet, QuietType, ZenonT(60)
<1> HIDE DEF r
<1>2. Quiet([r EXCEPT !.cf["c"] = ~r.cf["c"]], r)
  BY <1>1, SetFlagQuiet DEF Flag
<1> QED
  BY <1>1, <1>2, QuietTrans DEF op_sub, r

-----------------------------------------------------------------------------
(* Bitwise operations.                                                      *)

\* Eight bits make a byte.
LEMMA BitsMakeByte ==
  ASSUME NEW b1 \in {0, 1}, NEW b2 \in {0, 1}, NEW b4 \in {0, 1}, NEW b8 \in {0, 1},
         NEW b16 \in {0, 1}, NEW b32 \in {0, 1}, NEW b64 \in {0, 1}, NEW b128 \in {0, 1}
  PROVE  b1 + 2 * b2 + 4 * b4 + 8 * b8 + 16 * b16 + 32 * b32 + 64 * b64 + 128 * b128
           \in Byte
  BY DEF Byte

LEMMA BitOpType ==
  \A b, c \in {0, 1} : /\ BitAnd(b, c) \in {0, 1}
                       /\ BitOr(b, c) \in {0, 1}
                       /\ BitXor(b, c) \in {0, 1}
  BY DEF BitAnd, BitOr, BitXor

\* And8, Or8 and Xor8 of bytes are bytes.
LEMMA LogicType ==
  ASSUME NEW x \in Byte, NEW y \in Byte
  PROVE  And8(x, y) \in Byte /\ Or8(x, y) \in Byte /\ Xor8(x, y) \in Byte
<1>1. \A w \in {1, 2, 4, 8, 16, 32, 64, 128} : Bit(x, w) \in {0, 1} /\ Bit(y, w) \in {0, 1}
  BY BitType, ByteIsInt
<1>2. BitByBit(BitAnd, x, y) \in Byte
  BY <1>1, BitOpType, BitsMakeByte DEF BitByBit
<1>3. BitByBit(BitOr, x, y) \in Byte
  BY <1>1, BitOpType, BitsMakeByte DEF BitByBit
<1>4. BitByBit(BitXor, x, y) \in Byte
  BY <1>1, BitOpType, BitsMakeByte DEF BitByBit
<1> QED
  BY <1>2, <1>3, <1>4 DEF And8, Or8, Xor8

LEMMA LogicQuiet ==
  ASSUME NEW m \in Machine, NEW v \in Byte
  PROVE  Quiet(op_ana(m, v), m) /\ Quiet(op_xra(m, v), m) /\ Quiet(op_ora(m, v), m)
<1> DEFINE a == m.reg["a"]
           aux == Bit(a, 8) = 1 \/ Bit(v, 8) = 1
<1>1. And8(a, v) \in Byte /\ Or8(a, v) \in Byte /\ Xor8(a, v) \in Byte
  BY MembersType, LogicType DEF RegName
<1>2. aux \in BOOLEAN
  OBVIOUS
<1>3. op_ana(m, v) = Result(m, And8(a, v), aux, FALSE)
  BY DEF op_ana
<1> HIDE DEF aux
<1> QED
  BY <1>1, <1>2, <1>3, ResultQuiet DEF op_xra, op_ora

LEMMA CmpQuiet ==
  ASSUME NEW m \in Machine, NEW v \in Byte
  PROVE  Quiet(op_cmp(m, v), m)
<1> DEFINE a == m.reg["a"]
           res == a - v
           aux == (Bit(a, 16) + Bit(Wrap8(res), 16) + Bit(v, 16)) % 2 = 0
           carry == res < 0
<1>1. Wrap8(res) \in Byte
  BY MembersType, ByteIsInt, WrapType, SMTT(60) DEF RegName
<1>2. aux \in BOOLEAN /\ carry \in BOOLEAN
  OBVIOUS
<1>3. op_cmp(m, v) = [m EXCEPT !.cf = ZSP([m.cf EXCEPT !["a"] = aux, !["c"] = carry],
                                          Wrap8(res))]
  BY DEF op_cmp
<1> HIDE DEF res, aux, carry
<1> QED
  BY <1>1, <1>2, <1>3, FlagsOnlyQuiet, ZenonT(60)

LEMMA DadQuiet ==
  ASSUME NEW m \in Machine, NEW w \in Word
  PROVE  Quiet(op_dad(m, w), m)
<1> DEFINE carry == HL(m) + w > 65535
           n == [m EXCEPT !.cf["c"] = carry]
<1>1. carry \in BOOLEAN
  OBVIOUS
<1>2. Wrap16(HL(m) + w) \in Word
  BY HLType, WordIsInt, WrapType
<1> HIDE DEF carry
<1>3. Quiet(n, m) /\ n \in Machine
  BY <1>1, SetFlagQuiet, QuietType DEF Flag
<1> HIDE DEF n
<1>4. Quiet(SetHL(n, Wrap16(HL(m) + w)), n)
  BY <1>2, <1>3, SetHLQuiet
<1> QED
  BY <1>3, <1>4, QuietTrans DEF op_dad, n, carry

-----------------------------------------------------------------------------
(* Rotates.                                                                 *)

LEMMA ShiftType ==
  ASSUME NEW v \in Byte, NEW b \in {0, 1}
  PROVE  ShiftLeft(v, b) \in Byte /\ ShiftRight(v, b) \in Byte
  BY DEF ShiftLeft, ShiftRight, Byte

LEMMA RotatedQuiet ==
  ASSUME NEW m \in Machine, NEW v \in Byte, NEW b, NEW c
  PROVE  Quiet(Rotated(m, v, b = c), m)
<1> DEFINE carry == b = c
<1>1. carry \in BOOLEAN
  OBVIOUS
<1> HIDE DEF carry
<1>2. Quiet(Rotated(m, v, carry), m)
  BY <1>1, SetRegCarryQuiet DEF Rotated
<1> QED
  BY <1>2 DEF carry

LEMMA RotateQuiet ==
  ASSUME NEW m \in Machine
  PROVE  /\ Quiet(op_rlc(m), m) /\ Quiet(op_rrc(m), m)
         /\ Quiet(op_ral(m), m) /\ Quiet(op_rar(m), m)
<1> DEFINE a == m.reg["a"]
<1>1. a \in Byte /\ Bit(a, 1) \in {0, 1} /\ Bit(a, 128) \in {0, 1}
  BY MembersType, BitType, ByteIsInt DEF RegName
<1>2. FlagBit(m.cf["c"]) \in {0, 1}
  BY MembersType, FlagBitType DEF Flag
<1>3. /\ ShiftLeft(a, Bit(a, 128)) \in Byte
      /\ ShiftRight(a, Bit(a, 1)) \in Byte
      /\ ShiftLeft(a, FlagBit(m.cf["c"])) \in Byte
      /\ ShiftRight(a, FlagBit(m.cf["c"])) \in Byte
  BY <1>1, <1>2, ShiftType
<1> QED
  BY <1>3, RotatedQuiet, ZenonT(60) DEF op_rlc, op_rrc, op_ral, op_rar

-----------------------------------------------------------------------------
(* The program status word and the decimal adjustment.                      *)

LEMMA PswType ==
  ASSUME NEW f \in [Flag -> BOOLEAN]
  PROVE  Psw(f) \in Byte
<1>1. \A x \in Flag : FlagBit(f[x]) \in {0, 1}
  BY FlagBitType
<1> QED
  BY <1>1 DEF Psw, Flag, Byte

LEMMA PushPswQuiet ==
  ASSUME NEW m \in Machine
  PROVE  Quiet(op_push_psw(m), m)
<1>1. WordFromBytes(m.reg["a"], Psw(m.cf)) \in Word
  BY MembersType, PswType, WordType DEF RegName
<1> QED
  BY <1>1, StackPushQuiet DEF op_push_psw

LEMMA PopPswQuiet ==
  ASSUME NEW m \in Machine
  PROVE  Quiet(op_pop_psw(m), m)
<1> DEFINE w == StackTop(m)
           weight == [s |-> 128, z |-> 64, a |-> 16, p |-> 4, c |-> 1]
           f == [x \in Flag |-> Bit(Low(w), weight[x]) = 1]
           n == StackDrop(m)
<1>1. Quiet(n, m) /\ n \in Machine /\ High(w) \in Byte
  BY StackPopQuiet, QuietType, BytesType
<1>2. f \in [Flag -> BOOLEAN]
  OBVIOUS
<1>3. op_pop_psw(m) = [n EXCEPT !.reg["a"] = High(w), !.cf = f]
  BY DEF op_pop_psw
<1> HIDE DEF n, f, w
<1>4. Quiet([n EXCEPT !.reg["a"] = High(w), !.cf = f], n)
  BY <1>1, <1>2, SetRegFlagsQuiet
<1> QED
  BY <1>1, <1>3, <1>4, QuietTrans

LEMMA DaaQuiet ==
  ASSUME NEW m \in Machine
  PROVE  Quiet(op_daa(m), m)
<1> DEFINE addition == (IF daa_low(m) THEN 6 ELSE 0) + (IF daa_high(m) THEN 96 ELSE 0)
           r == op_add(m, addition, FALSE)
           carry == m.cf["c"] \/ daa_high(m)
<1>1. addition \in Byte
  BY DEF Byte
<1>2. carry \in BOOLEAN
  OBVIOUS
<1>3. op_daa(m) = [r EXCEPT !.cf["c"] = carry]
  BY DEF op_daa
<1> HIDE DEF addition, carry
<1>4. Quiet(r, m) /\ r \in Machine
  BY <1>1, AddQuiet, QuietType
<1> HIDE DEF r
<1>5. Quiet([r EXCEPT !.cf["c"] = carry], r)
  BY <1>2, <1>4, SetFlagQuiet DEF Flag
<1>6. Quiet([r EXCEPT !.cf["c"] = carry], m)
  BY <1>4, <1>5, QuietTrans
<1> QED
  BY <1>3, <1>6

-----------------------------------------------------------------------------
(* What the flags mean.                                                     *)

\* PSW bits 7, 6, 4, 2 and 0 are the flags s, z, a, p and c.
LEMMA PswBits ==
  ASSUME NEW f \in [Flag -> BOOLEAN]
  PROVE  /\ (Bit(Psw(f), 128) = 1) = f["s"]
         /\ (Bit(Psw(f), 64) = 1) = f["z"]
         /\ (Bit(Psw(f), 16) = 1) = f["a"]
         /\ (Bit(Psw(f), 4) = 1) = f["p"]
         /\ (Bit(Psw(f), 1) = 1) = f["c"]
<1>1. PICK s \in {0, 1}, z \in {0, 1}, a \in {0, 1}, p \in {0, 1}, c \in {0, 1} :
        /\ s = FlagBit(f["s"]) /\ z = FlagBit(f["z"]) /\ a = FlagBit(f["a"])
        /\ p = FlagBit(f["p"]) /\ c = FlagBit(f["c"])
  BY FlagBitType DEF Flag
<1>2. Psw(f) = 128 * s + 64 * z + 16 * a + 4 * p + 2 + c
  BY <1>1 DEF Psw
<1>3. /\ Bit(Psw(f), 128) = s
      /\ Bit(Psw(f), 64) = z
      /\ Bit(Psw(f), 16) = a
      /\ Bit(Psw(f), 4) = p
      /\ Bit(Psw(f), 1) = c
  BY <1>2 DEF Bit
<1>4. \A x \in Flag : f[x] = (FlagBit(f[x]) = 1)
  BY DEF FlagBit
<1> QED
  BY <1>1, <1>3, <1>4 DEF Flag

\* POP PSW gives back the registers and the five flags PUSH PSW saved, and the
\* sp, for every host that keeps neighbouring addresses apart.
THEOREM PswRestored ==
  ASSUME NEW m \in Machine,
         \A a \in Word : Cell(a) # Cell(Wrap16(a + 1))
  PROVE  LET back == op_pop_psw(op_push_psw(m))
         IN back.cf = m.cf /\ back.reg = m.reg /\ back.sp = m.sp
<1> DEFINE w == WordFromBytes(m.reg["a"], Psw(m.cf))
           n == StackPush(m, w)
           back == op_pop_psw(n)
           weight == [s |-> 128, z |-> 64, a |-> 16, p |-> 4, c |-> 1]
           f == [x \in Flag |-> Bit(Psw(m.cf), weight[x]) = 1]
<1>1. m.reg["a"] \in Byte /\ Psw(m.cf) \in Byte /\ m.cf \in [Flag -> BOOLEAN]
  BY MembersType, PswType DEF RegName
<1>2. w \in Word /\ High(w) = m.reg["a"] /\ Low(w) = Psw(m.cf)
  BY <1>1, WordType, WordSplits
<1>3. StackTop(n) = w /\ StackDrop(n).sp = m.sp
  BY <1>2, StackRoundTrip
<1>4. n \in Machine /\ StackDrop(n) \in Machine
  BY <1>2, StackPushQuiet, StackPopQuiet, QuietType
<1>5. back = [StackDrop(n) EXCEPT !.reg["a"] = High(w), !.cf = f]
  BY <1>2, <1>3, ZenonT(60) DEF op_pop_psw
<1>6. f = m.cf
  BY <1>1, PswBits DEF Flag
<1> HIDE DEF f, n, w
<1>7. back.cf = f /\ back.sp = StackDrop(n).sp
      /\ back.reg = [StackDrop(n).reg EXCEPT !["a"] = High(w)]
  BY <1>4, <1>5 DEF Machine
<1>8. StackDrop(n).reg = m.reg
  <2>1. n.reg = m.reg
    BY DEF n, StackPush, WriteWord, WriteByte, Machine
  <2> QED BY <1>4, <2>1 DEF StackDrop, Machine
<1>9. [m.reg EXCEPT !["a"] = High(w)] = m.reg
  BY <1>2, MembersType
<1> QED
  BY <1>2, <1>3, <1>6, <1>7, <1>8, <1>9 DEF op_push_psw, n, w

LEMMA Complement ==
  ASSUME NEW v \in Byte
  PROVE  255 - v \in Byte /\ Bit(255 - v, 16) = 1 - Bit(v, 16)
  BY DEF Bit, Byte

LEMMA ZSPCarry ==
  ASSUME NEW f \in [Flag -> BOOLEAN], NEW v, NEW x \in BOOLEAN, NEW c \in BOOLEAN,
         NEW g, g = ZSP([f EXCEPT !["a"] = x, !["c"] = c], v)
  PROVE  [g EXCEPT !["c"] = ~g["c"]] = ZSP([f EXCEPT !["a"] = x, !["c"] = ~c], v)
<1> DEFINE s == v >= 128
           z == v = 0
           p == Parity(v)
<1>1. /\ ZSP([f EXCEPT !["a"] = x, !["c"] = c], v)
            = [f EXCEPT !["a"] = x, !["c"] = c, !["s"] = s, !["z"] = z, !["p"] = p]
      /\ ZSP([f EXCEPT !["a"] = x, !["c"] = ~c], v)
            = [f EXCEPT !["a"] = x, !["c"] = ~c, !["s"] = s, !["z"] = z, !["p"] = p]
  BY DEF ZSP
<1> HIDE DEF s, z, p
<1>2. g["c"] = c
  BY <1>1 DEF Flag
<1> QED
  BY <1>1, <1>2, ZenonT(60) DEF Flag

\* CMP sets every flag as SUB does: a 16 bit difference on the one side, the
\* sum with the complement on the other.
THEOREM CompareIsSubtract ==
  ASSUME NEW m \in Machine, NEW v \in Byte
  PROVE  op_cmp(m, v).cf = op_sub(m, v, FALSE).cf
<1> DEFINE a == m.reg["a"]
           res == a - v
           sres == a + (255 - v) + 1
           b == Wrap8(res)
           aux == (Bit(a, 16) + Bit(b, 16) + Bit(v, 16)) % 2 = 0
           aux2 == (Bit(sres, 16) + Bit(a, 16) + Bit(255 - v, 16)) % 2 = 1
<1>1. a \in Byte /\ a \in Int /\ v \in Int /\ 0 <= a /\ a <= 255 /\ 0 <= v /\ v <= 255
  BY MembersType, ByteIsInt DEF RegName
<1>2. Wrap8(sres) = b
  BY <1>1 DEF Wrap8
<1>3. Bit(sres, 16) = Bit(b, 16)
  BY <1>1 DEF Wrap8, Bit
<1>4. (sres > 255) = ~(res < 0)
  BY <1>1
<1>5. aux = aux2
  <2>0. b \in Int
    BY <1>1 DEF Wrap8
  <2> HIDE DEF b
  <2>1. Bit(a, 16) \in {0, 1} /\ Bit(b, 16) \in {0, 1} /\ Bit(v, 16) \in {0, 1}
    BY <1>1, <2>0, BitType
  <2> QED BY <2>1, <1>3, Complement
<1> HIDE DEF aux, aux2, b
<1>6. op_cmp(m, v).cf = ZSP([m.cf EXCEPT !["a"] = aux, !["c"] = res < 0], b)
  BY DEF op_cmp, Machine, aux, b
<1> DEFINE r == op_add(m, 255 - v, TRUE)
<1>7. r.cf = ZSP([m.cf EXCEPT !["a"] = aux2, !["c"] = sres > 255], b)
  <2>1. FlagBit(TRUE) = 1
    BY DEF FlagBit
  <2>2. r = Result(m, b, aux2, sres > 255)
    BY <2>1, <1>2, ZenonT(60) DEF op_add, aux2
  <2> HIDE DEF r
  <2> QED BY <2>2 DEF Result, Machine
<1> DEFINE over == sres > 255
           under == res < 0
<1>8. op_sub(m, v, FALSE).cf = [r.cf EXCEPT !["c"] = ~r.cf["c"]]
  <2>1. r \in Machine
    BY Complement, AddQuiet, QuietType, ZenonT(60)
  <2> HIDE DEF r
  <2> QED BY <2>1, ZenonT(60) DEF op_sub, r, Machine
<1>9. over \in BOOLEAN /\ aux2 \in BOOLEAN /\ m.cf \in [Flag -> BOOLEAN] /\ under = ~over
  BY <1>4, MembersType DEF aux2
<1>10. r.cf = ZSP([m.cf EXCEPT !["a"] = aux2, !["c"] = over], b)
  BY <1>7
<1> HIDE DEF r, over
<1>11. [r.cf EXCEPT !["c"] = ~r.cf["c"]] = ZSP([m.cf EXCEPT !["a"] = aux2, !["c"] = ~over], b)
  BY <1>9, <1>10, ZSPCarry
<1>12. op_cmp(m, v).cf = ZSP([m.cf EXCEPT !["a"] = aux, !["c"] = under], b)
  BY <1>6
<1> HIDE DEF under
<1> QED
  BY <1>5, <1>8, <1>9, <1>11, <1>12

-----------------------------------------------------------------------------
(* The families of exec_next.  All but EI, DI and HLT are quiet.            *)

LEMMA YType == \A op \in Byte : Y(op) \in 0..7 /\ 8 * Y(op) \in Word
<1>1. \A op \in Byte : /\ (op \div 8) % 8 \in 0..7
                      /\ 8 * ((op \div 8) % 8) \in Int
                      /\ 0 <= 8 * ((op \div 8) % 8) /\ 8 * ((op \div 8) % 8) <= 65535
  BY ByteIsInt, SMT
<1> QED
  BY <1>1, WordRange, SMT DEF Y

LEMMA CyclesType == \A op \in Byte : Cycles(op) \in Nat
  BY DEF Cycles

LEMMA AluQuiet ==
  ASSUME NEW m \in Machine, NEW y, NEW v \in Byte
  PROVE  Quiet(alu(m, y, v), m)
<1>1. m.cf["c"] \in BOOLEAN
  BY MembersType DEF Flag
<1> DEFINE c == m.cf["c"]
<1> HIDE DEF c
<1>2. /\ Quiet(op_add(m, v, FALSE), m) /\ Quiet(op_add(m, v, c), m)
      /\ Quiet(op_sub(m, v, FALSE), m) /\ Quiet(op_sub(m, v, c), m)
      /\ Quiet(op_ana(m, v), m) /\ Quiet(op_xra(m, v), m) /\ Quiet(op_ora(m, v), m)
      /\ Quiet(op_cmp(m, v), m)
  BY <1>1, AddQuiet, SubQuiet, LogicQuiet, CmpQuiet DEF c
<1> QED
  BY <1>2 DEF alu, c

LEMMA SkipMachine ==
  ASSUME NEW m \in Machine
  PROVE  SkipByte(m) \in Machine /\ SkipWord(m) \in Machine
  BY SkipQuiet, QuietType

LEMMA CallRetQuiet ==
  ASSUME NEW m \in Machine, NEW addr \in Word
  PROVE  Quiet(op_call(m, addr), m) /\ Quiet(op_ret(m), m)
<1>1. Quiet(StackPush(m, m.pc), m) /\ StackPush(m, m.pc) \in Machine
  BY MembersType, StackPushQuiet, QuietType
<1>2. Quiet(op_call(m, addr), StackPush(m, m.pc))
  BY <1>1, SetPcQuiet DEF op_call
<1>3. Quiet(StackDrop(m), m) /\ StackDrop(m) \in Machine /\ StackTop(m) \in Word
  BY StackPopQuiet, QuietType
<1>4. Quiet(op_ret(m), StackDrop(m))
  BY <1>3, SetPcQuiet DEF op_ret
<1> QED
  BY <1>1, <1>2, <1>3, <1>4, QuietTrans

LEMMA AddCyclesQuiet ==
  ASSUME NEW m \in Machine, NEW n, Quiet(n, m)
  PROVE  Quiet([n EXCEPT !.cycles = @ + 6], m)
<1>1. n \in Machine /\ n.cycles + 6 \in Nat
  BY DEF Quiet, Machine
<1>2. Quiet([n EXCEPT !.cycles = n.cycles + 6], n)
  BY <1>1, SetCyclesQuiet
<1> QED
  BY <1>1, <1>2, QuietTrans

LEMMA CondQuiet ==
  ASSUME NEW m \in Machine, NEW addr \in Word, NEW c
  PROVE  /\ Quiet(op_jmp_cond(m, addr, c), m)
         /\ Quiet(op_call_cond(m, addr, c), m)
         /\ Quiet(op_ret_cond(m, c), m)
<1>1. Quiet([m EXCEPT !.pc = addr], m) /\ Quiet(m, m)
  BY SetPcQuiet, QuietRefl
<1>2. /\ Quiet([op_call(m, addr) EXCEPT !.cycles = @ + 6], m)
      /\ Quiet([op_ret(m) EXCEPT !.cycles = @ + 6], m)
  BY CallRetQuiet, AddCyclesQuiet
<1> QED
  BY <1>1, <1>2 DEF op_jmp_cond, op_call_cond, op_ret_cond

LEMMA ExchangeQuiet ==
  ASSUME NEW m \in Machine
  PROVE  Quiet(op_xchg(m), m) /\ Quiet(op_xthl(m), m)
<1> DEFINE n == SetHL(m, Pair(m, "d", "e"))
           k == WriteWord(m, m.sp, HL(m))
<1>1. Pair(m, "d", "e") \in Word /\ HL(m) \in Word /\ StackTop(m) \in Word
      /\ m.sp \in Int
  BY PairType, HLType, StackPopQuiet, MembersType, WordIsInt DEF RegName
<1>2. Quiet(n, m) /\ n \in Machine /\ Quiet(k, m) /\ k \in Machine
  BY <1>1, SetHLQuiet, WriteWordQuiet, QuietType
<1> HIDE DEF n, k
<1>3. Quiet(SetPair(n, "d", "e", HL(m)), n) /\ Quiet(SetHL(k, StackTop(m)), k)
  BY <1>1, <1>2, SetPairQuiet, SetHLQuiet DEF RegName
<1> QED
  BY <1>2, <1>3, QuietTrans DEF op_xchg, op_xthl, n, k

LEMMA StoreQuiet ==
  ASSUME NEW m \in Machine, NEW op
  PROVE  Quiet(store(m, op), m)
<1> DEFINE n == SkipWord(m)
<1>1. /\ Pair(m, "b", "c") \in Int /\ Pair(m, "d", "e") \in Int
      /\ NextWord(m) \in Int /\ HL(m) \in Word /\ m.reg["a"] \in Byte
  BY PairType, HLType, NextType, MembersType, WordIsInt DEF RegName
<1>2. Quiet(n, m) /\ n \in Machine
  BY SkipQuiet, QuietType
<1> HIDE DEF n
<1>3. /\ Quiet(WriteByte(m, Pair(m, "b", "c"), m.reg["a"]), m)
      /\ Quiet(WriteByte(m, Pair(m, "d", "e"), m.reg["a"]), m)
      /\ Quiet(WriteWord(n, NextWord(m), HL(m)), n)
      /\ Quiet(WriteByte(n, NextWord(m), m.reg["a"]), n)
  BY <1>1, <1>2, WriteByteQuiet, WriteWordQuiet
<1>4. /\ Quiet(WriteWord(n, NextWord(m), HL(m)), m)
      /\ Quiet(WriteByte(n, NextWord(m), m.reg["a"]), m)
  BY <1>2, <1>3, QuietTrans
<1> QED
  BY <1>3, <1>4 DEF store, n

LEMMA LoadQuiet ==
  ASSUME NEW m \in Machine, NEW op
  PROVE  Quiet(load(m, op), m)
<1> DEFINE n == SkipWord(m)
           b == ReadByte(m, Pair(m, "b", "c"))
           d == ReadByte(m, Pair(m, "d", "e"))
           w == ReadWord(m, NextWord(m))
           v == ReadByte(m, NextWord(m))
<1>1. NextWord(m) \in Word
  BY NextType
<1>2. b \in Byte /\ d \in Byte /\ w \in Word /\ v \in Byte
  BY <1>1, PairType, WordIsInt, ReadByteType, ReadWordType DEF RegName
<1>3. Quiet(n, m) /\ n \in Machine
  BY SkipQuiet, QuietType
<1> HIDE DEF n, b, d, w, v
<1>4. /\ Quiet([m EXCEPT !.reg["a"] = b], m) /\ Quiet([m EXCEPT !.reg["a"] = d], m)
      /\ Quiet(SetHL(n, w), n) /\ Quiet([n EXCEPT !.reg["a"] = v], n)
  BY <1>2, <1>3, SetRegQuiet, SetHLQuiet DEF RegName
<1>5. Quiet(SetHL(n, w), m) /\ Quiet([n EXCEPT !.reg["a"] = v], m)
  BY <1>3, <1>4, QuietTrans
<1> QED
  BY <1>4, <1>5 DEF load, n, b, d, w, v

-----------------------------------------------------------------------------
(* The quarters of the switch.                                              *)

LEMMA ExecLowQuiet ==
  ASSUME NEW m \in Machine, NEW op \in Byte
  PROVE  Quiet(exec_low(m, op), m)
<1> DEFINE y == Y(op)
           i == P(op)
           v == Get8(m, y)
           w == Get16(m, i)
<1>1. v \in Byte /\ w \in Word /\ NextByte(m) \in Byte /\ NextWord(m) \in Word
  BY Get8Type, Get16Type, NextType
<1>2. Quiet(Set16(SkipWord(m), i, NextWord(m)), m)
  BY <1>1, SkipQuiet, SkipMachine, Set16Quiet, QuietTrans
<1>3. Quiet(op_dad(m, w), m)
  BY <1>1, DadQuiet
<1>4. Quiet(Set16(m, i, Wrap16(w + 1)), m) /\ Quiet(Set16(m, i, Wrap16(w - 1)), m)
  <2>1. Wrap16(w + 1) \in Word /\ Wrap16(w - 1) \in Word
    BY <1>1, WordIsInt, WrapType
  <2> QED BY <2>1, Set16Quiet
<1>5. Quiet(Set8(inr_flags(m, v), y, inr(v)), m) /\ Quiet(Set8(dcr_flags(m, v), y, dcr(v)), m)
  <2>1. /\ inr(v) \in Byte /\ Quiet(inr_flags(m, v), m) /\ inr_flags(m, v) \in Machine
        /\ dcr(v) \in Byte /\ Quiet(dcr_flags(m, v), m) /\ dcr_flags(m, v) \in Machine
    BY <1>1, CountQuiet, QuietType
  <2>2. /\ Quiet(Set8(inr_flags(m, v), y, inr(v)), inr_flags(m, v))
        /\ Quiet(Set8(dcr_flags(m, v), y, dcr(v)), dcr_flags(m, v))
    BY <2>1, Set8Quiet
  <2> QED BY <2>1, <2>2, QuietTrans
<1>6. Quiet(Set8(SkipByte(m), y, NextByte(m)), m)
  <2>1. Quiet(Set8(SkipByte(m), y, NextByte(m)), SkipByte(m))
    BY <1>1, SkipMachine, Set8Quiet
  <2> QED BY <2>1, SkipQuiet, QuietTrans
<1>7. Quiet(store(m, op), m) /\ Quiet(load(m, op), m)
  BY StoreQuiet, LoadQuiet
<1>8. /\ Quiet(op_rlc(m), m) /\ Quiet(op_rrc(m), m)
      /\ Quiet(op_ral(m), m) /\ Quiet(op_rar(m), m) /\ Quiet(op_daa(m), m)
  BY RotateQuiet, DaaQuiet
<1>9. Quiet(op_cma(m), m) /\ Quiet(op_stc(m), m) /\ Quiet(op_cmc(m), m)
  <2>1. m.reg["a"] \in Byte
    BY MembersType DEF RegName
  <2>2. 255 - m.reg["a"] \in Byte
    BY <2>1 DEF Byte
  <2> QED BY <2>2, SetRegQuiet, SetFlagQuiet, ZenonT(60) DEF RegName, Flag, op_cma, op_stc, op_cmc
<1>10. Quiet(m, m)
  BY QuietRefl
<1> HIDE DEF v, w, y, i
<1> QED
  BY <1>2, <1>3, <1>4, <1>5, <1>6, <1>7, <1>8, <1>9, <1>10 DEF exec_low, v, w, y, i

LEMMA ExecMiddleQuiet ==
  ASSUME NEW m \in Machine, NEW op \in Byte, op # HLT
  PROVE  Quiet(exec_middle(m, op), m)
<1>1. Get8(m, Z(op)) \in Byte
  BY Get8Type
<1>2. Quiet(Set8(m, Y(op), Get8(m, Z(op))), m) /\ Quiet(alu(m, Y(op), Get8(m, Z(op))), m)
  BY <1>1, Set8Quiet, AluQuiet
<1> QED
  BY <1>2 DEF exec_middle

LEMMA ExecBranchQuiet ==
  ASSUME NEW m \in Machine, NEW op \in Byte
  PROVE  Quiet(exec_branch(m, op), m)
<1> DEFINE n == SkipWord(m)
           addr == NextWord(m)
           c == Cond(m, Y(op))
<1>1. n \in Machine /\ Quiet(n, m) /\ addr \in Word /\ HL(m) \in Word /\ 8 * Y(op) \in Word
  BY SkipQuiet, SkipMachine, NextType, HLType, YType
<1> HIDE DEF n, addr, c
<1>2. /\ Quiet(op_jmp_cond(n, addr, c), n)
      /\ Quiet(op_call_cond(n, addr, c), n)
      /\ Quiet(op_call(n, addr), n)
  BY <1>1, CondQuiet, CallRetQuiet
<1>3. /\ Quiet(op_jmp_cond(n, addr, c), m)
      /\ Quiet(op_call_cond(n, addr, c), m)
      /\ Quiet(op_call(n, addr), m)
  BY <1>1, <1>2, QuietTrans
<1>4. /\ Quiet(op_ret_cond(m, c), m)
      /\ Quiet([m EXCEPT !.pc = addr], m)
      /\ Quiet(op_ret(m), m)
      /\ Quiet(op_call(m, 8 * Y(op)), m)
      /\ Quiet([m EXCEPT !.pc = HL(m)], m)
  BY <1>1, CondQuiet, CallRetQuiet, SetPcQuiet
<1> QED
  BY <1>3, <1>4 DEF exec_branch, n, addr, c

LEMMA ExecOtherQuiet ==
  ASSUME NEW m \in Machine, NEW op \in Byte, NEW in \in Byte, op # EI, op # DI
  PROVE  Quiet(exec_other(m, op, in), m)
<1> DEFINE n == SkipByte(m)
           k == StackDrop(m)
           w == StackTop(m)
           b == NextByte(m)
           i == P(op)
           g == Get16(m, i)
<1>1. /\ n \in Machine /\ Quiet(n, m) /\ k \in Machine /\ Quiet(k, m)
      /\ w \in Word /\ b \in Byte /\ g \in Word /\ HL(m) \in Word
  BY SkipQuiet, StackPopQuiet, NextType, Get16Type, HLType, QuietType
<1>2. Quiet(StackPush(m, g), m)
  BY <1>1, StackPushQuiet
<1> HIDE DEF n, k, w, b, i, g
<1>3. /\ Quiet(alu(n, Y(op), b), n)
      /\ Quiet(Set16(k, i, w), k)
      /\ Quiet([n EXCEPT !.reg["a"] = in], n)
  BY <1>1, AluQuiet, Set16Quiet, SetRegQuiet DEF RegName
<1>4. /\ Quiet(alu(n, Y(op), b), m)
      /\ Quiet(Set16(k, i, w), m)
      /\ Quiet([n EXCEPT !.reg["a"] = in], m)
  BY <1>1, <1>3, QuietTrans
<1>5. /\ Quiet(op_push_psw(m), m) /\ Quiet(op_pop_psw(m), m)
      /\ Quiet(op_xchg(m), m) /\ Quiet(op_xthl(m), m)
      /\ Quiet([m EXCEPT !.sp = HL(m)], m)
  BY <1>1, PushPswQuiet, PopPswQuiet, ExchangeQuiet, SetSpQuiet
<1> QED
  BY <1>1, <1>2, <1>4, <1>5 DEF exec_other, n, k, w, b, i, g

\* exec_next, as the interrupt line sees it: EI, DI and HLT set the members
\* they name, the delay is set by EI and ended by every other opcode, and a
\* pending request is left as it is.
THEOREM ExecNextOnTheLine ==
  ASSUME NEW m \in Machine, NEW op \in Byte, NEW in \in Byte
  PROVE  LET n == exec_next(m, op, in) IN
         /\ n \in Machine
         /\ n.interrupt_pending = m.interrupt_pending
         /\ n.interrupt_opcode = m.interrupt_opcode
         /\ n.interrupt_delay = (op = EI)
         /\ n.inte = ((m.inte \/ op = EI) /\ op # DI)
         /\ n.halted = (m.halted \/ op = HLT)
<1> DEFINE b == begin(m, op)
           n == exec_next(m, op, in)
<1>1. /\ b \in Machine
      /\ b.halted = m.halted
      /\ b.inte = m.inte
      /\ b.interrupt_pending = m.interrupt_pending
      /\ b.interrupt_opcode = m.interrupt_opcode
      /\ b.interrupt_delay = FALSE
  BY CyclesType DEF begin, Machine
<1>2. b.halted \in BOOLEAN /\ b.inte \in BOOLEAN
  BY <1>1 DEF Machine
<1> HIDE DEF b
<1>3. CASE op = EI
  <2>1. n = exec_other(b, op, in)
    BY <1>3 DEF exec_next, b, BranchOps, JmpCondOps, CallCondOps, RetCondOps, JmpOps,
         CallOps, RetOps, RstOps, Top64, EI
  <2>2. exec_other(b, op, in) = op_ei(b)
    <3>1. /\ op \notin AluImmOps /\ op \notin PushOps /\ op \notin PopOps
          /\ op \notin {245, 241, 235, 227, 249, IN_}
      BY <1>3 DEF AluImmOps, PushOps, PopOps, Top64, EI, DI, IN_
    <3> QED BY <1>3, <3>1 DEF exec_other, EI, DI
  <2> HIDE DEF n
  <2>3. n \in Machine /\ n.halted = m.halted /\ n.inte = TRUE
        /\ n.interrupt_delay = TRUE
        /\ n.interrupt_pending = m.interrupt_pending
        /\ n.interrupt_opcode = m.interrupt_opcode
    BY <1>1, <1>2, <2>1, <2>2 DEF Machine, op_ei
  <2>4. op # DI /\ op # HLT
    BY <1>3 DEF EI, DI, HLT
  <2> QED BY <1>1, <1>2, <1>3, <2>3, <2>4, Zenon DEF n
<1>4. CASE op = DI
  <2>1. n = exec_other(b, op, in)
    BY <1>4 DEF exec_next, b, BranchOps, JmpCondOps, CallCondOps, RetCondOps, JmpOps,
         CallOps, RetOps, RstOps, Top64, DI
  <2>2. exec_other(b, op, in) = op_di(b)
    <3>1. /\ op \notin AluImmOps /\ op \notin PushOps /\ op \notin PopOps
          /\ op \notin {245, 241, 235, 227, 249, IN_}
      BY <1>4 DEF AluImmOps, PushOps, PopOps, Top64, EI, DI, IN_
    <3> QED BY <1>4, <3>1 DEF exec_other, EI, DI
  <2> HIDE DEF n
  <2>3. n \in Machine /\ n.halted = m.halted /\ n.inte = FALSE
        /\ n.interrupt_delay = FALSE
        /\ n.interrupt_pending = m.interrupt_pending
        /\ n.interrupt_opcode = m.interrupt_opcode
    BY <1>1, <1>2, <2>1, <2>2 DEF Machine, op_di
  <2>4. op # EI /\ op # HLT
    BY <1>4 DEF EI, DI, HLT
  <2> QED BY <1>1, <1>2, <1>4, <2>3, <2>4, Zenon DEF n
<1>5. CASE op = HLT
  <2>1. n = exec_middle(b, op)
    BY <1>5 DEF exec_next, b, BranchOps, JmpCondOps, CallCondOps, RetCondOps, JmpOps,
         CallOps, RetOps, RstOps, Top64, HLT
  <2>2. exec_middle(b, op) = op_hlt(b)
    BY <1>5 DEF exec_middle, MovOps
  <2> HIDE DEF n
  <2>3. n \in Machine /\ n.halted = TRUE /\ n.inte = m.inte /\ n.interrupt_delay = FALSE
        /\ n.interrupt_pending = m.interrupt_pending
        /\ n.interrupt_opcode = m.interrupt_opcode
    BY <1>1, <1>2, <2>1, <2>2 DEF Machine, op_hlt
  <2>4. op # EI /\ op # DI
    BY <1>5 DEF EI, DI, HLT
  <2> QED BY <1>1, <1>2, <1>5, <2>3, <2>4, Zenon DEF n
<1>6. CASE op # EI /\ op # DI /\ op # HLT
  <2>0. /\ Quiet(exec_low(b, op), b) /\ Quiet(exec_middle(b, op), b)
        /\ Quiet(exec_branch(b, op), b) /\ Quiet(exec_other(b, op, in), b)
    BY <1>1, <1>6, ExecLowQuiet, ExecMiddleQuiet, ExecBranchQuiet, ExecOtherQuiet
  <2>1. \/ n = exec_low(b, op) \/ n = exec_middle(b, op)
        \/ n = exec_branch(b, op) \/ n = exec_other(b, op, in)
    BY DEF exec_next, b
  <2>2. Quiet(n, b)
    BY <2>0, <2>1
  <2> HIDE DEF n
  <2>3. n \in Machine /\ n.halted = m.halted /\ n.inte = m.inte /\ n.interrupt_delay = FALSE
        /\ n.interrupt_pending = m.interrupt_pending
        /\ n.interrupt_opcode = m.interrupt_opcode
    BY <1>1, <2>2 DEF Quiet
  <2> QED BY <1>1, <1>2, <1>6, <2>3, Zenon DEF n
<1> QED
  BY <1>3, <1>4, <1>5, <1>6

-----------------------------------------------------------------------------
(* The invariant.                                                           *)

LEMMA InitialisedType ==
  ASSUME NEW inte \in BOOLEAN
  PROVE  /\ Initialised(inte) \in Machine
         /\ Initialised(inte).cycles = 0
         /\ Initialised(inte).inte = inte
         /\ Initialised(inte).halted = FALSE
         /\ Initialised(inte).interrupt_delay = FALSE
         /\ Initialised(inte).interrupt_pending = FALSE
<1>1. 0 \in Byte /\ 0 \in Word
  BY WordRange, SMT DEF Byte
<1> QED
  BY <1>1, HostAssumption DEF Initialised, Machine

\* What a step of the processor leaves, in the terms of the line.
LEMMA ExecuteOnTheLine ==
  ASSUME TypeOK, Execute
  PROVE  /\ cpu' \in Machine /\ cpu'.cycles = 0 /\ returned' \in Nat
         /\ executing \in Byte
         /\ cpu'.interrupt_pending = cpu.interrupt_pending
         /\ cpu'.interrupt_opcode = cpu.interrupt_opcode
         /\ cpu'.interrupt_delay = (executing = EI)
         /\ cpu'.inte = ((cpu.inte \/ executing = EI) /\ executing # DI)
         /\ cpu'.halted = (cpu.halted \/ executing = HLT)
<1>1. PICK in \in DeviceBytes : /\ cpu' = [exec_next(cpu, executing, in) EXCEPT !.cycles = 0]
                               /\ returned' = exec_next(cpu, executing, in).cycles
  BY DEF Execute
<1> DEFINE n == exec_next(cpu, executing, in)
<1>2. executing \in Byte /\ in \in Byte /\ cpu \in Machine
  BY HostAssumption DEF TypeOK, Execute
<1>3. /\ n \in Machine
      /\ n.interrupt_pending = cpu.interrupt_pending
      /\ n.interrupt_opcode = cpu.interrupt_opcode
      /\ n.interrupt_delay = (executing = EI)
      /\ n.inte = ((cpu.inte \/ executing = EI) /\ executing # DI)
      /\ n.halted = (cpu.halted \/ executing = HLT)
  BY <1>2, ExecNextOnTheLine
<1>4. cpu' = [n EXCEPT !.cycles = 0] /\ returned' = n.cycles
  BY <1>1
<1> HIDE DEF n
<1>5. /\ cpu' \in Machine /\ cpu'.cycles = 0 /\ returned' \in Nat
      /\ cpu'.interrupt_pending = n.interrupt_pending
      /\ cpu'.interrupt_opcode = n.interrupt_opcode
      /\ cpu'.interrupt_delay = n.interrupt_delay
      /\ cpu'.inte = n.inte
      /\ cpu'.halted = n.halted
  BY <1>3, <1>4 DEF Machine
<1> QED
  BY <1>2, <1>3, <1>5, Zenon

\* Fetch moves the pc and nothing else of the cpu.
LEMMA FetchOnTheLine ==
  ASSUME TypeOK, Fetch
  PROVE  /\ cpu' \in Machine /\ cpu'.cycles = 0
         /\ executing' \in Byte
         /\ cpu'.interrupt_pending = cpu.interrupt_pending
         /\ cpu'.interrupt_opcode = cpu.interrupt_opcode
         /\ cpu'.interrupt_delay = cpu.interrupt_delay
         /\ cpu'.inte = cpu.inte
         /\ cpu'.halted = cpu.halted
<1>1. cpu' = SkipByte(cpu) /\ executing' = NextByte(cpu) /\ cpu \in Machine /\ cpu.cycles = 0
  BY DEF Fetch, TypeOK
<1>2. Quiet(SkipByte(cpu), cpu) /\ NextByte(cpu) \in Byte
  BY <1>1, SkipQuiet, NextType
<1>3. SkipByte(cpu).cycles = cpu.cycles
  BY <1>1 DEF SkipByte, Machine
<1> QED
  BY <1>1, <1>2, <1>3 DEF Quiet

\* The members of the cpu keep their types for every program, every request
\* and every device: no step leaves a register or the pc outside its width.
THEOREM TypeCorrect == Spec => []TypeOK
<1>1. Init => TypeOK
  <2> SUFFICES ASSUME Init
               PROVE  TypeOK
    OBVIOUS
  <2>1. cpu \in Machine /\ cpu.cycles = 0
    BY InitialisedType DEF Init
  <2> QED BY <2>1 DEF Init, TypeOK
<1>2. TypeOK /\ [Next]_vars => TypeOK'
  <2> SUFFICES ASSUME TypeOK, [Next]_vars
               PROVE  TypeOK'
    OBVIOUS
  <2> USE DEF TypeOK
  <2>1. CASE Acknowledge
    BY <2>1 DEF Acknowledge, Machine
  <2>2. CASE Fetch
    BY <2>2, FetchOnTheLine DEF Fetch
  <2>3. CASE Idle
    BY <2>3 DEF Idle, Machine
  <2>4. CASE Execute
    <3>1. executing' = NoOp /\ handed' \in {"userdata", "cpu"}
      BY <2>4 DEF Execute, HandlerArg
    <3> QED BY <2>4, <3>1, ExecuteOnTheLine
  <2>5. CASE Interrupt
    BY <2>5, HostAssumption, ZenonT(60) DEF Interrupt, Machine
  <2>6. CASE Reset
    <3>1. cpu.inte \in BOOLEAN
      BY DEF Machine
    <3> QED BY <2>6, <3>1, InitialisedType DEF Reset
  <2>7. CASE UNCHANGED vars
    BY <2>7 DEF vars
  <2> QED BY <2>1, <2>2, <2>3, <2>4, <2>5, <2>6, <2>7 DEF Next, Step
<1> QED
  BY <1>1, <1>2, PTL DEF Spec

\* The delay after EI is never set on a halted or disabled cpu, so it is
\* never what a cpu waits for; no opcode runs on a halted cpu.
THEOREM DelayAlwaysEnds == Spec => []DelayEnds
<1>1. Init => DelayEnds
  BY InitialisedType DEF Init, DelayEnds
<1>2. TypeOK /\ DelayEnds /\ [Next]_vars => DelayEnds'
  <2> SUFFICES ASSUME TypeOK, DelayEnds, [Next]_vars
               PROVE  DelayEnds'
    OBVIOUS
  <2> USE DEF DelayEnds
  <2>0. cpu \in Machine /\ cpu.halted \in BOOLEAN /\ cpu.inte \in BOOLEAN
        /\ cpu.interrupt_delay \in BOOLEAN
    BY DEF TypeOK, Machine
  <2>1. CASE Acknowledge
    <3>1. cpu'.halted = FALSE /\ cpu'.interrupt_delay = cpu.interrupt_delay
      BY <2>0, <2>1 DEF Acknowledge, Machine
    <3>2. ~cpu.interrupt_delay
      BY <2>1 DEF Acknowledge, Recognisable
    <3> QED BY <3>1, <3>2
  <2>2. CASE Fetch
    <3>1. ~cpu.halted
      BY <2>2 DEF Fetch
    <3> QED BY <2>2, <3>1, FetchOnTheLine
  <2>3. CASE Idle
    BY <2>3 DEF Idle
  <2>4. CASE Execute
    <3>1. /\ ~cpu.halted
          /\ executing' = NoOp
      BY <2>4 DEF Execute
    <3>2. EI # DI /\ EI # HLT
      BY DEF EI, DI, HLT
    <3>3. /\ cpu'.interrupt_delay = (executing = EI)
          /\ cpu'.inte = ((cpu.inte \/ executing = EI) /\ executing # DI)
          /\ cpu'.halted = (cpu.halted \/ executing = HLT)
      BY <2>4, ExecuteOnTheLine
    <3> QED BY <3>1, <3>2, <3>3, Zenon
  <2>5. CASE Interrupt
    BY <2>0, <2>5 DEF Interrupt, Machine
  <2>6. CASE Reset
    BY <2>0, <2>6, InitialisedType DEF Reset
  <2>7. CASE UNCHANGED vars
    BY <2>7 DEF vars
  <2> QED BY <2>1, <2>2, <2>3, <2>4, <2>5, <2>6, <2>7 DEF Next, Step
<1> QED
  BY <1>1, <1>2, TypeCorrect, PTL DEF Spec

-----------------------------------------------------------------------------
(* Step properties and the refinement.                                      *)

\* A request is given up only to run, with interrupts off and the cpu awake,
\* or by a host that starts over: no step loses one.
THEOREM NoRequestDropped == Spec => RequestNotDropped
<1> DEFINE A == cpu.interrupt_pending /\ ~cpu'.interrupt_pending
                  => \/ executing' = cpu.interrupt_opcode /\ ~cpu'.inte /\ ~cpu'.halted
                     \/ cpu' = Initialised(cpu.inte)
<1>1. TypeOK /\ [Next]_vars => A
  <2> SUFFICES ASSUME TypeOK, [Next]_vars
               PROVE  A
    OBVIOUS
  <2>0. cpu \in Machine
    BY DEF TypeOK
  <2>1. CASE Acknowledge
    BY <2>0, <2>1 DEF Acknowledge, Machine
  <2>2. CASE Fetch
    BY <2>2, FetchOnTheLine
  <2>3. CASE Idle
    BY <2>3 DEF Idle
  <2>4. CASE Execute
    BY <2>4, ExecuteOnTheLine
  <2>5. CASE Interrupt
    BY <2>0, <2>5 DEF Interrupt, Machine
  <2>6. CASE Reset
    BY <2>6 DEF Reset
  <2>7. CASE UNCHANGED vars
    BY <2>7 DEF vars
  <2> QED BY <2>1, <2>2, <2>3, <2>4, <2>5, <2>6, <2>7 DEF Next, Step
<1> QED
  BY <1>1, TypeCorrect, PTL DEF Spec, RequestNotDropped

\* A halted cpu stands still until an interrupt is taken or the host starts
\* over.
THEOREM HaltFreezes == Spec => HaltedIsFrozen
<1> DEFINE A == cpu.halted =>
                  \/ cpu' = [cpu EXCEPT !.interrupt_pending = cpu'.interrupt_pending,
                                        !.interrupt_opcode = cpu'.interrupt_opcode]
                  \/ Recognisable(cpu) /\ executing' = cpu.interrupt_opcode
                  \/ cpu' = Initialised(cpu.inte)
<1>1. TypeOK /\ DelayEnds /\ [Next]_vars => A
  <2> SUFFICES ASSUME TypeOK, DelayEnds, [Next]_vars, cpu.halted
               PROVE  A
    OBVIOUS
  <2>0. cpu \in Machine /\ cpu = [cpu EXCEPT !.interrupt_pending = cpu.interrupt_pending,
                                            !.interrupt_opcode = cpu.interrupt_opcode]
    BY DEF TypeOK, Machine
  <2>1. CASE Acknowledge
    BY <2>1 DEF Acknowledge
  <2>2. CASE Fetch
    BY <2>2 DEF Fetch
  <2>3. CASE Idle
    BY <2>0, <2>3 DEF Idle
  <2>4. CASE Execute
    BY <2>4 DEF Execute, DelayEnds
  <2>5. CASE Interrupt
    BY <2>0, <2>5 DEF Interrupt, Machine
  <2>6. CASE Reset
    BY <2>6 DEF Reset
  <2>7. CASE UNCHANGED vars
    BY <2>0, <2>7 DEF vars
  <2> QED BY <2>1, <2>2, <2>3, <2>4, <2>5, <2>6, <2>7 DEF Next, Step
<1> QED
  BY <1>1, TypeCorrect, DelayAlwaysEnds, PTL DEF Spec, HaltedIsFrozen

\* The cpu, with its whole instruction set, implements the interrupt line.
THEOREM ImplementsLine == Spec => LineSpec
<1> DEFINE request == IF cpu.interrupt_pending THEN cpu.interrupt_opcode ELSE NoOp
<1>1. Init => Line!Init
  <2> SUFFICES ASSUME Init
               PROVE  Line!Init
    OBVIOUS
  <2>1. PICK inte \in BOOLEAN : cpu = Initialised(inte)
    BY DEF Init
  <2> QED BY <2>1, InitialisedType DEF Init, Line!Init
<1>2. TypeOK /\ DelayEnds /\ [Next]_vars => [Line!Next]_(Line!line)
  <2> SUFFICES ASSUME TypeOK, DelayEnds, [Next]_vars
               PROVE  [Line!Next]_(Line!line)
    OBVIOUS
  <2>0. /\ cpu \in Machine
        /\ cpu.halted \in BOOLEAN /\ cpu.inte \in BOOLEAN
        /\ cpu.interrupt_delay \in BOOLEAN /\ cpu.interrupt_pending \in BOOLEAN
        /\ cpu.interrupt_opcode \in Byte /\ NoOp \notin Byte
    BY DEF TypeOK, Machine, NoOp, Byte
  <2>1. CASE Acknowledge
    <3>1. /\ cpu'.interrupt_pending = FALSE /\ cpu'.inte = FALSE /\ cpu'.halted = FALSE
          /\ cpu'.interrupt_delay = cpu.interrupt_delay
      BY <2>0, <2>1 DEF Acknowledge, Machine
    <3>2. Line!Recognise
      BY <2>0, <2>1, <3>1 DEF Acknowledge, Recognisable, Line!Recognise, Line!Recognisable
    <3> QED BY <3>2 DEF Line!Next
  <2>2. CASE Fetch
    <3>1. Line!Begin
      BY <2>0, <2>2, FetchOnTheLine
         DEF Fetch, Recognisable, Line!Begin, Line!Recognisable
    <3> QED BY <3>1 DEF Line!Next
  <2>3. CASE Idle
    BY <2>3 DEF Idle, Line!line
  <2>4. CASE Execute
    <3>1. executing # NoOp /\ executing' = NoOp /\ ~cpu.halted
      BY <2>4 DEF Execute, DelayEnds
    <3>2. /\ cpu'.interrupt_pending = cpu.interrupt_pending
          /\ cpu'.interrupt_opcode = cpu.interrupt_opcode
          /\ cpu'.interrupt_delay = (executing = EI)
          /\ cpu'.inte = ((cpu.inte \/ executing = EI) /\ executing # DI)
          /\ cpu'.halted = (executing = HLT)
      BY <2>0, <2>4, <3>1, ExecuteOnTheLine, Zenon
    <3>3. Line!Complete
      BY <3>1, <3>2, Zenon DEF Line!Complete
    <3> QED BY <3>3 DEF Line!Next
  <2>5. CASE Interrupt
    <3>1. PICK op \in RequestOps :
            cpu' = [cpu EXCEPT !.interrupt_pending = TRUE, !.interrupt_opcode = op]
      BY <2>5 DEF Interrupt
    <3>2. /\ op \in Byte
          /\ cpu'.interrupt_pending = TRUE /\ cpu'.interrupt_opcode = op
          /\ cpu'.interrupt_delay = cpu.interrupt_delay
          /\ cpu'.inte = cpu.inte /\ cpu'.halted = cpu.halted
      BY <2>0, <3>1, HostAssumption DEF Machine
    <3>3. Line!Request
      BY <2>5, <3>2 DEF Interrupt, Line!Request
    <3> QED BY <3>3 DEF Line!Next
  <2>6. CASE Reset
    <3>1. Line!Reinit
      BY <2>0, <2>6, InitialisedType DEF Reset, Line!Reinit
    <3> QED BY <3>1 DEF Line!Next
  <2>7. CASE UNCHANGED vars
    BY <2>7 DEF vars, Line!line
  <2> QED BY <2>1, <2>2, <2>3, <2>4, <2>5, <2>6, <2>7 DEF Next, Step
<1> QED
  BY <1>1, <1>2, TypeCorrect, DelayAlwaysEnds, PTL DEF Spec, LineSpec, Line!Spec
=============================================================================
