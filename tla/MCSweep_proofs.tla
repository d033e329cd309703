---------------------------- MODULE MCSweep_proofs ----------------------------
(***************************************************************************)
(* The instruction set against its meaning, for every machine and operand: *)
(* the properties the sweep of MCSweep checks on samples.                  *)
(***************************************************************************)
EXTENDS MCSweep, Cpu8080_proofs, FiniteSetTheorems

\* The host keeps neighbouring addresses in different cells.  FullMemoryCells
\* has it for one byte to an address.
CellsApart == \A a \in Word : Cell(a) # Cell(Wrap16(a + 1))

-----------------------------------------------------------------------------
(* The sweep stays among machines.                                          *)

SweepInv == /\ TypeOK
            /\ sample \in Machine /\ sample.cycles = 0
            /\ tried \in Byte

\* Every machine the sweep reaches is one: each opcode leaves each register
\* within its width and hands back a count of cycles.
THEOREM SweepTypes == SweepSpec => []SweepInv
<1>0. First \in Byte /\ DAA \in Byte
  BY DEF First, DAA, Byte
<1>1. SweepInit => SweepInv
  <2> SUFFICES ASSUME SweepInit
               PROVE  SweepInv
    OBVIOUS
  <2>1. sample \in Machine /\ sample.cycles = 0 /\ cpu = sample
    BY SweepAssumption DEF SweepInit
  <2> QED BY <1>0, <2>1 DEF SweepInit, SweepInv, TypeOK
<1>2. SweepInv /\ [SweepNext]_swvars => SweepInv'
  <2> SUFFICES ASSUME SweepInv, [SweepNext]_swvars
               PROVE  SweepInv'
    OBVIOUS
  <2> USE DEF SweepInv
  <2>1. CASE Execute /\ UNCHANGED <<all, sample, tried>>
    <3>1. executing' = NoOp /\ handed' \in {"userdata", "cpu"}
      BY <2>1 DEF Execute, HandlerArg
    <3>2. cpu' \in Machine /\ cpu'.cycles = 0 /\ returned' \in Nat
      BY <2>1, ExecuteOnTheLine
    <3> QED BY <2>1, <3>1, <3>2 DEF TypeOK
  <2>2. CASE Again
    <3>1. (tried + 1) % 256 \in Byte
      BY DEF Byte
    <3>2. tried' \in Byte
      BY <1>0, <2>2, <3>1 DEF Again
    <3> QED BY <2>2, <3>2 DEF Again, TypeOK
  <2>3. CASE UNCHANGED swvars
    BY <2>3 DEF swvars, TypeOK
  <2> QED BY <2>1, <2>2, <2>3 DEF SweepNext
<1> QED
  BY <1>1, <1>2, PTL DEF SweepSpec

-----------------------------------------------------------------------------
(* The stack.                                                               *)

LEMMA CallReturns ==
  ASSUME NEW m \in Machine, NEW addr \in Word, CellsApart
  PROVE  op_ret(op_call(m, addr)).pc = m.pc /\ op_ret(op_call(m, addr)).sp = m.sp
<1> DEFINE n == StackPush(m, m.pc)
           k == [n EXCEPT !.pc = addr]
<1>1. m.pc \in Word
  BY MembersType
<1>2. StackTop(n) = m.pc /\ StackDrop(n).sp = m.sp
  BY <1>1, StackRoundTrip DEF CellsApart
<1>3. n \in Machine
  BY <1>1, StackPushQuiet, QuietType
<1> HIDE DEF n
<1>4. k.sp = n.sp /\ k.mem = n.mem /\ k \in Machine
  BY <1>3 DEF Machine
<1>5. StackTop(k) = StackTop(n)
  BY <1>4 DEF StackTop, ReadWord, ReadByte
<1>6. op_call(m, addr) = k
  BY DEF op_call, n
<1> HIDE DEF k
<1>7. StackDrop(k).sp = StackDrop(n).sp
  BY <1>3, <1>4 DEF StackDrop, Machine
<1>8. op_ret(k).pc = StackTop(k) /\ op_ret(k).sp = StackDrop(k).sp
  BY <1>4 DEF op_ret, StackDrop, Machine
<1> QED
  BY <1>2, <1>5, <1>6, <1>7, <1>8

\* XCHG swaps the pairs HL and DE.
LEMMA ExchangeIs ==
  ASSUME NEW m \in Machine
  PROVE  op_xchg(m) = [m EXCEPT !.reg = [m.reg EXCEPT !["h"] = m.reg["d"], !["l"] = m.reg["e"],
                                                      !["d"] = m.reg["h"], !["e"] = m.reg["l"]]]
<1>1. /\ High(Pair(m, "d", "e")) = m.reg["d"] /\ Low(Pair(m, "d", "e")) = m.reg["e"]
      /\ High(HL(m)) = m.reg["h"] /\ Low(HL(m)) = m.reg["l"]
  BY MembersType, WordSplits DEF Pair, HL, RegName
<1> DEFINE r == [m.reg EXCEPT !["h"] = m.reg["d"], !["l"] = m.reg["e"]]
           n == [m EXCEPT !.reg = r]
<1>2. SetHL(m, Pair(m, "d", "e")) = n
  BY <1>1 DEF SetHL, SetPair
<1> HIDE DEF r
<1>3. n.reg = r
  BY DEF Machine
<1>4. SetPair(n, "d", "e", HL(m)) = [n EXCEPT !.reg = [r EXCEPT !["d"] = m.reg["h"], !["e"] = m.reg["l"]]]
  BY <1>1, <1>3 DEF SetPair
<1>5. @ = [m EXCEPT !.reg = [r EXCEPT !["d"] = m.reg["h"], !["e"] = m.reg["l"]]]
  BY DEF Machine
<1> QED
  BY <1>2, <1>4, <1>5 DEF op_xchg, r

LEMMA ExchangeTwice ==
  ASSUME NEW m \in Machine
  PROVE  op_xchg(op_xchg(m)) = m
<1> DEFINE r == [m.reg EXCEPT !["h"] = m.reg["d"], !["l"] = m.reg["e"],
                              !["d"] = m.reg["h"], !["e"] = m.reg["l"]]
           n == op_xchg(m)
           q == [n.reg EXCEPT !["h"] = n.reg["d"], !["l"] = n.reg["e"],
                              !["d"] = n.reg["h"], !["e"] = n.reg["l"]]
<1>1. n = [m EXCEPT !.reg = r] /\ n \in Machine
  BY ExchangeIs, ExchangeQuiet, QuietType
<1>2. op_xchg(n) = [n EXCEPT !.reg = q]
  BY <1>1, ExchangeIs
<1> HIDE DEF n
<1>3. n.reg = r
  <2> HIDE DEF r
  <2> QED BY <1>1 DEF Machine
<1>4. m.reg \in [RegName -> Byte]
  BY MembersType
<1>5. q = m.reg
  BY <1>3, <1>4 DEF RegName
<1> HIDE DEF q, r
<1>6. [n EXCEPT !.reg = m.reg] = m
  BY <1>1 DEF Machine
<1> QED
  BY <1>2, <1>5, <1>6 DEF n

\* XTHL swaps H and L with the two cells at sp.
Xthl(m, lo, hi) ==
  [m EXCEPT !.reg = [m.reg EXCEPT !["h"] = m.mem[hi], !["l"] = m.mem[lo]],
            !.mem = [m.mem EXCEPT ![lo] = m.reg["l"], ![hi] = m.reg["h"]]]

LEMMA XthlIs ==
  ASSUME NEW m \in Machine, CellsApart
  PROVE  op_xthl(m) = Xthl(m, Cell(m.sp), Cell(Wrap16(m.sp + 1)))
<1> DEFINE lo == Cell(m.sp)
           hi == Cell(Wrap16(m.sp + 1))
           h == m.reg["h"]
           l == m.reg["l"]
           mem == [m.mem EXCEPT ![lo] = l, ![hi] = h]
           reg == [m.reg EXCEPT !["h"] = m.mem[hi], !["l"] = m.mem[lo]]
<1>1. /\ m.sp \in Word /\ m.sp \in Int /\ Wrap16(m.sp + 1) \in Int
      /\ h \in Byte /\ l \in Byte
      /\ m.mem \in [0..(MemSize - 1) -> Byte] /\ m.reg \in [RegName -> Byte]
  BY MembersType, WordIsInt, WrapType DEF RegName
<1>2. lo # hi /\ lo \in 0..(MemSize - 1) /\ hi \in 0..(MemSize - 1)
  BY <1>1, CellType DEF CellsApart
<1>3. m.mem[lo] \in Byte /\ m.mem[hi] \in Byte
  BY <1>1, <1>2
<1>4. High(HL(m)) = h /\ Low(HL(m)) = l
  BY <1>1, WordSplits DEF HL, Pair
<1>5. High(StackTop(m)) = m.mem[hi] /\ Low(StackTop(m)) = m.mem[lo]
  BY <1>3, WordSplits DEF StackTop, ReadWord, ReadByte
<1> DEFINE n == WriteWord(m, m.sp, HL(m))
<1>6. n = [m EXCEPT !.mem = mem]
  <2> HIDE DEF lo, hi
  <2>1. WriteByte(m, m.sp, Low(HL(m))) = [m EXCEPT !.mem = [m.mem EXCEPT ![lo] = l]]
    BY <1>4 DEF WriteByte, lo
  <2> DEFINE k == WriteByte(m, m.sp, Low(HL(m)))
  <2>2. k.mem = [m.mem EXCEPT ![lo] = l]
    BY <2>1 DEF Machine
  <2>3. WriteByte(k, Wrap16(m.sp + 1), High(HL(m)))
          = [k EXCEPT !.mem = [k.mem EXCEPT ![hi] = h]]
    BY <1>4 DEF WriteByte, hi
  <2>4. @ = [m EXCEPT !.mem = mem]
    BY <2>1, <2>2 DEF Machine
  <2> QED BY <2>3, <2>4 DEF WriteWord
<1> HIDE DEF mem, n
<1>7. n.reg = m.reg
  BY <1>6 DEF Machine
<1>8. SetHL(n, StackTop(m)) = [n EXCEPT !.reg = reg]
  BY <1>5, <1>7 DEF SetHL, SetPair
<1> HIDE DEF reg, lo, hi
<1>9. [n EXCEPT !.reg = reg] = [m EXCEPT !.reg = reg, !.mem = mem]
  BY <1>6 DEF Machine
<1> QED
  BY <1>8, <1>9 DEF op_xthl, Xthl, n, reg, mem, lo, hi

\* Two places of a function given new values, then their own again.
LEMMA PutBack ==
  ASSUME NEW D, NEW R, NEW f \in [D -> R], NEW i \in D, NEW j \in D, i # j,
         NEW x, NEW y
  PROVE  [[f EXCEPT ![i] = x, ![j] = y] EXCEPT ![i] = f[i], ![j] = f[j]] = f
  OBVIOUS

LEMMA XthlTwice ==
  ASSUME NEW m \in Machine, CellsApart
  PROVE  op_xthl(op_xthl(m)) = m
<1> DEFINE lo == Cell(m.sp)
           hi == Cell(Wrap16(m.sp + 1))
           reg == [m.reg EXCEPT !["h"] = m.mem[hi], !["l"] = m.mem[lo]]
           mem == [m.mem EXCEPT ![lo] = m.reg["l"], ![hi] = m.reg["h"]]
           n == op_xthl(m)
<1>1. /\ m.sp \in Word /\ m.sp \in Int /\ Wrap16(m.sp + 1) \in Int
      /\ m.mem \in [0..(MemSize - 1) -> Byte] /\ m.reg \in [RegName -> Byte]
  BY MembersType, WordIsInt, WrapType
<1>2. lo # hi /\ lo \in 0..(MemSize - 1) /\ hi \in 0..(MemSize - 1)
  BY <1>1, CellType DEF CellsApart
<1>3. n = [m EXCEPT !.reg = reg, !.mem = mem] /\ n \in Machine
  BY XthlIs, ExchangeQuiet, QuietType DEF Xthl
<1> HIDE DEF n
<1>4. n.reg = reg /\ n.mem = mem /\ n.sp = m.sp
  <2> HIDE DEF reg, mem
  <2> QED BY <1>3 DEF Machine
<1>5. op_xthl(n) = Xthl(n, lo, hi)
  BY <1>3, <1>4, XthlIs
<1> HIDE DEF lo, hi
<1> DEFINE D == 0..(MemSize - 1)
           vh == m.mem[hi]
           vl == m.mem[lo]
           rh == m.reg["h"]
           rl == m.reg["l"]
<1>10. /\ m.mem \in [D -> Byte] /\ m.reg \in [RegName -> Byte]
       /\ lo \in D /\ hi \in D /\ lo # hi
       /\ "h" \in RegName /\ "l" \in RegName /\ "h" # "l"
  BY <1>1, <1>2 DEF RegName
<1> HIDE DEF D
<1>11. n.mem[lo] = rl /\ n.mem[hi] = rh
  <2>1. mem[lo] = rl /\ mem[hi] = rh
    BY <1>10 DEF mem
  <2> HIDE DEF mem
  <2> QED BY <1>4, <2>1
<1>12. n.reg["h"] = vh /\ n.reg["l"] = vl
  <2>1. reg["h"] = vh /\ reg["l"] = vl
    BY <1>10 DEF reg
  <2> HIDE DEF reg
  <2> QED BY <1>4, <2>1
<1>6. [n.reg EXCEPT !["h"] = n.mem[hi], !["l"] = n.mem[lo]] = m.reg
  <2>1. [reg EXCEPT !["h"] = rh, !["l"] = rl] = m.reg
    <3> HIDE DEF vh, vl
    <3> QED BY <1>10, PutBack DEF reg
  <2> HIDE DEF reg, rh, rl
  <2> QED BY <1>4, <1>11, <2>1
<1>7. [n.mem EXCEPT ![lo] = n.reg["l"], ![hi] = n.reg["h"]] = m.mem
  <2>1. [mem EXCEPT ![lo] = vl, ![hi] = vh] = m.mem
    <3> HIDE DEF rh, rl
    <3> QED BY <1>10, PutBack DEF mem
  <2> HIDE DEF mem, vh, vl
  <2> QED BY <1>4, <1>12, <2>1
<1> HIDE DEF reg, mem
<1>8. Xthl(n, lo, hi) = [n EXCEPT !.reg = m.reg, !.mem = m.mem]
  BY <1>6, <1>7 DEF Xthl
<1>9. [n EXCEPT !.reg = m.reg, !.mem = m.mem] = m
  BY <1>3 DEF Machine
<1> QED
  BY <1>5, <1>8, <1>9 DEF n

\* What goes through the stack comes back, for every host that keeps
\* neighbouring addresses apart, wherever the stack wraps.
THEOREM CallsComeBack ==
  ASSUME CellsApart
  PROVE  SweepSpec => []CallsReturn
<1>1. SweepInv => CallsReturn
  <2> SUFFICES ASSUME SweepInv
               PROVE  CallsReturn
    OBVIOUS
  <2>1. cpu \in Machine /\ 56 \in Word
    BY WordRange DEF SweepInv, TypeOK
  <2> QED BY <2>1, CallReturns, ExchangeTwice, XthlTwice DEF CallsReturn
<1> QED
  BY <1>1, SweepTypes, PTL

\* POP PSW restores what PUSH PSW saved: the flags, every register and sp.
THEOREM PswComesBack ==
  ASSUME CellsApart
  PROVE  SweepSpec => []PswRoundTrip
<1>1. SweepInv => PswRoundTrip
  BY PswRestored DEF CellsApart, PswRoundTrip, SweepInv, TypeOK
<1> QED
  BY <1>1, SweepTypes, PTL

-----------------------------------------------------------------------------
(* Arithmetic.                                                              *)

\* The ones of b at the weights in S.
OnesIn(S, b) == Cardinality({w \in S : b[w] = 1})

Counted(S, b, n) == IsFiniteSet(S) /\ OnesIn(S, b) = n

\* Adding a weight to a set of weights counts its bit.
LEMMA CountOne ==
  ASSUME NEW S, NEW x, x \notin S, NEW b, b[x] \in {0, 1}, NEW n, Counted(S, b, n)
  PROVE  Counted(S \cup {x}, b, n + b[x])
<1> DEFINE T == {w \in S : b[w] = 1}
<1>0. IsFiniteSet(S) /\ Cardinality(T) = n
  BY DEF Counted, OnesIn
<1>1. IsFiniteSet(S \cup {x})
  BY <1>0, FS_AddElement
<1>2. IsFiniteSet(T)
  BY <1>0, FS_Subset
<1>3. Cardinality(T \cup {x}) = Cardinality(T) + 1 /\ Cardinality(T) \in Nat
  BY <1>2, FS_AddElement, FS_CardinalityType
<1>4. CASE b[x] = 1
  <2>1. {w \in S \cup {x} : b[w] = 1} = T \cup {x}
    BY <1>4
  <2> HIDE DEF T
  <2> QED BY <1>0, <1>1, <1>3, <1>4, <2>1 DEF Counted, OnesIn
<1>5. CASE b[x] = 0
  <2>1. {w \in S \cup {x} : b[w] = 1} = T
    BY <1>5
  <2> HIDE DEF T
  <2> QED BY <1>0, <1>1, <1>3, <1>5, <2>1 DEF Counted, OnesIn
<1> QED
  BY <1>4, <1>5

LEMMA CountBits ==
  ASSUME NEW b, \A w \in Weights : b[w] \in {0, 1}
  PROVE  OnesIn(Weights, b)
           = b[1] + b[2] + b[4] + b[8] + b[16] + b[32] + b[64] + b[128]
<1> DEFINE Known(S, n) == Counted(S, b, n)
<1>0. /\ b[1] \in {0, 1} /\ b[2] \in {0, 1} /\ b[4] \in {0, 1} /\ b[8] \in {0, 1}
      /\ b[16] \in {0, 1} /\ b[32] \in {0, 1} /\ b[64] \in {0, 1} /\ b[128] \in {0, 1}
  BY DEF Weights
<1>1. ASSUME NEW S, NEW n, Known(S, n), NEW x, x \notin S, b[x] \in {0, 1},
             NEW T, T = S \cup {x}
      PROVE  Known(T, n + b[x])
  BY <1>1, CountOne
<1>2. Known({}, 0)
  <2>1. {w \in {} : b[w] = 1} = {}
    OBVIOUS
  <2> QED BY <2>1, FS_EmptySet DEF OnesIn, Counted
<1> HIDE DEF Known
<1>3. Known({1}, 0 + b[1])
  <2>1. 1 \notin {} /\ {1} = {} \cup {1}
    OBVIOUS
  <2> QED BY <1>0, <1>1, <1>2, <2>1
<1>4. Known({1, 2}, 0 + b[1] + b[2])
  <2>1. 2 \notin {1} /\ {1, 2} = {1} \cup {2}
    OBVIOUS
  <2> QED BY <1>0, <1>1, <1>3, <2>1
<1>5. Known({1, 2, 4}, 0 + b[1] + b[2] + b[4])
  <2>1. 4 \notin {1, 2} /\ {1, 2, 4} = {1, 2} \cup {4}
    OBVIOUS
  <2> QED BY <1>0, <1>1, <1>4, <2>1
<1>6. Known({1, 2, 4, 8}, 0 + b[1] + b[2] + b[4] + b[8])
  <2>1. 8 \notin {1, 2, 4} /\ {1, 2, 4, 8} = {1, 2, 4} \cup {8}
    OBVIOUS
  <2> QED BY <1>0, <1>1, <1>5, <2>1
<1>7. Known({1, 2, 4, 8, 16}, 0 + b[1] + b[2] + b[4] + b[8] + b[16])
  <2>1. 16 \notin {1, 2, 4, 8} /\ {1, 2, 4, 8, 16} = {1, 2, 4, 8} \cup {16}
    OBVIOUS
  <2> QED BY <1>0, <1>1, <1>6, <2>1
<1>8. Known({1, 2, 4, 8, 16, 32}, 0 + b[1] + b[2] + b[4] + b[8] + b[16] + b[32])
  <2>1. 32 \notin {1, 2, 4, 8, 16} /\ {1, 2, 4, 8, 16, 32} = {1, 2, 4, 8, 16} \cup {32}
    OBVIOUS
  <2> QED BY <1>0, <1>1, <1>7, <2>1
<1>9. Known({1, 2, 4, 8, 16, 32, 64}, 0 + b[1] + b[2] + b[4] + b[8] + b[16] + b[32] + b[64])
  <2>1. 64 \notin {1, 2, 4, 8, 16, 32} /\ {1, 2, 4, 8, 16, 32, 64} = {1, 2, 4, 8, 16, 32} \cup {64}
    OBVIOUS
  <2> QED BY <1>0, <1>1, <1>8, <2>1
<1>10. Known({1, 2, 4, 8, 16, 32, 64, 128}, 0 + b[1] + b[2] + b[4] + b[8] + b[16] + b[32] + b[64] + b[128])
  <2>1. 128 \notin {1, 2, 4, 8, 16, 32, 64} /\ {1, 2, 4, 8, 16, 32, 64, 128} = {1, 2, 4, 8, 16, 32, 64} \cup {128}
    OBVIOUS
  <2> QED BY <1>0, <1>1, <1>9, <2>1
<1> QED
  BY <1>0, <1>10 DEF Weights, Known, Counted

\* s_parity_lut holds the parity of the number of ones.
LEMMA ParityIs ==
  ASSUME NEW v \in Byte
  PROVE  Parity(v) = (Cardinality({w \in Weights : BitsOf(v)[w] = 1}) % 2 = 0)
<1>1. \A w \in Weights : BitsOf(v)[w] = Bit(v, w)
  BY DEF BitsOf, Bit
<1>2. \A w \in Weights : BitsOf(v)[w] \in {0, 1}
  BY <1>1, BitType, ByteIsInt DEF Weights
<1>3. OnesIn(Weights, BitsOf(v)) = Ones(v)
  <2> DEFINE b == BitsOf(v)
  <2>1. /\ b[1] = Bit(v, 1) /\ b[2] = Bit(v, 2) /\ b[4] = Bit(v, 4) /\ b[8] = Bit(v, 8)
        /\ b[16] = Bit(v, 16) /\ b[32] = Bit(v, 32) /\ b[64] = Bit(v, 64) /\ b[128] = Bit(v, 128)
    BY <1>1 DEF Weights
  <2> HIDE DEF b
  <2>2. OnesIn(Weights, b)
          = b[1] + b[2] + b[4] + b[8] + b[16] + b[32] + b[64] + b[128]
    BY <1>2, CountBits DEF b
  <2>3. @ = Ones(v)
    BY <2>1 DEF Ones
  <2> QED BY <2>2, <2>3 DEF b
<1> QED
  BY <1>3 DEF Parity, OnesIn

\* The flags of a result, whatever they were before.
LEMMA FlagsAre ==
  ASSUME NEW f \in [Flag -> BOOLEAN], NEW v \in Byte,
         NEW aux \in BOOLEAN, NEW carry \in BOOLEAN
  PROVE  ZSP([f EXCEPT !["a"] = aux, !["c"] = carry], v) = FlagsOf(v, carry, aux)
<1> DEFINE s == v > 127
           z == v = 0
           p == Cardinality({w \in Weights : BitsOf(v)[w] = 1}) % 2 = 0
<1>1. (v >= 128) = s /\ Parity(v) = p /\ s \in BOOLEAN /\ z \in BOOLEAN
  BY ParityIs, ByteIsInt
<1>2. ZSP([f EXCEPT !["a"] = aux, !["c"] = carry], v)
        = [f EXCEPT !["a"] = aux, !["c"] = carry, !["s"] = s, !["z"] = z, !["p"] = p]
  BY <1>1 DEF ZSP
<1>3. FlagsOf(v, carry, aux) = [s |-> s, z |-> z, p |-> p, a |-> aux, c |-> carry]
  BY DEF FlagsOf
<1> HIDE DEF s, z, p
<1> QED
  BY <1>2, <1>3 DEF Flag

\* The carry is a field of its own.
LEMMA FlagsOfCarry ==
  \A v, x, y, aux : [FlagsOf(v, x, aux) EXCEPT !["c"] = y] = FlagsOf(v, y, aux)
<1> TAKE v, x, y, aux
<1> DEFINE s == v > 127
           z == v = 0
           p == Cardinality({w \in Weights : BitsOf(v)[w] = 1}) % 2 = 0
<1>1. \A b : FlagsOf(v, b, aux) = [s |-> s, z |-> z, p |-> p, a |-> aux, c |-> b]
  BY DEF FlagsOf
<1> HIDE DEF s, z, p
<1> QED
  BY <1>1

LEMMA ResultIs ==
  ASSUME NEW m \in Machine, NEW v \in Byte, NEW aux \in BOOLEAN, NEW carry \in BOOLEAN
  PROVE  Outcome(Result(m, v, aux, carry)) = <<v, FlagsOf(v, carry, aux)>>
<1> DEFINE f == ZSP([m.cf EXCEPT !["a"] = aux, !["c"] = carry], v)
<1>1. f = FlagsOf(v, carry, aux)
  BY FlagsAre, MembersType
<1>2. Result(m, v, aux, carry) = [m EXCEPT !.reg["a"] = v, !.cf = f]
  BY DEF Result
<1> HIDE DEF f
<1>3. Result(m, v, aux, carry).reg["a"] = v /\ Result(m, v, aux, carry).cf = f
  BY <1>2 DEF Machine, RegName
<1> QED
  BY <1>1, <1>3 DEF Outcome

\* A byte is its nibbles.
LEMMA ByteSplits ==
  ASSUME NEW x \in Byte
  PROVE  \E n \in Nat, r \in 0..15 : x = 16 * n + r /\ x \div 16 = n /\ x % 16 = r
<1>1. /\ x \div 16 \in Nat /\ x % 16 \in 0..15
      /\ x = 16 * (x \div 16) + (x % 16)
  BY DEF Byte
<1> QED
  BY <1>1

\* Bit 4 of a sum, against those of its operands, is the carry out of the low
\* nibble.
LEMMA NibbleCarry ==
  ASSUME NEW x \in Byte, NEW y \in Byte, NEW c \in {0, 1}
  PROVE  ((Bit(x + y + c, 16) + Bit(x, 16) + Bit(y, 16)) % 2 = 1)
           = ((x % 16) + (y % 16) + c > 15)
<1>1. PICK n \in Nat, r \in 0..15 : x = 16 * n + r /\ x \div 16 = n /\ x % 16 = r
  BY ByteSplits
<1>2. PICK k \in Nat, u \in 0..15 : y = 16 * k + u /\ y \div 16 = k /\ y % 16 = u
  BY ByteSplits
<1>3. Bit(x, 16) = n % 2 /\ Bit(y, 16) = k % 2
  BY <1>1, <1>2 DEF Bit
<1>4. CASE r + u + c > 15
  <2>1. (x + y + c) \div 16 = n + k + 1
    BY <1>1, <1>2, <1>4
  <2>2. (((n + k + 1) % 2) + (n % 2) + (k % 2)) % 2 = 1
    OBVIOUS
  <2> QED BY <1>1, <1>2, <1>3, <1>4, <2>1, <2>2 DEF Bit
<1>5. CASE r + u + c <= 15
  <2>1. (x + y + c) \div 16 = n + k
    BY <1>1, <1>2, <1>5
  <2>2. (((n + k) % 2) + (n % 2) + (k % 2)) % 2 = 0
    OBVIOUS
  <2> QED BY <1>1, <1>2, <1>3, <1>5, <2>1, <2>2 DEF Bit
<1> QED
  BY <1>1, <1>2, <1>4, <1>5

\* ADD and ADC: the sum modulo 256, the carries out of bits 3 and 7.
LEMMA AddIs ==
  ASSUME NEW m \in Machine, NEW v \in Byte, NEW c \in BOOLEAN, NEW k, k = FlagBit(c),
         NEW sum, sum = m.reg["a"] + v + k
  PROVE  Outcome(op_add(m, v, c))
           = <<sum % 256, FlagsOf(sum % 256, sum > 255, (m.reg["a"] % 16) + (v % 16) + k > 15)>>
<1> DEFINE a == m.reg["a"]
           aux == (a % 16) + (v % 16) + k > 15
           carry == sum > 255
<1>1. a \in Byte /\ k \in {0, 1}
  BY MembersType, FlagBitType DEF RegName
<1>2. sum \in Int
  BY <1>1, ByteIsInt
<1>3. Wrap8(sum) \in Byte /\ Wrap8(sum) = sum % 256
  BY <1>2, WrapType DEF Wrap8
<1>4. ((Bit(sum, 16) + Bit(a, 16) + Bit(v, 16)) % 2 = 1) = aux
  BY <1>1, NibbleCarry
<1>5. aux \in BOOLEAN /\ carry \in BOOLEAN
  OBVIOUS
<1>6. op_add(m, v, c) = Result(m, Wrap8(sum), aux, carry)
  BY <1>4 DEF op_add
<1> HIDE DEF aux, carry
<1>7. Outcome(op_add(m, v, c)) = <<Wrap8(sum), FlagsOf(Wrap8(sum), carry, aux)>>
  BY <1>3, <1>5, <1>6, ResultIs
<1> QED
  BY <1>3, <1>7 DEF aux, carry

\* SUB and SBB: the difference modulo 256, the borrow as carry, and the aux
\* flag where the low nibble does not borrow.
LEMMA SubIs ==
  ASSUME NEW m \in Machine, NEW v \in Byte, NEW c \in BOOLEAN, NEW k, k = FlagBit(c),
         NEW diff, diff = m.reg["a"] - v - k
  PROVE  Outcome(op_sub(m, v, c))
           = <<diff % 256, FlagsOf(diff % 256, diff < 0, m.reg["a"] % 16 >= (v % 16) + k)>>
<1> DEFINE a == m.reg["a"]
           w == diff % 256
           aux == a % 16 >= (v % 16) + k
           borrow == diff < 0
           over == ~borrow
           d == ~c
           u == 255 - v
           j == 1 - k
           sum == a + u + j
           r == op_add(m, u, d)
<1>1. a \in Byte /\ k \in {0, 1} /\ u \in Byte /\ a \in Int /\ v \in Int /\ 0 <= v /\ v <= 255
  BY MembersType, Complement, ByteIsInt DEF RegName, FlagBit
<1>2. d \in BOOLEAN /\ j = FlagBit(d)
  BY DEF FlagBit
<1>3. diff \in Int /\ sum = diff + 256
  BY <1>1
<1>4. sum % 256 = w /\ (sum > 255) = over /\ w \in Byte
  BY <1>3 DEF Byte
<1>5. ((a % 16) + (u % 16) + j > 15) = aux
  <2>1. a % 16 \in 0..15 /\ v % 16 \in 0..15
    BY <1>1
  <2>2. (255 - v) % 16 = 15 - (v % 16)
    BY <1>1
  <2> QED BY <1>1, <2>1, <2>2
<1>6. sum = m.reg["a"] + u + j /\ over \in BOOLEAN /\ borrow = ~over
  OBVIOUS
<1>7. op_sub(m, v, c) = [r EXCEPT !.cf["c"] = ~r.cf["c"]]
  BY DEF op_sub
<1> HIDE DEF sum, d, u, j
<1>8. Outcome(r) = <<sum % 256, FlagsOf(sum % 256, sum > 255, (a % 16) + (u % 16) + j > 15)>>
  BY <1>1, <1>2, <1>6, AddIs
<1>9. r \in Machine
  BY <1>1, <1>2, AddQuiet, QuietType
<1> HIDE DEF r, w, aux, over, borrow
<1>10. r.reg["a"] = w /\ r.cf = FlagsOf(w, over, aux)
  BY <1>4, <1>5, <1>8 DEF Outcome
<1> DEFINE turned == ~r.cf["c"]
<1>11. op_sub(m, v, c).reg["a"] = w /\ op_sub(m, v, c).cf = [r.cf EXCEPT !["c"] = turned]
  BY <1>7, <1>9, <1>10 DEF Machine
<1>12. r.cf["c"] = over
  BY <1>10 DEF FlagsOf
<1>13. turned = borrow
  BY <1>6, <1>12
<1> HIDE DEF turned
<1>14. op_sub(m, v, c).cf = [FlagsOf(w, over, aux) EXCEPT !["c"] = borrow]
  BY <1>10, <1>11, <1>13
<1>15. op_sub(m, v, c).cf = FlagsOf(w, borrow, aux)
  BY <1>14, FlagsOfCarry
<1>16. Outcome(op_sub(m, v, c)) = <<w, FlagsOf(w, borrow, aux)>>
  BY <1>11, <1>15 DEF Outcome
<1> QED
  BY <1>16 DEF w, aux, borrow

LEMMA CmpIs ==
  ASSUME NEW m \in Machine, NEW v \in Byte
  PROVE  Outcome(op_cmp(m, v)) = <<m.reg["a"], op_sub(m, v, FALSE).cf>>
<1>1. op_cmp(m, v).reg = m.reg
  BY DEF op_cmp, Machine
<1> QED
  BY <1>1, CompareIsSubtract DEF Outcome

\* INR and DCR set the flags of ADD 1 and SUB 1, the carry aside.
LEMMA CountIs ==
  ASSUME NEW m \in Machine, NEW v, v = m.reg["a"]
  PROVE  /\ inr_flags(m, v).cf = [op_add(m, 1, FALSE).cf EXCEPT !["c"] = m.cf["c"]]
         /\ dcr_flags(m, v).cf = [op_sub(m, 1, FALSE).cf EXCEPT !["c"] = m.cf["c"]]
<1>0. 1 \in Byte /\ 0 = FlagBit(FALSE) /\ FALSE \in BOOLEAN
  BY DEF Byte, FlagBit
<1>1. v \in Byte /\ v \in Int /\ 0 <= v /\ v <= 255
  BY MembersType, ByteIsInt DEF RegName
<1>2. inr(v) \in Byte /\ dcr(v) \in Byte /\ inr(v) = (v + 1) % 256 /\ dcr(v) = (v - 1) % 256
  BY CountQuiet, <1>1 DEF inr, dcr, Wrap8
<1>3. (inr(v) % 16 = 0) = ((v % 16) + (1 % 16) + 0 > 15)
  <2>1. CASE v = 255
    <3>1. inr(v) = 0
      BY <1>2, <2>1
    <3> QED BY <2>1, <3>1
  <2>2. CASE v < 255
    <3>1. inr(v) = v + 1
      BY <1>1, <1>2, <2>2
    <3> QED BY <1>1, <3>1
  <2> QED BY <1>1, <2>1, <2>2
<1>4. (dcr(v) % 16 # 15) = (v % 16 >= (1 % 16) + 0)
  <2>1. CASE v < 1
    <3>1. (v - 1) % 256 = v + 255
      BY <1>1, <2>1
    <3>2. dcr(v) = 255
      BY <1>1, <1>2, <2>1, <3>1
    <3> QED BY <1>1, <2>1, <3>2
  <2>2. CASE v >= 1
    <3>1. dcr(v) = v - 1
      BY <1>1, <1>2, <2>2
    <3> QED BY <1>1, <3>1
  <2> QED BY <1>1, <2>1, <2>2
<1>5. op_add(m, 1, FALSE).cf
        = FlagsOf(inr(v), v + 1 + 0 > 255, (v % 16) + (1 % 16) + 0 > 15)
  <2>1. Outcome(op_add(m, 1, FALSE))
          = <<(v + 1 + 0) % 256,
              FlagsOf((v + 1 + 0) % 256, v + 1 + 0 > 255, (v % 16) + (1 % 16) + 0 > 15)>>
    <3> DEFINE one == 1
               no == FALSE
               k == 0
               sum == v + one + k
    <3>1. one \in Byte /\ no \in BOOLEAN /\ k = FlagBit(no) /\ sum = m.reg["a"] + one + k
      BY <1>0
    <3> HIDE DEF one, no, k, sum
    <3>2. Outcome(op_add(m, one, no))
            = <<sum % 256, FlagsOf(sum % 256, sum > 255, (v % 16) + (one % 16) + k > 15)>>
      BY <3>1, AddIs
    <3> QED BY <3>2, Zenon DEF one, no, k, sum
  <2>2. (v + 1 + 0) % 256 = inr(v)
    BY <1>1, <1>2
  <2> DEFINE n == op_add(m, 1, FALSE)
             on == v + 1 + 0 > 255
             aux == (v % 16) + (1 % 16) + 0 > 15
             q == (v + 1 + 0) % 256
  <2>3. Outcome(n) = <<q, FlagsOf(q, on, aux)>>
    BY <2>1, Zenon
  <2> HIDE DEF n, on, aux, q
  <2>4. n.cf = FlagsOf(q, on, aux)
    BY <2>3 DEF Outcome
  <2>5. q = inr(v)
    BY <2>2 DEF q
  <2>6. n.cf = FlagsOf(inr(v), on, aux)
    BY <2>4, <2>5
  <2> QED BY <2>6 DEF n, on, aux
<1>6. op_sub(m, 1, FALSE).cf
        = FlagsOf(dcr(v), v - 1 - 0 < 0, v % 16 >= (1 % 16) + 0)
  <2>1. Outcome(op_sub(m, 1, FALSE))
          = <<(v - 1 - 0) % 256,
              FlagsOf((v - 1 - 0) % 256, v - 1 - 0 < 0, v % 16 >= (1 % 16) + 0)>>
    <3> DEFINE one == 1
               no == FALSE
               k == 0
               diff == v - one - k
    <3>1. one \in Byte /\ no \in BOOLEAN /\ k = FlagBit(no) /\ diff = m.reg["a"] - one - k
      BY <1>0
    <3> HIDE DEF one, no, k, diff
    <3>2. Outcome(op_sub(m, one, no))
            = <<diff % 256, FlagsOf(diff % 256, diff < 0, m.reg["a"] % 16 >= (one % 16) + k)>>
      BY <3>1, SubIs
    <3> QED BY <3>2, Zenon DEF one, no, k, diff
  <2>2. (v - 1 - 0) % 256 = dcr(v)
    BY <1>1, <1>2
  <2> DEFINE n == op_sub(m, 1, FALSE)
             on == v - 1 - 0 < 0
             aux == v % 16 >= (1 % 16) + 0
             q == (v - 1 - 0) % 256
  <2>3. Outcome(n) = <<q, FlagsOf(q, on, aux)>>
    BY <2>1, Zenon
  <2> HIDE DEF n, on, aux, q
  <2>4. n.cf = FlagsOf(q, on, aux)
    BY <2>3 DEF Outcome
  <2>5. q = dcr(v)
    BY <2>2 DEF q
  <2>6. n.cf = FlagsOf(dcr(v), on, aux)
    BY <2>4, <2>5
  <2> QED BY <2>6 DEF n, on, aux
<1>7. ASSUME NEW aux \in BOOLEAN, NEW w \in Byte, NEW carry \in BOOLEAN
      PROVE  ZSP([m.cf EXCEPT !["a"] = aux], w)
               = [FlagsOf(w, carry, aux) EXCEPT !["c"] = m.cf["c"]]
  <2> DEFINE f == m.cf
             g == [f EXCEPT !["a"] = aux]
  <2>1. f \in [Flag -> BOOLEAN]
    BY MembersType
  <2> HIDE DEF f
  <2>2. g = [f EXCEPT !["a"] = aux, !["c"] = f["c"]]
    BY <2>1 DEF Flag
  <2>3. ZSP(g, w) = FlagsOf(w, f["c"], aux)
    <3>1. f["c"] \in BOOLEAN
      BY <2>1 DEF Flag
    <3> DEFINE c == f["c"]
    <3> HIDE DEF c, g
    <3>2. ZSP([f EXCEPT !["a"] = aux, !["c"] = c], w) = FlagsOf(w, c, aux)
      BY <2>1, <3>1, FlagsAre DEF c
    <3> QED BY <2>2, <3>2 DEF c
  <2>4. [FlagsOf(w, carry, aux) EXCEPT !["c"] = f["c"]] = FlagsOf(w, f["c"], aux)
    BY FlagsOfCarry
  <2> QED BY <2>3, <2>4 DEF f
<1> DEFINE up == (v % 16) + (1 % 16) + 0 > 15
           down == v % 16 >= (1 % 16) + 0
           over == v + 1 + 0 > 255
           under == v - 1 - 0 < 0
<1>8. up \in BOOLEAN /\ down \in BOOLEAN /\ over \in BOOLEAN /\ under \in BOOLEAN
  OBVIOUS
<1>9. inr_flags(m, v).cf = ZSP([m.cf EXCEPT !["a"] = up], inr(v))
  BY <1>3 DEF inr_flags, Machine
<1>10. dcr_flags(m, v).cf = ZSP([m.cf EXCEPT !["a"] = down], dcr(v))
  BY <1>4 DEF dcr_flags, Machine
<1> HIDE DEF up, down, over, under
<1>11. /\ ZSP([m.cf EXCEPT !["a"] = up], inr(v))
           = [FlagsOf(inr(v), over, up) EXCEPT !["c"] = m.cf["c"]]
       /\ ZSP([m.cf EXCEPT !["a"] = down], dcr(v))
           = [FlagsOf(dcr(v), under, down) EXCEPT !["c"] = m.cf["c"]]
  BY <1>2, <1>7, <1>8
<1>12. /\ op_add(m, 1, FALSE).cf = FlagsOf(inr(v), over, up)
       /\ op_sub(m, 1, FALSE).cf = FlagsOf(dcr(v), under, down)
  BY <1>5, <1>6 DEF up, down, over, under
<1> QED
  BY <1>9, <1>10, <1>11, <1>12

\* The arithmetic instructions compute what integers say: for every machine
\* and operand, the sum or the difference modulo 256, with the carries and
\* borrows of the byte and of its low nibble as flags.
THEOREM ArithmeticExact == SweepSpec => []ArithmeticIsExact
<1>1. SweepInv => ArithmeticIsExact
  <2> SUFFICES ASSUME SweepInv
               PROVE  ArithmeticIsExact
    OBVIOUS
  <2>1. cpu \in Machine /\ V \in Byte
    BY MembersType DEF SweepInv, TypeOK, V, RegName
  <2>2. ASSUME NEW c \in {0, 1}
        PROVE  LET sum == A + V + c IN
               Outcome(op_add(cpu, V, c = 1))
                 = <<sum % 256, FlagsOf(sum % 256, sum > 255, (A % 16) + (V % 16) + c > 15)>>
    <3> DEFINE on == c = 1
    <3>1. on \in BOOLEAN /\ c = FlagBit(on)
      BY DEF FlagBit
    <3> HIDE DEF on
    <3>2. Outcome(op_add(cpu, V, on))
            = <<(A + V + c) % 256,
                FlagsOf((A + V + c) % 256, A + V + c > 255, (A % 16) + (V % 16) + c > 15)>>
      BY <2>1, <3>1, AddIs DEF A
    <3> QED BY <3>2 DEF on
  <2>3. ASSUME NEW c \in {0, 1}
        PROVE  LET diff == A - V - c IN
               Outcome(op_sub(cpu, V, c = 1))
                 = <<diff % 256, FlagsOf(diff % 256, diff < 0, A % 16 >= (V % 16) + c)>>
    <3> DEFINE on == c = 1
    <3>1. on \in BOOLEAN /\ c = FlagBit(on)
      BY DEF FlagBit
    <3> HIDE DEF on
    <3>2. Outcome(op_sub(cpu, V, on))
            = <<(A - V - c) % 256,
                FlagsOf((A - V - c) % 256, A - V - c < 0, A % 16 >= (V % 16) + c)>>
      BY <2>1, <3>1, SubIs DEF A
    <3> QED BY <3>2 DEF on
  <2>4. Outcome(op_cmp(cpu, V)) = <<A, op_sub(cpu, V, FALSE).cf>>
    BY <2>1, CmpIs DEF A
  <2>5. /\ inr_flags(cpu, A).cf = [op_add(cpu, 1, FALSE).cf EXCEPT !["c"] = cpu.cf["c"]]
        /\ dcr_flags(cpu, A).cf = [op_sub(cpu, 1, FALSE).cf EXCEPT !["c"] = cpu.cf["c"]]
    BY <2>1, CountIs DEF A
  <2> QED BY <2>2, <2>3, <2>4, <2>5, Zenon DEF ArithmeticIsExact
<1> QED
  BY <1>1, SweepTypes, PTL

-----------------------------------------------------------------------------
(* Logic and rotates.                                                       *)

\* The byte made from eight bits has those bits.
LEMMA BitsOfByte ==
  ASSUME NEW b1 \in {0, 1}, NEW b2 \in {0, 1}, NEW b4 \in {0, 1}, NEW b8 \in {0, 1},
         NEW b16 \in {0, 1}, NEW b32 \in {0, 1}, NEW b64 \in {0, 1}, NEW b128 \in {0, 1},
         NEW x, x = b1 + 2 * b2 + 4 * b4 + 8 * b8 + 16 * b16 + 32 * b32 + 64 * b64 + 128 * b128
  PROVE  /\ Bit(x, 1) = b1 /\ Bit(x, 2) = b2 /\ Bit(x, 4) = b4 /\ Bit(x, 8) = b8
         /\ Bit(x, 16) = b16 /\ Bit(x, 32) = b32 /\ Bit(x, 64) = b64 /\ Bit(x, 128) = b128
<1>1. Bit(x, 1) = b1
  <2>1. x = 2 * (b2 + 2 * b4 + 4 * b8 + 8 * b16 + 16 * b32 + 32 * b64 + 64 * b128) + b1
    OBVIOUS
  <2> QED BY <2>1 DEF Bit
<1>2. Bit(x, 2) = b2
  <2>1. x \div 2 = 2 * (b4 + 2 * b8 + 4 * b16 + 8 * b32 + 16 * b64 + 32 * b128) + b2
    OBVIOUS
  <2> QED BY <2>1 DEF Bit
<1>3. Bit(x, 4) = b4
  <2>1. x \div 4 = 2 * (b8 + 2 * b16 + 4 * b32 + 8 * b64 + 16 * b128) + b4
    OBVIOUS
  <2> QED BY <2>1 DEF Bit
<1>4. Bit(x, 8) = b8
  <2>1. x \div 8 = 2 * (b16 + 2 * b32 + 4 * b64 + 8 * b128) + b8
    OBVIOUS
  <2> QED BY <2>1 DEF Bit
<1>5. Bit(x, 16) = b16
  <2>1. x \div 16 = 2 * (b32 + 2 * b64 + 4 * b128) + b16
    OBVIOUS
  <2> QED BY <2>1 DEF Bit
<1>6. Bit(x, 32) = b32
  <2>1. x \div 32 = 2 * (b64 + 2 * b128) + b32
    OBVIOUS
  <2> QED BY <2>1 DEF Bit
<1>7. Bit(x, 64) = b64
  <2>1. x \div 64 = 2 * b128 + b64
    OBVIOUS
  <2> QED BY <2>1 DEF Bit
<1>8. Bit(x, 128) = b128
  <2>1. x \div 128 = b128
    OBVIOUS
  <2> QED BY <2>1 DEF Bit
<1> QED
  BY <1>1, <1>2, <1>3, <1>4, <1>5, <1>6, <1>7, <1>8

\* And8, Or8 and Xor8 work on each bit by itself.
LEMMA LogicBits ==
  ASSUME NEW x \in Byte, NEW y \in Byte, NEW w \in Weights
  PROVE  /\ Bit(And8(x, y), w) = BitAnd(Bit(x, w), Bit(y, w))
         /\ Bit(Or8(x, y), w) = BitOr(Bit(x, w), Bit(y, w))
         /\ Bit(Xor8(x, y), w) = BitXor(Bit(x, w), Bit(y, w))
<1>1. \A k \in {1, 2, 4, 8, 16, 32, 64, 128} :
        /\ BitAnd(Bit(x, k), Bit(y, k)) \in {0, 1}
        /\ BitOr(Bit(x, k), Bit(y, k)) \in {0, 1}
        /\ BitXor(Bit(x, k), Bit(y, k)) \in {0, 1}
  BY BitType, BitOpType, ByteIsInt
<1>2. Bit(And8(x, y), w) = BitAnd(Bit(x, w), Bit(y, w))
  BY <1>1, BitsOfByte DEF And8, BitByBit, Weights
<1>3. Bit(Or8(x, y), w) = BitOr(Bit(x, w), Bit(y, w))
  BY <1>1, BitsOfByte DEF Or8, BitByBit, Weights
<1>4. Bit(Xor8(x, y), w) = BitXor(Bit(x, w), Bit(y, w))
  BY <1>1, BitsOfByte DEF Xor8, BitByBit, Weights
<1> QED
  BY <1>2, <1>3, <1>4

\* The accumulator after a logic instruction.
LEMMA LogicIs ==
  ASSUME NEW m \in Machine, NEW v \in Byte
  PROVE  /\ op_ana(m, v).reg["a"] = And8(m.reg["a"], v)
         /\ op_ora(m, v).reg["a"] = Or8(m.reg["a"], v)
         /\ op_xra(m, v).reg["a"] = Xor8(m.reg["a"], v)
<1>1. ASSUME NEW w, NEW aux, NEW carry
      PROVE  Result(m, w, aux, carry).reg["a"] = w
  <2> DEFINE f == ZSP([m.cf EXCEPT !["a"] = aux, !["c"] = carry], w)
  <2>1. Result(m, w, aux, carry) = [m EXCEPT !.reg["a"] = w, !.cf = f]
    BY DEF Result
  <2> HIDE DEF f
  <2> QED BY <2>1 DEF Machine, RegName
<1> QED
  BY <1>1, Zenon DEF op_ana, op_ora, op_xra

\* A rotate one way and back.
LEMMA ShiftsBack ==
  ASSUME NEW v \in Byte, NEW c \in {0, 1}
  PROVE  /\ ShiftRight(ShiftLeft(v, c), Bit(v, 128)) = v
         /\ Bit(ShiftLeft(v, c), 1) = c
         /\ ShiftLeft(ShiftRight(v, c), Bit(v, 1)) = v
         /\ Bit(ShiftRight(v, c), 128) = c
<1>1. v \in Int /\ 0 <= v /\ v <= 255
  BY ByteIsInt
<1>2. v = 128 * Bit(v, 128) + (v % 128) /\ v = 2 * (v \div 2) + Bit(v, 1)
  BY <1>1 DEF Bit
<1>3. ShiftLeft(v, c) \div 2 = v % 128 /\ Bit(ShiftLeft(v, c), 1) = c
  BY <1>1 DEF ShiftLeft, Bit
<1>4. ShiftRight(v, c) % 128 = v \div 2 /\ Bit(ShiftRight(v, c), 128) = c
  BY <1>1 DEF ShiftRight, Bit
<1>5. Bit(v, 128) \in Int /\ v % 128 \in Int /\ v \div 2 \in Int /\ Bit(v, 1) \in Int
  BY <1>1, BitType
<1>6. ShiftRight(ShiftLeft(v, c), Bit(v, 128)) = v
  BY <1>2, <1>3, <1>5 DEF ShiftRight
<1>7. ShiftLeft(ShiftRight(v, c), Bit(v, 1)) = v
  BY <1>2, <1>4, <1>5 DEF ShiftLeft
<1> QED
  BY <1>3, <1>4, <1>6, <1>7


\* What a rotation leaves.
Turned(n, m, v, b) ==
  /\ n = [m EXCEPT !.reg = [m.reg EXCEPT !["a"] = v], !.cf = [m.cf EXCEPT !["c"] = b]]
  /\ n.reg = [m.reg EXCEPT !["a"] = v]
  /\ n.cf = [m.cf EXCEPT !["c"] = b]

LEMMA RotatedIs ==
  ASSUME NEW m \in Machine, NEW v, NEW b
  PROVE  Turned(Rotated(m, v, b), m, v, b)
<1> DEFINE R == [m.reg EXCEPT !["a"] = v]
           F == [m.cf EXCEPT !["c"] = b]
           n == Rotated(m, v, b)
<1>1. n = [m EXCEPT !.reg = R, !.cf = F]
  BY DEF Rotated
<1> HIDE DEF R, F, n
<1>2. n.reg = R /\ n.cf = F
  BY <1>1 DEF Machine
<1> QED
  BY <1>1, <1>2 DEF Turned, R, F, n

LEMMA PutTwice ==
  ASSUME NEW D, NEW R, NEW f \in [D -> R], NEW i, NEW x, NEW y
  PROVE  [[f EXCEPT ![i] = x] EXCEPT ![i] = y] = [f EXCEPT ![i] = y]
  OBVIOUS

\* A second rotation leaves nothing of the first.
LEMMA RotatedOver ==
  ASSUME NEW m \in Machine, NEW v, NEW b, NEW w, NEW d
  PROVE  Rotated(Rotated(m, v, b), w, d) = Rotated(m, w, d)
<1> DEFINE R == [m.reg EXCEPT !["a"] = v]
           F == [m.cf EXCEPT !["c"] = b]
           S == [m.reg EXCEPT !["a"] = w]
           G == [m.cf EXCEPT !["c"] = d]
           n == Rotated(m, v, b)
           k == Rotated(m, w, d)
<1>1. [R EXCEPT !["a"] = w] = S /\ [F EXCEPT !["c"] = d] = G
  BY MembersType, PutTwice
<1>2. Rotated(n, w, d)
        = [n EXCEPT !.reg = [n.reg EXCEPT !["a"] = w], !.cf = [n.cf EXCEPT !["c"] = d]]
  BY DEF Rotated
<1>3. Turned(n, m, v, b) /\ Turned(k, m, w, d)
  BY RotatedIs
<1> HIDE DEF n, k
<1>4. n = [m EXCEPT !.reg = R, !.cf = F] /\ n.reg = R /\ n.cf = F
  BY <1>3 DEF Turned
<1>5. k = [m EXCEPT !.reg = S, !.cf = G]
  BY <1>3 DEF Turned
<1> HIDE DEF R, F, S, G
<1>6. Rotated(n, w, d) = [n EXCEPT !.reg = S, !.cf = G]
  BY <1>1, <1>2, <1>4
<1>7. [n EXCEPT !.reg = S, !.cf = G] = [m EXCEPT !.reg = S, !.cf = G]
  BY <1>4 DEF Machine
<1> QED
  BY <1>5, <1>6, <1>7 DEF n, k

LEMMA RotatesBack ==
  ASSUME NEW m \in Machine
  PROVE  /\ op_rar(op_ral(m)) = m
         /\ op_rrc(op_rlc(m)).reg = m.reg
         /\ op_rlc(op_rrc(m)).reg = m.reg
<1> DEFINE a == m.reg["a"]
           c == FlagBit(m.cf["c"])
           top == Bit(a, 128)
           low == Bit(a, 1)
<1>1. /\ a \in Byte /\ c \in {0, 1} /\ top \in {0, 1} /\ low \in {0, 1}
      /\ m.reg \in [RegName -> Byte] /\ m.cf \in [Flag -> BOOLEAN]
  BY MembersType, FlagBitType, BitType, ByteIsInt DEF RegName, Flag
<1>2. \A x \in {0, 1} : FlagBit(x = 1) = x
  BY DEF FlagBit
<1>3. (c = 1) = m.cf["c"]
  BY <1>1 DEF FlagBit, Flag
<1>4. ASSUME NEW v, NEW b \in BOOLEAN
      PROVE  /\ Rotated(m, v, b).reg = [m.reg EXCEPT !["a"] = v]
             /\ Rotated(m, v, b).reg["a"] = v
             /\ Rotated(m, v, b).cf["c"] = b
  BY <1>1 DEF Rotated, Machine, RegName, Flag
<1>5. ASSUME NEW v, NEW b, NEW w, NEW d
      PROVE  /\ Rotated(Rotated(m, v, b), w, d) = Rotated(m, w, d)
             /\ Rotated(Rotated(m, v, b), w, d).reg = [m.reg EXCEPT !["a"] = w]
  <2>1. Rotated(Rotated(m, v, b), w, d) = Rotated(m, w, d)
    BY RotatedOver
  <2>2. Turned(Rotated(m, w, d), m, w, d)
    BY RotatedIs
  <2> QED BY <2>1, <2>2 DEF Turned
<1>6. Rotated(m, a, m.cf["c"]) = m
  BY <1>1 DEF Rotated, Machine, RegName, Flag
<1>7. [m.reg EXCEPT !["a"] = a] = m.reg
  BY <1>1 DEF RegName
<1>8. op_rar(op_ral(m)) = m
  <2> DEFINE n == op_ral(m)
             v == ShiftLeft(a, c)
             on == top = 1
  <2>1. n = Rotated(m, v, on) /\ on \in BOOLEAN
    BY DEF op_ral
  <2> HIDE DEF n, on, v
  <2>2. n.reg["a"] = v /\ n.cf["c"] = on
    BY <1>4, <2>1
  <2>3. FlagBit(n.cf["c"]) = top
    BY <1>1, <1>2, <2>2 DEF on
  <2>4. op_rar(n) = Rotated(n, ShiftRight(v, top), Bit(v, 1) = 1)
    BY <2>2, <2>3 DEF op_rar
  <2>5. ShiftRight(v, top) = a /\ Bit(v, 1) = c
    BY <1>1, ShiftsBack DEF v
  <2>6. op_rar(n) = Rotated(n, a, m.cf["c"])
    BY <1>3, <2>4, <2>5
  <2> DEFINE carry == m.cf["c"]
  <2> HIDE DEF carry
  <2>7. Rotated(Rotated(m, v, on), a, carry) = Rotated(m, a, carry)
    BY RotatedOver
  <2> QED BY <1>6, <2>1, <2>6, <2>7 DEF n, carry
<1>9. op_rrc(op_rlc(m)).reg = m.reg
  <2> DEFINE n == op_rlc(m)
             v == ShiftLeft(a, top)
             on == top = 1
  <2>1. n = Rotated(m, v, on) /\ on \in BOOLEAN
    BY DEF op_rlc
  <2> HIDE DEF n, on, v
  <2>2. n.reg["a"] = v
    BY <1>4, <2>1
  <2>3. op_rrc(n) = Rotated(n, ShiftRight(v, Bit(v, 1)), Bit(v, 1) = 1)
    BY <2>2 DEF op_rrc
  <2>4. ShiftRight(v, top) = a /\ Bit(v, 1) = top
    BY <1>1, ShiftsBack DEF v
  <2> QED BY <1>5, <1>7, <2>1, <2>3, <2>4 DEF n
<1>10. op_rlc(op_rrc(m)).reg = m.reg
  <2> DEFINE n == op_rrc(m)
             v == ShiftRight(a, low)
             on == low = 1
  <2>1. n = Rotated(m, v, on) /\ on \in BOOLEAN
    BY DEF op_rrc
  <2> HIDE DEF n, on, v
  <2>2. n.reg["a"] = v
    BY <1>4, <2>1
  <2>3. op_rlc(n) = Rotated(n, ShiftLeft(v, Bit(v, 128)), Bit(v, 128) = 1)
    BY <2>2 DEF op_rlc
  <2>4. ShiftLeft(v, low) = a /\ Bit(v, 128) = low
    BY <1>1, ShiftsBack DEF v
  <2> QED BY <1>5, <1>7, <2>1, <2>3, <2>4 DEF n
<1> QED
  BY <1>8, <1>9, <1>10

\* ANA, ORA and XRA work bit by bit, and a rotate one way undoes the rotate
\* the other way: for every machine and operand.
THEOREM LogicBitwise == SweepSpec => []LogicIsBitwise
<1>1. SweepInv => LogicIsBitwise
  <2> SUFFICES ASSUME SweepInv
               PROVE  LogicIsBitwise
    OBVIOUS
  <2>1. cpu \in Machine /\ A \in Byte /\ V \in Byte
    BY MembersType DEF SweepInv, TypeOK, A, V, RegName
  <2> DEFINE a == BitsOf(A)
             b == BitsOf(V)
  <2>2. \A v : BitsOf(v) = [w \in Weights |-> Bit(v, w)]
    BY DEF BitsOf, Bit
  <2>3. \A w \in Weights : a[w] = Bit(A, w) /\ b[w] = Bit(V, w)
    BY <2>2
  <2>4. \A w \in Weights : Bit(A, w) \in {0, 1} /\ Bit(V, w) \in {0, 1}
    BY <2>1, BitType, ByteIsInt DEF Weights
  <2> HIDE DEF a, b
  <2>5. /\ \A w \in Weights : BitAnd(Bit(A, w), Bit(V, w)) = IF a[w] + b[w] = 2 THEN 1 ELSE 0
        /\ \A w \in Weights : BitOr(Bit(A, w), Bit(V, w)) = IF a[w] + b[w] > 0 THEN 1 ELSE 0
        /\ \A w \in Weights : BitXor(Bit(A, w), Bit(V, w)) = IF a[w] # b[w] THEN 1 ELSE 0
    BY <2>3, <2>4 DEF BitAnd, BitOr, BitXor
  <2>6. BitsOf(op_ana(cpu, V).reg["a"]) = [w \in Weights |-> IF a[w] + b[w] = 2 THEN 1 ELSE 0]
    BY <2>1, <2>2, <2>5, LogicIs, LogicBits DEF A
  <2>7. BitsOf(op_ora(cpu, V).reg["a"]) = [w \in Weights |-> IF a[w] + b[w] > 0 THEN 1 ELSE 0]
    BY <2>1, <2>2, <2>5, LogicIs, LogicBits DEF A
  <2>8. BitsOf(op_xra(cpu, V).reg["a"]) = [w \in Weights |-> IF a[w] # b[w] THEN 1 ELSE 0]
    BY <2>1, <2>2, <2>5, LogicIs, LogicBits DEF A
  <2>9. /\ op_rar(op_ral(cpu)) = cpu
        /\ op_rrc(op_rlc(cpu)).reg = cpu.reg
        /\ op_rlc(op_rrc(cpu)).reg = cpu.reg
    BY <2>1, RotatesBack
  <2> QED BY <2>6, <2>7, <2>8, <2>9 DEF LogicIsBitwise, a, b
<1> QED
  BY <1>1, SweepTypes, PTL

-----------------------------------------------------------------------------
(* The decimal adjustment.                                                  *)

\* A byte of two digits, and what it stands for.
LEMMA Digits ==
  ASSUME NEW p \in 0..9, NEW q \in 0..9, NEW r, r = 16 * p + q
  PROVE  IsBcd(r) /\ FromBcd(r) = 10 * p + q
<1>1. r % 16 = q /\ r \div 16 = p
  OBVIOUS
<1> QED
  BY <1>1 DEF IsBcd, FromBcd

\* What DAA does to the sum s of two packed decimals, where d is the sum of the
\* low digits and the carry in, and e that of the high digits: r is what it
\* leaves in the accumulator, low and high the two corrections it adds.
Adjusts(d, e, s, low, high, r) ==
  /\ d \in 0..19 /\ e \in 0..18 /\ s = (16 * e + d) % 256
  /\ low \in {0, 6} /\ (low = 6 <=> (s % 16 > 9 \/ d > 15))
  /\ high \in {0, 96}
  /\ high = 96 <=> (s \div 16 > 9 \/ 16 * e + d > 255 \/ (s \div 16 >= 9 /\ s % 16 > 9))
  /\ r = (s + low + high) % 256

\* The corrected byte is packed decimal again, and with the carry of the high
\* correction it stands for the decimal sum.
LEMMA Adjusted ==
  ASSUME NEW d, NEW e, NEW s, NEW low, NEW high, NEW r, Adjusts(d, e, s, low, high, r)
  PROVE  /\ IsBcd(r)
         /\ FromBcd(r) + (IF high = 96 THEN 100 ELSE 0) = 10 * e + d
<1>0. /\ d \in 0..19 /\ e \in 0..18 /\ s = (16 * e + d) % 256
      /\ low \in {0, 6} /\ (low = 6 <=> (s % 16 > 9 \/ d > 15))
      /\ high \in {0, 96}
      /\ high = 96 <=> (s \div 16 > 9 \/ 16 * e + d > 255 \/ (s \div 16 >= 9 /\ s % 16 > 9))
      /\ r = (s + low + high) % 256
  BY DEF Adjusts
<1>a. d \in 0..19 /\ e \in 0..18
  BY <1>0
<1>1. PICK f \in 0..19, g \in 0..15 :
        /\ 16 * e + d = 16 * f + g
        /\ d > 15 => f = e + 1 /\ g = d - 16
        /\ d <= 15 => f = e /\ g = d
  <2>1. CASE d > 15
    <3>1. e + 1 \in 0..19 /\ d - 16 \in 0..15 /\ 16 * e + d = 16 * (e + 1) + (d - 16)
      BY <1>a, <2>1
    <3>2. ~(d <= 15)
      BY <1>a, <2>1
    <3> QED BY <3>1, <3>2
  <2>2. CASE d <= 15
    <3>1. e \in 0..19 /\ d \in 0..15 /\ ~(d > 15)
      BY <1>a, <2>2
    <3> QED BY <3>1
  <2> QED BY <1>a, <2>1, <2>2
<1> USE <1>0
<1>2. /\ f <= 15 => s = 16 * f + g
      /\ f > 15 => s = 16 * (f - 16) + g
  BY <1>1
<1>3. /\ s % 16 = g
      /\ f <= 15 => s \div 16 = f
      /\ f > 15 => s \div 16 = f - 16 /\ s \div 16 <= 3
  BY <1>1, <1>2
<1>4. 16 * e + d > 255 <=> f > 15
  BY <1>1
<1>5. low = 6 <=> d > 9
  BY <1>1, <1>3
<1>6. high = 96 <=> (f > 9 \/ (f = 9 /\ g > 9))
  BY <1>1, <1>3, <1>4
<1>7. /\ d > 9 => (high = 96 <=> e >= 9)
      /\ d <= 9 => (high = 96 <=> e >= 10)
  BY <1>1, <1>6
<1>8. CASE d > 9 /\ e >= 9
  <2>1. r = 16 * (e - 9) + (d - 10)
    <3>1. low = 6 /\ high = 96
      BY <1>5, <1>7, <1>8
    <3>2. /\ f <= 15 => s + low + high = 256 + 16 * (e - 9) + (d - 10)
          /\ f > 15 => s + low + high = 16 * (e - 9) + (d - 10)
      BY <1>1, <1>2, <3>1
    <3> QED BY <1>1, <1>8, <3>2
  <2>2. e - 9 \in 0..9 /\ d - 10 \in 0..9
    BY <1>8
  <2>3. IsBcd(r) /\ FromBcd(r) = 10 * (e - 9) + (d - 10)
    BY <2>1, <2>2, Digits
  <2> QED BY <1>7, <1>8, <2>3
<1>9. CASE d > 9 /\ e < 9
  <2>1. r = 16 * (e + 1) + (d - 10)
    <3>1. low = 6 /\ high = 0
      BY <1>5, <1>7, <1>9
    <3>2. s + low + high = 16 * (e + 1) + (d - 10)
      BY <1>1, <1>2, <1>9, <3>1
    <3> QED BY <1>9, <3>2
  <2>2. e + 1 \in 0..9 /\ d - 10 \in 0..9
    BY <1>9
  <2>3. IsBcd(r) /\ FromBcd(r) = 10 * (e + 1) + (d - 10)
    BY <2>1, <2>2, Digits
  <2> QED BY <1>7, <1>9, <2>3
<1>10. CASE d <= 9 /\ e >= 10
  <2>1. r = 16 * (e - 10) + d
    <3>1. low = 0 /\ high = 96
      BY <1>5, <1>7, <1>10
    <3>2. /\ f <= 15 => s + low + high = 256 + 16 * (e - 10) + d
          /\ f > 15 => s + low + high = 16 * (e - 10) + d
      BY <1>1, <1>2, <1>10, <3>1
    <3> QED BY <1>1, <1>10, <3>2
  <2>2. e - 10 \in 0..9 /\ d \in 0..9
    BY <1>10
  <2>3. IsBcd(r) /\ FromBcd(r) = 10 * (e - 10) + d
    BY <2>1, <2>2, Digits
  <2> QED BY <1>7, <1>10, <2>3
<1>11. CASE d <= 9 /\ e < 10
  <2>1. r = 16 * e + d
    <3>1. low = 0 /\ high = 0
      BY <1>5, <1>7, <1>11
    <3>2. s + low + high = 16 * e + d
      BY <1>1, <1>2, <1>11, <3>1
    <3> QED BY <1>11, <3>2
  <2>2. e \in 0..9 /\ d \in 0..9
    BY <1>11
  <2>3. IsBcd(r) /\ FromBcd(r) = 10 * e + d
    BY <2>1, <2>2, Digits
  <2> QED BY <1>7, <1>11, <2>3
<1> QED
  BY <1>8, <1>9, <1>10, <1>11

\* The accumulator and the carry DAA leaves.
LEMMA DaaIs ==
  ASSUME NEW m \in Machine,
         NEW low, low = IF daa_low(m) THEN 6 ELSE 0,
         NEW high, high = IF daa_high(m) THEN 96 ELSE 0
  PROVE  /\ op_daa(m).reg["a"] = (m.reg["a"] + low + high) % 256
         /\ FlagBit(op_daa(m).cf["c"]) = IF high = 96 THEN 1 ELSE 0
<1> DEFINE addition == low + high
           no == FALSE
           k == 0
           sum == m.reg["a"] + addition + k
           r == op_add(m, addition, no)
           carry == m.cf["c"] \/ daa_high(m)
<1>0. low \in {0, 6} /\ high \in {0, 96} /\ (high = 96 <=> daa_high(m))
  OBVIOUS
<1>1. addition \in Byte /\ m.reg["a"] \in Int
  <2>1. low + high \in Byte
    BY <1>0 DEF Byte
  <2>2. m.reg["a"] \in Int
    BY MembersType, ByteIsInt DEF RegName
  <2> QED BY <2>1, <2>2
<1>2. no \in BOOLEAN /\ k = FlagBit(no) /\ sum = m.reg["a"] + addition + k
  BY DEF FlagBit
<1>3. op_daa(m) = [r EXCEPT !.cf["c"] = carry] /\ carry \in BOOLEAN
  BY DEF op_daa
<1>4. sum = m.reg["a"] + low + high
  BY <1>0, <1>1
<1>5. carry <=> high = 96
  BY <1>0 DEF daa_high
<1> HIDE DEF no, k, sum, addition, carry
<1>6. r \in Machine
  BY <1>1, <1>2, AddQuiet, QuietType
<1>7. Outcome(r) = <<sum % 256, FlagsOf(sum % 256, sum > 255,
                                        (m.reg["a"] % 16) + (addition % 16) + k > 15)>>
  BY <1>1, <1>2, AddIs
<1>8. r.reg["a"] = sum % 256
  BY <1>7 DEF Outcome
<1> HIDE DEF r
<1>9. op_daa(m).reg["a"] = sum % 256 /\ op_daa(m).cf["c"] = carry
  BY <1>3, <1>6, <1>8 DEF Machine, Flag
<1>10. FlagBit(carry) = IF high = 96 THEN 1 ELSE 0
  BY <1>3, <1>5 DEF FlagBit
<1> QED
  BY <1>4, <1>9, <1>10

\* A packed decimal is its digits.
LEMMA DigitsOf ==
  ASSUME NEW v \in Byte, IsBcd(v)
  PROVE  \E p \in 0..9, q \in 0..9 :
           v = 16 * p + q /\ v % 16 = q /\ FromBcd(v) = 10 * p + q
<1>1. PICK n \in Nat, r \in 0..15 : v = 16 * n + r /\ v \div 16 = n /\ v % 16 = r
  BY ByteSplits
<1>2. n \in 0..9 /\ r \in 0..9
  BY <1>1 DEF IsBcd
<1> QED
  BY <1>1, <1>2 DEF FromBcd

\* DAA makes decimal arithmetic of ADD and ADC: for every two packed decimals
\* and carry in, the packed decimal of their sum, with the hundred as carry.
THEOREM DecimalAddition == SweepSpec => []DecimalAdjusts
<1>1. SweepInv => DecimalAdjusts
  <2> SUFFICES ASSUME SweepInv, IsBcd(A), IsBcd(V)
               PROVE  LET r == op_daa(op_add(cpu, V, cpu.cf["c"]))
                      IN /\ IsBcd(r.reg["a"])
                         /\ FromBcd(r.reg["a"]) + 100 * FlagBit(r.cf["c"])
                              = FromBcd(A) + FromBcd(V) + C
    BY DEF DecimalAdjusts
  <2> DEFINE on == cpu.cf["c"]
             n == op_add(cpu, V, on)
             low == IF daa_low(n) THEN 6 ELSE 0
             high == IF daa_high(n) THEN 96 ELSE 0
             r == op_daa(n)
  <2>1. cpu \in Machine /\ A \in Byte /\ V \in Byte /\ on \in BOOLEAN /\ C \in {0, 1}
        /\ C = FlagBit(on)
    BY MembersType, FlagBitType DEF SweepInv, TypeOK, A, V, C, RegName, Flag
  <2>2. PICK p \in 0..9, q \in 0..9 : A = 16 * p + q /\ A % 16 = q /\ FromBcd(A) = 10 * p + q
    BY <2>1, DigitsOf
  <2>3. PICK x \in 0..9, y \in 0..9 : V = 16 * x + y /\ V % 16 = y /\ FromBcd(V) = 10 * x + y
    BY <2>1, DigitsOf
  <2> DEFINE d == q + y + C
             e == p + x
             s == (16 * e + d) % 256
  <2>4. d \in 0..19 /\ e \in 0..18 /\ A + V + C = 16 * e + d
    BY <2>1, <2>2, <2>3
  <2> HIDE DEF on, n
  <2>5. Outcome(n) = <<(A + V + C) % 256,
                       FlagsOf((A + V + C) % 256, A + V + C > 255, (A % 16) + (V % 16) + C > 15)>>
    BY <2>1, AddIs DEF n, A
  <2>6. n.reg["a"] = s /\ n.cf["c"] = (16 * e + d > 255) /\ n.cf["a"] = (d > 15)
    BY <2>2, <2>3, <2>4, <2>5 DEF Outcome, FlagsOf
  <2>7. n \in Machine
    BY <2>1, AddQuiet, QuietType DEF n
  <2> HIDE DEF d, e, s
  <2>8. /\ low \in {0, 6} /\ (low = 6 <=> (s % 16 > 9 \/ d > 15))
        /\ high \in {0, 96}
        /\ high = 96 <=> (s \div 16 > 9 \/ 16 * e + d > 255 \/ (s \div 16 >= 9 /\ s % 16 > 9))
    <3> DEFINE over == 16 * e + d > 255
               aux == d > 15
    <3>1. n.reg["a"] = s /\ n.cf["c"] = over /\ n.cf["a"] = aux
      BY <2>6
    <3> HIDE DEF over, aux
    <3>2. daa_low(n) <=> (s % 16 > 9 \/ aux)
      BY <3>1, Zenon DEF daa_low, Lownib
    <3>3. daa_high(n) <=> (s \div 16 > 9 \/ over \/ (s \div 16 >= 9 /\ s % 16 > 9))
      BY <3>1, Zenon DEF daa_high, Lownib, Highnib
    <3> QED BY <3>2, <3>3 DEF over, aux
  <2>9. /\ r.reg["a"] = (s + low + high) % 256
        /\ FlagBit(r.cf["c"]) = IF high = 96 THEN 1 ELSE 0
    BY <2>6, <2>7, DaaIs
  <2> HIDE DEF low, high, r
  <2>10. /\ IsBcd(r.reg["a"])
         /\ FromBcd(r.reg["a"]) + (IF high = 96 THEN 100 ELSE 0) = 10 * e + d
    <3>1. Adjusts(d, e, s, low, high, r.reg["a"])
      BY <2>4, <2>8, <2>9 DEF Adjusts, s
    <3> QED BY <3>1, Adjusted
  <2>11. 10 * e + d = FromBcd(A) + FromBcd(V) + C
    BY <2>1, <2>2, <2>3 DEF d, e
  <2>12. 100 * FlagBit(r.cf["c"]) = IF high = 96 THEN 100 ELSE 0
    BY <2>9
  <2> QED BY <2>10, <2>11, <2>12 DEF r, n, on
<1> QED
  BY <1>1, SweepTypes, PTL

-----------------------------------------------------------------------------
(* The decoder against the disassembler's table.                            *)

\* n has the pc, the cycles and, but for those in F, the flags of m.
Keeps(n, m, F) == /\ n.pc = m.pc
                  /\ n.cycles = m.cycles
                  /\ \A f \in Flag \ F : n.cf[f] = m.cf[f]

LEMMA KeepsSelf == \A m, F : Keeps(m, m, F)
  BY DEF Keeps

LEMMA KeepsTrans ==
  ASSUME NEW k, NEW n, NEW m, NEW F, Keeps(k, n, F), Keeps(n, m, F)
  PROVE  Keeps(k, m, F)
  BY DEF Keeps

LEMMA KeepsMore ==
  ASSUME NEW n, NEW m, NEW F, NEW G, F \subseteq G, Keeps(n, m, F)
  PROVE  Keeps(n, m, G)
  BY DEF Keeps

LEMMA SetKeeps ==
  ASSUME NEW m \in Machine, NEW F
  PROVE  /\ \A x : Keeps([m EXCEPT !.reg = x], m, F)
         /\ \A x : Keeps([m EXCEPT !.mem = x], m, F)
         /\ \A x : Keeps([m EXCEPT !.sp = x], m, F)
         /\ \A x : Keeps([m EXCEPT !.halted = x], m, F)
         /\ \A x : Keeps([m EXCEPT !.inte = x], m, F)
         /\ \A x, y : Keeps([m EXCEPT !.inte = x, !.interrupt_delay = y], m, F)
  BY DEF Keeps, Machine

LEMMA SetFlagsKeeps ==
  ASSUME NEW m \in Machine
  PROVE  /\ \A x : Keeps([m EXCEPT !.cf = x], m, Flag)
         /\ \A x, y : Keeps([m EXCEPT !.reg = x, !.cf = y], m, Flag)
         /\ \A b : Keeps([m EXCEPT !.cf["c"] = b], m, CY)
         /\ \A x, b : Keeps([m EXCEPT !.reg = x, !.cf["c"] = b], m, CY)
  BY DEF Keeps, Machine, Flag, CY

LEMMA WriteKeeps ==
  ASSUME NEW m \in Machine, NEW F
  PROVE  /\ \A addr \in Int : \A b : Keeps(WriteByte(m, addr, b), m, F)
         /\ \A addr \in Int, w \in Word : Keeps(WriteWord(m, addr, w), m, F)
<1>1. \A n \in Machine : \A addr, b : Keeps(WriteByte(n, addr, b), n, F)
  BY SetKeeps DEF WriteByte
<1>2. ASSUME NEW addr \in Int, NEW w \in Word
      PROVE  Keeps(WriteWord(m, addr, w), m, F)
  <2> DEFINE n == WriteByte(m, addr, Low(w))
  <2>1. n \in Machine
    BY BytesType, WriteByteQuiet, QuietType
  <2>2. Keeps(n, m, F)
    BY <1>1
  <2> HIDE DEF n
  <2>3. Keeps(WriteByte(n, Wrap16(addr + 1), High(w)), n, F)
    BY <1>1, <2>1
  <2> QED BY <2>2, <2>3, KeepsTrans DEF WriteWord, n
<1> QED
  BY <1>1, <1>2

LEMMA PairKeeps ==
  ASSUME NEW m \in Machine, NEW F
  PROVE  /\ \A hi, lo, w : Keeps(SetPair(m, hi, lo, w), m, F)
         /\ \A w : Keeps(SetHL(m, w), m, F)
         /\ \A i, w : Keeps(Set16(m, i, w), m, F)
         /\ \A i, v : Keeps(Set8(m, i, v), m, F)
<1>1. \A hi, lo, w : Keeps(SetPair(m, hi, lo, w), m, F)
  BY SetKeeps DEF SetPair
<1>2. \A w : Keeps(SetHL(m, w), m, F)
  BY <1>1 DEF SetHL
<1>3. \A i, w : Keeps(Set16(m, i, w), m, F)
  BY <1>1, <1>2, SetKeeps DEF Set16
<1>4. HL(m) \in Int
  BY HLType, WordIsInt
<1>5. \A i, v : Keeps(Set8(m, i, v), m, F)
  BY <1>4, SetKeeps, WriteKeeps DEF Set8
<1> QED
  BY <1>1, <1>2, <1>3, <1>5

LEMMA StackKeeps ==
  ASSUME NEW m \in Machine, NEW F
  PROVE  /\ \A w \in Word : Keeps(StackPush(m, w), m, F)
         /\ Keeps(StackDrop(m), m, F)
<1> DEFINE sp == Wrap16(m.sp - 2)
           n == [m EXCEPT !.sp = sp]
<1>1. sp \in Word /\ sp \in Int
  BY MembersType, WordIsInt, WrapType
<1>2. n \in Machine /\ Keeps(n, m, F) /\ Keeps(StackDrop(m), m, F)
  BY <1>1, SetSpQuiet, QuietType, SetKeeps DEF StackDrop
<1> HIDE DEF n, sp
<1>3. \A w \in Word : Keeps(WriteWord(n, sp, w), n, F)
  BY <1>1, <1>2, WriteKeeps
<1> QED
  BY <1>2, <1>3, KeepsTrans DEF StackPush, n, sp

\* The arithmetic and logic helpers touch the flags s_dasm_lut gives them.
LEMMA ResultKeeps ==
  ASSUME NEW m \in Machine
  PROVE  \A v, aux, carry : Keeps(Result(m, v, aux, carry), m, Flag)
  BY SetFlagsKeeps DEF Result

LEMMA AddKeeps ==
  ASSUME NEW m \in Machine, NEW v, NEW c
  PROVE  Keeps(op_add(m, v, c), m, Flag)
<1> DEFINE sres == m.reg["a"] + v + FlagBit(c)
           sum == Wrap8(sres)
           aux == (Bit(sres, 16) + Bit(m.reg["a"], 16) + Bit(v, 16)) % 2 = 1
           carry == sres > 255
<1>1. op_add(m, v, c) = Result(m, sum, aux, carry)
  BY DEF op_add
<1> HIDE DEF sum, aux, carry
<1>2. Keeps(Result(m, sum, aux, carry), m, Flag)
  BY ResultKeeps
<1> QED
  BY <1>1, <1>2

LEMMA AluKeeps ==
  ASSUME NEW m \in Machine, NEW y, NEW v \in Byte
  PROVE  Keeps(alu(m, y, v), m, Flag)
<1>1. \A c : Keeps(op_add(m, v, c), m, Flag)
  BY AddKeeps
<1>2. ASSUME NEW c \in BOOLEAN
      PROVE  Keeps(op_sub(m, v, c), m, Flag)
  <2> DEFINE d == ~c
             u == 255 - v
             r == op_add(m, u, d)
             x == ~r.cf["c"]
  <2>1. d \in BOOLEAN /\ u \in Byte
    BY Complement
  <2>2. op_sub(m, v, c) = [r EXCEPT !.cf["c"] = x]
    BY DEF op_sub
  <2> HIDE DEF d, u, x
  <2>3. r \in Machine /\ Keeps(r, m, Flag)
    BY <2>1, AddQuiet, QuietType, ResultKeeps DEF op_add
  <2> HIDE DEF r
  <2>4. Keeps([r EXCEPT !.cf["c"] = x], r, Flag)
    BY <2>3, SetFlagsKeeps, KeepsMore DEF CY, Flag
  <2> QED BY <2>2, <2>3, <2>4, KeepsTrans
<1>3. Keeps(op_ana(m, v), m, Flag) /\ Keeps(op_xra(m, v), m, Flag) /\ Keeps(op_ora(m, v), m, Flag)
  BY ResultKeeps DEF op_ana, op_xra, op_ora
<1>4. Keeps(op_cmp(m, v), m, Flag)
  BY SetFlagsKeeps DEF op_cmp
<1>5. m.cf["c"] \in BOOLEAN
  BY MembersType DEF Flag
<1> DEFINE c == m.cf["c"]
<1> HIDE DEF c
<1>6. /\ Keeps(op_add(m, v, FALSE), m, Flag) /\ Keeps(op_add(m, v, c), m, Flag)
      /\ Keeps(op_sub(m, v, FALSE), m, Flag) /\ Keeps(op_sub(m, v, c), m, Flag)
  BY <1>1, <1>2, <1>5 DEF c
<1> QED
  BY <1>3, <1>4, <1>6 DEF alu, c

LEMMA CountKeeps ==
  ASSUME NEW m \in Machine, NEW v
  PROVE  Keeps(inr_flags(m, v), m, SZACP) /\ Keeps(dcr_flags(m, v), m, SZACP)
<1>1. ASSUME NEW aux, NEW w
      PROVE  Keeps([m EXCEPT !.cf = ZSP([m.cf EXCEPT !["a"] = aux], w)], m, SZACP)
  <2> DEFINE f == ZSP([m.cf EXCEPT !["a"] = aux], w)
  <2>1. f["c"] = m.cf["c"]
    <3> DEFINE s == w >= 128
               z == w = 0
               p == Parity(w)
    <3>1. f = [m.cf EXCEPT !["a"] = aux, !["s"] = s, !["z"] = z, !["p"] = p]
      BY DEF ZSP
    <3> HIDE DEF s, z, p
    <3> QED BY <3>1, MembersType DEF Flag
  <2> HIDE DEF f
  <2> DEFINE n == [m EXCEPT !.cf = f]
  <2>2. n.pc = m.pc /\ n.cycles = m.cycles /\ n.cf = f
    BY DEF Machine
  <2>3. \A x \in Flag \ SZACP : x = "c"
    BY DEF Flag, SZACP
  <2> HIDE DEF n
  <2>4. Keeps(n, m, SZACP)
    BY <2>1, <2>2, <2>3 DEF Keeps
  <2> QED BY <2>4 DEF n, f
<1> QED
  BY <1>1 DEF inr_flags, dcr_flags

LEMMA RotateKeeps ==
  ASSUME NEW m \in Machine
  PROVE  /\ Keeps(op_rlc(m), m, CY) /\ Keeps(op_rrc(m), m, CY)
         /\ Keeps(op_ral(m), m, CY) /\ Keeps(op_rar(m), m, CY)
         /\ Keeps(op_stc(m), m, CY) /\ Keeps(op_cmc(m), m, CY)
<1>1. \A v, b : Keeps(Rotated(m, v, b), m, CY)
  BY SetFlagsKeeps DEF Rotated
<1>2. \A b : Keeps([m EXCEPT !.cf["c"] = b], m, CY)
  BY SetFlagsKeeps
<1> QED
  BY <1>1, <1>2 DEF op_rlc, op_rrc, op_ral, op_rar, op_stc, op_cmc

LEMMA DadKeeps ==
  ASSUME NEW m \in Machine, NEW w \in Word
  PROVE  Keeps(op_dad(m, w), m, CY)
<1> DEFINE carry == HL(m) + w > 65535
           n == [m EXCEPT !.cf["c"] = carry]
<1>1. carry \in BOOLEAN
  OBVIOUS
<1> HIDE DEF carry
<1>2. n \in Machine /\ Keeps(n, m, CY)
  BY <1>1, SetFlagQuiet, QuietType, SetFlagsKeeps DEF Flag
<1> HIDE DEF n
<1>3. Keeps(SetHL(n, Wrap16(HL(m) + w)), n, CY)
  BY <1>2, PairKeeps
<1> QED
  BY <1>2, <1>3, KeepsTrans DEF op_dad, n, carry

LEMMA DaaKeeps ==
  ASSUME NEW m \in Machine
  PROVE  Keeps(op_daa(m), m, Flag)
<1> DEFINE addition == (IF daa_low(m) THEN 6 ELSE 0) + (IF daa_high(m) THEN 96 ELSE 0)
           r == op_add(m, addition, FALSE)
           carry == m.cf["c"] \/ daa_high(m)
<1>1. addition \in Byte
  BY DEF Byte
<1>2. op_daa(m) = [r EXCEPT !.cf["c"] = carry]
  BY DEF op_daa
<1> HIDE DEF addition, carry
<1>3. r \in Machine /\ Keeps(r, m, Flag)
  <2>1. Quiet(r, m)
    BY <1>1, AddQuiet
  <2> QED BY <2>1, QuietType, AddKeeps
<1> HIDE DEF r
<1>4. Keeps([r EXCEPT !.cf["c"] = carry], r, Flag)
  BY <1>3, SetFlagsKeeps, KeepsMore DEF CY, Flag
<1> QED
  BY <1>2, <1>3, <1>4, KeepsTrans

\* What an instruction that does not branch leaves: the pc past its operands,
\* the cycles of the table, and the flags the table does not list for it.
Follows(n, m, op) ==
  /\ n.pc = Wrap16(m.pc + size(op) - 1)
  /\ n.cycles = m.cycles
  /\ op \notin Unlisted => \A f \in Flag \ condbits_affected(op) : n.cf[f] = m.cf[f]

LEMMA SkipIs ==
  ASSUME NEW m \in Machine, NEW F
  PROVE  /\ Wrap16(m.pc + 1 - 1) = m.pc
         /\ SkipByte(m).pc = Wrap16(m.pc + 2 - 1)
         /\ SkipWord(m).pc = Wrap16(m.pc + 3 - 1)
         /\ SkipByte(m).cycles = m.cycles /\ SkipByte(m).cf = m.cf
         /\ SkipWord(m).cycles = m.cycles /\ SkipWord(m).cf = m.cf
<1>1. m.pc \in Int /\ 0 <= m.pc /\ m.pc <= 65535
  BY MembersType, WordRange
<1>2. m.pc + 1 - 1 = m.pc /\ m.pc + 2 - 1 = m.pc + 1 /\ m.pc + 3 - 1 = m.pc + 2
  BY <1>1
<1>3. Wrap16(m.pc) = m.pc
  BY <1>1 DEF Wrap16
<1> QED
  BY <1>2, <1>3 DEF SkipByte, SkipWord, Machine

\* From what a helper keeps of a machine, or of the machine past one or two
\* operand bytes, to what the table says.
LEMMA KeepsFollows ==
  ASSUME NEW m \in Machine, NEW op, NEW n, NEW F,
         op \notin Unlisted => F \cap Flag \subseteq condbits_affected(op),
         \/ size(op) = 1 /\ Keeps(n, m, F)
         \/ size(op) = 2 /\ Keeps(n, SkipByte(m), F)
         \/ size(op) = 3 /\ Keeps(n, SkipWord(m), F)
  PROVE  Follows(n, m, op)
<1>1. CASE size(op) = 1 /\ Keeps(n, m, F)
  BY <1>1, SkipIs DEF Follows, Keeps
<1>2. CASE size(op) = 2 /\ Keeps(n, SkipByte(m), F)
  BY <1>2, SkipIs DEF Follows, Keeps
<1>3. CASE size(op) = 3 /\ Keeps(n, SkipWord(m), F)
  BY <1>3, SkipIs DEF Follows, Keeps
<1> QED
  BY <1>1, <1>2, <1>3

\* The families of the first quarter, in the table.
LEMMA LowTable ==
  ASSUME NEW op \in 0..63
  PROVE  /\ op \in LxiOps \cup {34, 42, 50, 58} => size(op) = 3
         /\ op \in MviOps => size(op) = 2
         /\ op \notin LxiOps \cup MviOps \cup {34, 42, 50, 58} => size(op) = 1
         /\ op \in DadOps \cup {7, 15, 23, 31, 55} => condbits_affected(op) = CY
         /\ op \in InrOps \cup DcrOps => condbits_affected(op) = SZACP
<1>1. /\ op \in LxiOps <=> op % 16 = 1
      /\ op \in MviOps <=> op % 16 \in {6, 14}
      /\ op \in DadOps <=> op % 16 = 9
      /\ op \in InrOps <=> op % 16 \in {4, 12}
      /\ op \in DcrOps <=> op % 16 \in {5, 13}
  BY DEF LxiOps, MviOps, DadOps, InrOps, DcrOps, Low64
<1>2. /\ op \in TwoBytes <=> op % 16 \in {6, 14}
      /\ op \in ThreeBytes <=> op % 16 = 1 \/ op \in {34, 42, 50, 58}
  BY DEF TwoBytes, ThreeBytes, Quarter
<1>3. /\ op \in Quarter(0, {9}) \cup {7, 15, 23, 31, 55} <=> op % 16 = 9 \/ op \in {7, 15, 23, 31, 55}
      /\ op \in Quarter(0, {4, 5, 12, 13}) <=> op % 16 \in {4, 5, 12, 13}
      /\ op \notin 128..191 \cup Quarter(192, {6, 14})
  BY DEF Quarter
<1>4. op \in DadOps \cup {7, 15, 23, 31, 55} => condbits_affected(op) = CY
  BY <1>1, <1>3 DEF condbits_affected
<1>5. op \in InrOps \cup DcrOps => condbits_affected(op) = SZACP
  BY <1>1, <1>3 DEF condbits_affected
<1> QED
  BY <1>1, <1>2, <1>4, <1>5 DEF size

LEMMA StoreKeeps ==
  ASSUME NEW m \in Machine, NEW op
  PROVE  /\ op \in {2, 18} => Keeps(store(m, op), m, {})
         /\ op \in {34, 50} => Keeps(store(m, op), SkipWord(m), {})
<1>1. /\ Pair(m, "b", "c") \in Int /\ Pair(m, "d", "e") \in Int
      /\ NextWord(m) \in Int /\ HL(m) \in Word
  BY PairType, HLType, NextType, WordIsInt DEF RegName
<1> DEFINE n == SkipWord(m)
<1>2. n \in Machine
  BY SkipMachine
<1> HIDE DEF n
<1>3. /\ Keeps(WriteByte(m, Pair(m, "b", "c"), m.reg["a"]), m, {})
      /\ Keeps(WriteByte(m, Pair(m, "d", "e"), m.reg["a"]), m, {})
      /\ Keeps(WriteWord(n, NextWord(m), HL(m)), n, {})
      /\ Keeps(WriteByte(n, NextWord(m), m.reg["a"]), n, {})
  BY <1>1, <1>2, WriteKeeps
<1> QED
  BY <1>3 DEF store, n

LEMMA LoadKeeps ==
  ASSUME NEW m \in Machine, NEW op
  PROVE  /\ op \in {10, 26} => Keeps(load(m, op), m, {})
         /\ op \in {42, 58} => Keeps(load(m, op), SkipWord(m), {})
<1> DEFINE n == SkipWord(m)
           b == ReadByte(m, Pair(m, "b", "c"))
           d == ReadByte(m, Pair(m, "d", "e"))
           v == ReadByte(m, NextWord(m))
           w == ReadWord(m, NextWord(m))
<1>1. n \in Machine
  BY SkipMachine
<1> HIDE DEF n, b, d, v, w
<1>2. /\ Keeps([m EXCEPT !.reg["a"] = b], m, {})
      /\ Keeps([m EXCEPT !.reg["a"] = d], m, {})
      /\ Keeps([n EXCEPT !.reg["a"] = v], n, {})
  BY <1>1, SetKeeps
<1>3. Keeps(SetHL(n, w), n, {})
  BY <1>1, PairKeeps
<1> QED
  BY <1>2, <1>3 DEF load, n, b, d, v, w

LEMMA LowFollows ==
  ASSUME NEW m \in Machine, NEW op \in 0..63
  PROVE  Follows(exec_low(m, op), m, op)
<1> DEFINE y == Y(op)
           i == P(op)
           v == Get8(m, y)
           w == Get16(m, i)
           Plain == LxiOps \cup MviOps \cup {34, 42, 50, 58}
<1>1. v \in Byte /\ w \in Word /\ SkipByte(m) \in Machine /\ SkipWord(m) \in Machine
  BY Get8Type, Get16Type, SkipMachine
<1>2. ASSUME op \in LxiOps
      PROVE  Follows(Set16(SkipWord(m), i, NextWord(m)), m, op)
  <2>1. Keeps(Set16(SkipWord(m), i, NextWord(m)), SkipWord(m), {})
    BY <1>1, PairKeeps
  <2>2. size(op) = 3
    BY <1>2, LowTable
  <2> DEFINE n == Set16(SkipWord(m), i, NextWord(m))
  <2> HIDE DEF n
  <2>3. Follows(n, m, op)
    BY <2>1, <2>2, KeepsFollows DEF n
  <2> QED BY <2>3 DEF n
<1>3. ASSUME op \in DadOps
      PROVE  Follows(op_dad(m, w), m, op)
  <2>1. Keeps(op_dad(m, w), m, CY)
    BY <1>1, DadKeeps
  <2>2. op \notin Plain
    BY <1>3 DEF DadOps, LxiOps, MviOps, Low64
  <2> QED BY <1>3, <2>1, <2>2, LowTable, KeepsFollows
<1>4. ASSUME op \in InxOps \cup DcxOps, NEW x
      PROVE  Follows(Set16(m, i, x), m, op)
  <2>1. Keeps(Set16(m, i, x), m, {})
    BY PairKeeps
  <2>2. op \notin Plain
    BY <1>4 DEF InxOps, DcxOps, LxiOps, MviOps, Low64
  <2> QED BY <2>1, <2>2, LowTable, KeepsFollows
<1>5. ASSUME op \in InrOps \cup DcrOps
      PROVE  /\ Follows(Set8(inr_flags(m, v), y, inr(v)), m, op)
             /\ Follows(Set8(dcr_flags(m, v), y, dcr(v)), m, op)
  <2>1. inr_flags(m, v) \in Machine /\ dcr_flags(m, v) \in Machine
    BY <1>1, CountQuiet, QuietType
  <2>2. /\ Keeps(Set8(inr_flags(m, v), y, inr(v)), m, SZACP)
        /\ Keeps(Set8(dcr_flags(m, v), y, dcr(v)), m, SZACP)
    BY <2>1, PairKeeps, CountKeeps, KeepsTrans
  <2>3. op \notin Plain
    BY <1>5 DEF InrOps, DcrOps, LxiOps, MviOps, Low64
  <2> QED BY <1>5, <2>2, <2>3, LowTable, KeepsFollows
<1>6. ASSUME op \in MviOps
      PROVE  Follows(Set8(SkipByte(m), y, NextByte(m)), m, op)
  <2>1. Keeps(Set8(SkipByte(m), y, NextByte(m)), SkipByte(m), {})
    BY <1>1, PairKeeps
  <2>2. size(op) = 2
    BY <1>6, LowTable
  <2> QED BY <2>1, <2>2, KeepsFollows
<1>7. ASSUME op \in Low64({2})
      PROVE  Follows(store(m, op), m, op)
  <2>1. op \in {2, 18} \/ op \in {34, 50}
    BY <1>7 DEF Low64
  <2>2. op \in {2, 18} => op \notin Plain
    BY DEF LxiOps, MviOps, Low64
  <2> QED BY <2>1, <2>2, StoreKeeps, LowTable, KeepsFollows
<1>8. ASSUME op \in Low64({10})
      PROVE  Follows(load(m, op), m, op)
  <2>1. op \in {10, 26} \/ op \in {42, 58}
    BY <1>8 DEF Low64
  <2>2. op \in {10, 26} => op \notin Plain
    BY DEF LxiOps, MviOps, Low64
  <2>3. op \in {10, 26} => size(op) = 1
    BY <2>2, LowTable
  <2>4. op \in {42, 58} => size(op) = 3
    BY LowTable
  <2> QED BY <2>1, <2>3, <2>4, LoadKeeps, KeepsFollows
<1>9. ASSUME op \in {7, 15, 23, 31, 55}, NEW n, Keeps(n, m, CY)
      PROVE  Follows(n, m, op)
  <2>1. op \notin Plain
    BY <1>9 DEF LxiOps, MviOps, Low64
  <2> QED BY <1>9, <2>1, LowTable, KeepsFollows
<1>10. ASSUME op \in {39, 63}, NEW n, Keeps(n, m, Flag)
       PROVE  Follows(n, m, op)
  <2>1. op \notin Plain
    BY <1>10 DEF LxiOps, MviOps, Low64
  <2>2. op \in Unlisted
    BY <1>10 DEF Unlisted, DAA
  <2> QED BY <1>10, <2>1, <2>2, LowTable, KeepsFollows
<1>11. ASSUME op \notin Plain, NEW n, Keeps(n, m, {})
       PROVE  Follows(n, m, op)
  BY <1>11, LowTable, KeepsFollows
<1>12. /\ op = 7 => Follows(op_rlc(m), m, op)
       /\ op = 15 => Follows(op_rrc(m), m, op)
       /\ op = 23 => Follows(op_ral(m), m, op)
       /\ op = 31 => Follows(op_rar(m), m, op)
       /\ op = 55 => Follows(op_stc(m), m, op)
  BY <1>9, RotateKeeps
<1>13. op = 39 => Follows(op_daa(m), m, op)
  BY <1>10, DaaKeeps
<1>14. op = 63 => Follows(op_cmc(m), m, op)
  <2>1. Keeps(op_cmc(m), m, Flag)
    BY RotateKeeps, KeepsMore DEF CY, Flag
  <2> QED BY <1>10, <2>1
<1>15. op = 47 => Follows(op_cma(m), m, op)
  <2> DEFINE reg == [m.reg EXCEPT !["a"] = 255 - m.reg["a"]]
  <2>1. Keeps(op_cma(m), m, {})
    <3>1. op_cma(m) = [m EXCEPT !.reg = reg]
      BY DEF op_cma
    <3> HIDE DEF reg
    <3>2. Keeps([m EXCEPT !.reg = reg], m, {})
      BY SetKeeps, Zenon
    <3> QED BY <3>1, <3>2
  <2>2. op = 47 => op \notin Plain
    BY DEF LxiOps, MviOps, Low64
  <2> QED BY <1>11, <2>1, <2>2
<1>16. op \notin Plain => Follows(m, m, op)
  BY <1>11, KeepsSelf
<1>17. op \notin LxiOps \cup MviOps \cup Low64({2}) \cup Low64({10}) => op \notin Plain
  BY DEF Low64
<1> HIDE DEF v, w, y, i, Plain
<1> QED
  BY <1>2, <1>3, <1>4, <1>5, <1>6, <1>7, <1>8, <1>12, <1>13, <1>14, <1>15, <1>16, <1>17
     DEF exec_low, v, w, y, i

LEMMA MiddleFollows ==
  ASSUME NEW m \in Machine, NEW op \in 64..191
  PROVE  Follows(exec_middle(m, op), m, op)
<1>1. size(op) = 1
  BY DEF size, TwoBytes, ThreeBytes, Quarter
<1>2. Keeps(op_hlt(m), m, {}) /\ Keeps(Set8(m, Y(op), Get8(m, Z(op))), m, {})
  BY SetKeeps, PairKeeps DEF op_hlt
<1>3. Keeps(alu(m, Y(op), Get8(m, Z(op))), m, Flag)
  BY Get8Type, AluKeeps
<1>4. op \in 128..191 => Flag \cap Flag \subseteq condbits_affected(op)
  <2>1. op \in 128..191 => op \notin Quarter(0, {9}) \cup {7, 15, 23, 31, 55}
                           /\ op \notin Quarter(0, {4, 5, 12, 13})
    BY DEF Quarter
  <2> QED BY <2>1 DEF condbits_affected, ALL, CY, SZACP, Flag
<1>5. CASE op = HLT \/ op \in MovOps
  <2>1. Keeps(exec_middle(m, op), m, {})
    BY <1>2, <1>5 DEF exec_middle, MovOps
  <2> QED BY <1>1, <2>1, KeepsFollows
<1>6. CASE op # HLT /\ op \notin MovOps
  <2>1. exec_middle(m, op) = alu(m, Y(op), Get8(m, Z(op)))
    BY <1>6 DEF exec_middle
  <2>2. op \in 128..191
    BY <1>6 DEF MovOps
  <2> QED BY <1>1, <1>3, <1>4, <2>1, <2>2, KeepsFollows
<1> QED
  BY <1>5, <1>6

\* The rest of the last quarter, in the table.
LEMMA TopTable ==
  ASSUME NEW op \in 192..255
  PROVE  /\ op \in AluImmOps \cup {IN_, OUT} => size(op) = 2
         /\ op \notin BranchOps \cup AluImmOps \cup {IN_, OUT} => size(op) = 1
         /\ op \in AluImmOps => condbits_affected(op) = ALL
<1>1. op \in AluImmOps <=> op % 16 \in {6, 14}
  BY DEF AluImmOps, Top64
<1>2. op \in TwoBytes <=> op % 16 \in {6, 14} \/ op \in {211, 219}
  BY DEF TwoBytes, Quarter
<1>3. op \notin BranchOps => op \notin ThreeBytes
  BY DEF ThreeBytes, Quarter, BranchOps, JmpCondOps, CallCondOps, JmpOps, CallOps, Top64
<1>4. /\ op \notin Quarter(0, {9}) \cup {7, 15, 23, 31, 55}
      /\ op \notin Quarter(0, {4, 5, 12, 13})
      /\ op \in Quarter(192, {6, 14}) <=> op % 16 \in {6, 14}
  BY DEF Quarter
<1>5. op \in AluImmOps => condbits_affected(op) = ALL
  BY <1>1, <1>4 DEF condbits_affected
<1> QED
  BY <1>1, <1>2, <1>3, <1>5 DEF size, IN_, OUT

LEMMA PswKeeps ==
  ASSUME NEW m \in Machine
  PROVE  Keeps(op_push_psw(m), m, {}) /\ Keeps(op_pop_psw(m), m, Flag)
<1>1. WordFromBytes(m.reg["a"], Psw(m.cf)) \in Word
  BY MembersType, PswType, WordType DEF RegName
<1>2. Keeps(op_push_psw(m), m, {})
  BY <1>1, StackKeeps DEF op_push_psw
<1> DEFINE n == StackDrop(m)
<1>3. n \in Machine /\ Keeps(n, m, Flag)
  BY StackPopQuiet, QuietType, StackKeeps
<1> HIDE DEF n
<1>4. \A x, y : Keeps([n EXCEPT !.reg["a"] = x, !.cf = y], n, Flag)
  BY <1>3, SetFlagsKeeps
<1>5. Keeps(op_pop_psw(m), n, Flag)
  BY <1>4 DEF op_pop_psw, n
<1> QED
  BY <1>2, <1>3, <1>5, KeepsTrans

LEMMA ExchangeKeeps ==
  ASSUME NEW m \in Machine
  PROVE  Keeps(op_xchg(m), m, {}) /\ Keeps(op_xthl(m), m, {})
<1> DEFINE n == SetHL(m, Pair(m, "d", "e"))
           k == WriteWord(m, m.sp, HL(m))
<1>1. Pair(m, "d", "e") \in Word /\ HL(m) \in Word /\ m.sp \in Int
  BY PairType, HLType, MembersType, WordIsInt DEF RegName
<1>2. /\ n \in Machine /\ Keeps(n, m, {})
      /\ k \in Machine /\ Keeps(k, m, {})
  BY <1>1, SetHLQuiet, WriteWordQuiet, QuietType, PairKeeps, WriteKeeps
<1> HIDE DEF n, k
<1>3. Keeps(SetPair(n, "d", "e", HL(m)), n, {}) /\ Keeps(SetHL(k, StackTop(m)), k, {})
  BY <1>2, PairKeeps
<1> QED
  BY <1>2, <1>3, KeepsTrans DEF op_xchg, op_xthl, n, k

LEMMA OtherFollows ==
  ASSUME NEW m \in Machine, NEW op \in 192..255, op \notin BranchOps, NEW in \in Byte
  PROVE  Follows(exec_other(m, op, in), m, op)
<1> DEFINE n == SkipByte(m)
           k == StackDrop(m)
<1>1. /\ n \in Machine /\ k \in Machine /\ NextByte(m) \in Byte /\ Get16(m, P(op)) \in Word
      /\ Keeps(k, m, {})
  BY SkipMachine, StackPopQuiet, QuietType, NextType, Get16Type, StackKeeps
<1>2. ASSUME op \in AluImmOps
      PROVE  Follows(alu(n, Y(op), NextByte(m)), m, op)
  <2>1. Keeps(alu(n, Y(op), NextByte(m)), n, Flag)
    BY <1>1, AluKeeps
  <2>2. size(op) = 2 /\ Flag \cap Flag \subseteq condbits_affected(op)
    BY <1>2, TopTable DEF ALL, CY, SZACP, Flag
  <2> QED BY <2>1, <2>2, KeepsFollows
<1>3. ASSUME op \notin AluImmOps \cup {IN_, OUT}, NEW x, Keeps(x, m, {})
      PROVE  Follows(x, m, op)
  BY <1>3, TopTable, KeepsFollows
<1>4. Keeps(StackPush(m, Get16(m, P(op))), m, {})
  BY <1>1, StackKeeps
<1>5. Keeps(Set16(k, P(op), StackTop(m)), m, {})
  <2>1. Keeps(Set16(k, P(op), StackTop(m)), k, {})
    BY <1>1, PairKeeps
  <2> QED BY <1>1, <2>1, KeepsTrans
<1>6. ASSUME op = 241
      PROVE  Follows(op_pop_psw(m), m, op)
  <2>1. op \in Unlisted /\ op \notin AluImmOps \cup {IN_, OUT}
    BY <1>6 DEF Unlisted, AluImmOps, Top64, IN_, OUT
  <2>2. size(op) = 1
    BY <2>1, TopTable
  <2> QED BY <2>1, <2>2, PswKeeps, KeepsFollows
<1>7. /\ Keeps(op_push_psw(m), m, {}) /\ Keeps(op_xchg(m), m, {}) /\ Keeps(op_xthl(m), m, {})
      /\ Keeps([m EXCEPT !.sp = HL(m)], m, {})
      /\ Keeps(op_ei(m), m, {}) /\ Keeps(op_di(m), m, {})
  BY PswKeeps, ExchangeKeeps, SetKeeps DEF op_ei, op_di
<1>8. ASSUME op \in {IN_, OUT}
      PROVE  Follows([n EXCEPT !.reg["a"] = in], m, op) /\ Follows(n, m, op)
  <2>1. Keeps([n EXCEPT !.reg["a"] = in], n, {}) /\ Keeps(n, n, {})
    BY <1>1, SetKeeps, KeepsSelf
  <2>2. size(op) = 2
    BY <1>8, TopTable
  <2>3. ASSUME NEW x, Keeps(x, SkipByte(m), {})
        PROVE  Follows(x, m, op)
    BY <2>2, <2>3, KeepsFollows
  <2> QED BY <2>1, <2>3
<1>9. /\ op \in PushOps \cup PopOps \cup {245, 235, 227, 249, EI, DI}
           => op \notin AluImmOps \cup {IN_, OUT}
      /\ op \in AluImmOps \/ op \in PushOps \/ op \in PopOps
           \/ op \in {245, 241, 235, 227, 249, EI, DI, IN_, OUT}
  <2>1. op \in {193, 197, 209, 211, 213, 219, 225, 227, 229, 235, 241, 243, 245, 249, 251}
          \/ op % 16 \in {6, 14}
    BY DEF BranchOps, JmpCondOps, CallCondOps, RetCondOps, JmpOps, CallOps, RetOps, RstOps, Top64
  <2> QED BY <2>1 DEF AluImmOps, PushOps, PopOps, Top64, IN_, OUT, EI, DI
<1> HIDE DEF n, k
<1> QED
  BY <1>2, <1>3, <1>4, <1>5, <1>6, <1>7, <1>8, <1>9 DEF exec_other, n, k

\* The calls, jumps and returns: what each does to the pc, the stack, the
\* cycles and the flags.
Fixed(n, m) == n.cycles = m.cycles /\ \A f \in Flag : n.cf[f] = m.cf[f]

LEMMA PushMoves ==
  ASSUME NEW m \in Machine, NEW w \in Word
  PROVE  /\ StackPush(m, w).sp = Wrap16(m.sp - 2)
         /\ StackDrop(m).sp = Wrap16(m.sp + 2)
         /\ Wrap16(m.sp - 2) # m.sp
         /\ Wrap16(m.sp + 2) # m.sp
<1> DEFINE sp == Wrap16(m.sp - 2)
           n == [m EXCEPT !.sp = sp]
<1>1. m.sp \in Word /\ sp \in Word /\ sp \in Int
  BY MembersType, WordIsInt, WrapType
<1>2. Wrap16(m.sp - 2) # m.sp /\ Wrap16(m.sp + 2) # m.sp
  BY <1>1, WordRange DEF Wrap16
<1>3. n \in Machine /\ n.sp = sp
  BY <1>1 DEF Machine
<1> HIDE DEF sp, n
<1>4. ASSUME NEW k \in Machine, NEW addr, NEW b
      PROVE  WriteByte(k, addr, b).sp = k.sp
  BY DEF WriteByte, Machine
<1> DEFINE k == WriteByte(n, sp, Low(w))
<1>5. k \in Machine
  BY <1>1, <1>3, BytesType, WriteByteQuiet, QuietType
<1> HIDE DEF k
<1>6. WriteByte(k, Wrap16(sp + 1), High(w)).sp = k.sp
  BY <1>4, <1>5
<1>7. k.sp = n.sp
  BY <1>3, <1>4 DEF k
<1>8. StackPush(m, w) = WriteByte(k, Wrap16(sp + 1), High(w))
  BY DEF StackPush, WriteWord, k, n, sp
<1>9. StackDrop(m).sp = Wrap16(m.sp + 2)
  BY DEF StackDrop, Machine
<1> QED
  BY <1>2, <1>3, <1>6, <1>7, <1>8, <1>9 DEF sp

LEMMA CallIs ==
  ASSUME NEW m \in Machine, NEW addr \in Word
  PROVE  /\ Fixed(op_call(m, addr), m)
         /\ op_call(m, addr).sp # m.sp
         /\ op_call(m, addr).pc = addr
         /\ op_call(m, addr) \in Machine
         /\ CellsApart => StackTop(op_call(m, addr)) = m.pc
<1> DEFINE n == StackPush(m, m.pc)
           k == [n EXCEPT !.pc = addr]
<1>1. m.pc \in Word
  BY MembersType
<1>2. CellsApart => StackTop(n) = m.pc
  BY <1>1, StackRoundTrip DEF CellsApart
<1>3. n \in Machine /\ Keeps(n, m, {}) /\ n.sp # m.sp
  BY <1>1, StackPushQuiet, QuietType, StackKeeps, PushMoves
<1> HIDE DEF n
<1>4. k.sp = n.sp /\ k.mem = n.mem /\ k.pc = addr /\ k \in Machine /\ Fixed(k, n)
  BY <1>3 DEF Machine, Fixed
<1>5. StackTop(k) = StackTop(n)
  BY <1>4 DEF StackTop, ReadWord, ReadByte
<1>6. op_call(m, addr) = k
  BY DEF op_call, n
<1> HIDE DEF k
<1> QED
  BY <1>2, <1>3, <1>4, <1>5, <1>6 DEF Fixed, Keeps

LEMMA RetIs ==
  ASSUME NEW m \in Machine
  PROVE  /\ Fixed(op_ret(m), m)
         /\ op_ret(m).sp # m.sp
         /\ op_ret(m).pc = StackTop(m)
         /\ op_ret(m) \in Machine
<1> DEFINE n == StackDrop(m)
<1>1. n \in Machine /\ StackTop(m) \in Word /\ Keeps(n, m, {})
  BY StackPopQuiet, QuietType, StackKeeps
<1>2. n.sp # m.sp
  BY MembersType, PushMoves
<1>3. op_ret(m) = [n EXCEPT !.pc = StackTop(m)]
  BY DEF op_ret
<1> HIDE DEF n
<1> QED
  BY <1>1, <1>2, <1>3 DEF Fixed, Keeps, Machine

LEMMA AddCyclesIs ==
  ASSUME NEW n \in Machine
  PROVE  LET k == [n EXCEPT !.cycles = @ + 6] IN
         /\ k.cycles = n.cycles + 6
         /\ k.cf = n.cf /\ k.pc = n.pc /\ k.sp = n.sp
         /\ StackTop(k) = StackTop(n)
  BY DEF Machine, StackTop, ReadWord, ReadByte

\* What an instruction costs, and the flags it keeps, from m to n.
Costs(n, m, op) ==
  n.cycles = m.cycles
    + IF op \in CallCondOps \cup RetCondOps /\ n.sp # m.sp THEN 6 ELSE 0

KeepsFlags(n, m, op) ==
  op \notin Unlisted => \A f \in Flag \ condbits_affected(op) : n.cf[f] = m.cf[f]

LEMMA BranchTable ==
  ASSUME NEW op \in BranchOps
  PROVE  /\ op \in 192..255
         /\ op \in JmpOps \cup JmpCondOps \cup CallOps \cup CallCondOps => size(op) = 3
         /\ op \in RetCondOps => size(op) = 1
         /\ op \in RstOps => size(op) = 1
         /\ op \in CallCondOps \cup RetCondOps
              => op \notin JmpCondOps \cup JmpOps \cup CallOps \cup RetOps \cup RstOps \cup {233}
         /\ CallCondOps \cap RetCondOps = {}
<1>1. op \in 192..255
  BY DEF BranchOps, JmpCondOps, CallCondOps, RetCondOps, JmpOps, CallOps, RetOps, RstOps, Top64
<1>2. op \in JmpOps \cup JmpCondOps \cup CallOps \cup CallCondOps => size(op) = 3
  BY <1>1 DEF size, TwoBytes, ThreeBytes, Quarter, JmpOps, JmpCondOps, CallOps, CallCondOps,
              Top64
<1>3. (op \in RstOps => size(op) = 1) /\ (op \in RetCondOps => size(op) = 1)
  BY <1>1 DEF size, TwoBytes, ThreeBytes, Quarter, RstOps, RetCondOps, Top64
<1>4. op \in CallCondOps \cup RetCondOps
        => op \notin JmpCondOps \cup JmpOps \cup CallOps \cup RetOps \cup RstOps \cup {233}
  BY DEF JmpCondOps, CallCondOps, RetCondOps, JmpOps, CallOps, RetOps, RstOps, Top64
<1>5. CallCondOps \cap RetCondOps = {}
  BY DEF CallCondOps, RetCondOps, Top64
<1> QED
  BY <1>1, <1>2, <1>3, <1>4, <1>5

LEMMA BranchCosts ==
  ASSUME NEW m \in Machine, NEW op \in BranchOps
  PROVE  LET n == exec_branch(m, op) IN Costs(n, m, op) /\ KeepsFlags(n, m, op)
<1> DEFINE s == SkipWord(m)
           addr == NextWord(m)
           n == exec_branch(m, op)
           Plain == JmpCondOps \cup JmpOps \cup CallOps \cup RetOps \cup RstOps \cup {233}
<1>1. /\ s \in Machine /\ addr \in Word /\ HL(m) \in Word /\ 8 * Y(op) \in Word
      /\ s.sp = m.sp /\ Fixed(s, m) /\ m.cycles \in Int /\ s.cycles \in Int
  <2>1. op \in Byte
    BY BranchTable DEF Byte
  <2>2. s.sp = m.sp /\ Fixed(s, m)
    BY DEF SkipWord, Fixed, Machine
  <2> QED BY <2>1, <2>2, SkipMachine, NextType, HLType, YType, MembersType DEF Machine
<1> HIDE DEF s, addr
<1>2. \A x : Fixed([m EXCEPT !.pc = x], m) /\ Fixed([s EXCEPT !.pc = x], s)
  BY <1>1 DEF Fixed, Machine
<1>3. /\ Fixed(op_call(s, addr), s) /\ op_call(s, addr).sp # s.sp
      /\ op_call(s, addr) \in Machine
  BY <1>1, CallIs
<1>4. Fixed(op_call(m, 8 * Y(op)), m)
  BY <1>1, CallIs
<1>5. Fixed(op_ret(m), m) /\ op_ret(m).sp # m.sp /\ op_ret(m) \in Machine
  BY RetIs
<1>6. CASE op \in Plain
  <2>1. op \notin CallCondOps \cup RetCondOps
    BY <1>6, BranchTable
  <2>2. Fixed(op_jmp_cond(s, addr, Cond(m, Y(op))), s)
    BY <1>2 DEF op_jmp_cond, Fixed
  <2>3. Fixed(n, m)
    BY <1>1, <1>2, <1>3, <1>4, <1>5, <1>6, <2>1, <2>2 DEF exec_branch, Fixed, s, addr
  <2> QED BY <1>1, <2>1, <2>3 DEF Fixed, Costs, KeepsFlags
<1>7. CASE op \in CallCondOps
  <2> DEFINE call == op_call(s, addr)
             taken == [call EXCEPT !.cycles = @ + 6]
  <2>1. op \notin Plain \cup RetCondOps
    BY <1>7, BranchTable
  <2>2. n = IF Cond(m, Y(op)) THEN taken ELSE s
    <3>1. n = op_call_cond(s, addr, Cond(m, Y(op)))
      BY <1>7, <2>1 DEF exec_branch, s, addr, n
    <3> QED BY <3>1 DEF op_call_cond
  <2> HIDE DEF call, n
  <2>3. CASE n = s
    BY <1>1, <2>3 DEF Costs, KeepsFlags, Fixed, n
  <2>4. CASE n = taken
    <3>1. Fixed(call, s) /\ call.sp # s.sp /\ call \in Machine
      BY <1>3 DEF call
    <3>2. n.cycles = call.cycles + 6 /\ n.cf = call.cf /\ n.sp = call.sp
      BY <2>4, <3>1, AddCyclesIs
    <3>3. n.cycles = m.cycles + 6 /\ n.sp # m.sp /\ \A f \in Flag : n.cf[f] = m.cf[f]
      BY <1>1, <3>1, <3>2 DEF Fixed
    <3> QED BY <1>7, <3>3 DEF Costs, KeepsFlags, n
  <2> QED BY <2>2, <2>3, <2>4
<1>8. CASE op \in RetCondOps
  <2> DEFINE ret == op_ret(m)
             taken == [ret EXCEPT !.cycles = @ + 6]
  <2>1. op \notin Plain \cup CallCondOps
    BY <1>8, BranchTable
  <2>2. n = IF Cond(m, Y(op)) THEN taken ELSE m
    <3>1. n = op_ret_cond(m, Cond(m, Y(op)))
      BY <1>8, <2>1 DEF exec_branch, n
    <3> QED BY <3>1 DEF op_ret_cond
  <2> HIDE DEF ret, n
  <2>3. CASE n = m
    BY <1>1, <2>3 DEF Costs, KeepsFlags, n
  <2>4. CASE n = taken
    <3>1. Fixed(ret, m) /\ ret.sp # m.sp /\ ret \in Machine
      BY <1>5 DEF ret
    <3>2. n.cycles = ret.cycles + 6 /\ n.cf = ret.cf /\ n.sp = ret.sp
      BY <2>4, <3>1, AddCyclesIs
    <3>3. n.cycles = m.cycles + 6 /\ n.sp # m.sp /\ \A f \in Flag : n.cf[f] = m.cf[f]
      BY <1>1, <3>1, <3>2 DEF Fixed
    <3> QED BY <1>8, <3>3 DEF Costs, KeepsFlags, n
  <2> QED BY <2>2, <2>3, <2>4
<1> QED
  BY <1>6, <1>7, <1>8 DEF BranchOps

\* The families of branches in exec_branch.
LEMMA BranchIs ==
  ASSUME NEW m \in Machine, NEW op \in BranchOps
  PROVE  LET n == exec_branch(m, op)
             s == SkipWord(m)
             addr == NextWord(m)
         IN
         /\ op \in JmpOps \cup JmpCondOps =>
              n = IF Taken(m, op) THEN [IF op \in JmpOps THEN m ELSE s EXCEPT !.pc = addr] ELSE s
         /\ op \in CallOps => Taken(m, op) /\ n = op_call(s, addr)
         /\ op \in CallCondOps =>
              n = IF Taken(m, op) THEN [op_call(s, addr) EXCEPT !.cycles = @ + 6] ELSE s
         /\ op \in RetOps => Taken(m, op) /\ n = op_ret(m)
         /\ op \in RetCondOps =>
              n = IF Taken(m, op) THEN [op_ret(m) EXCEPT !.cycles = @ + 6] ELSE m
         /\ op \in RstOps => Taken(m, op) /\ n = op_call(m, 8 * Y(op))
         /\ op = 233 => Taken(m, op) /\ n = [m EXCEPT !.pc = HL(m)]
<1>1. /\ op \in JmpOps =>
           op \notin JmpCondOps \cup CallCondOps \cup RetCondOps \cup CallOps \cup RetOps \cup RstOps
      /\ op \in JmpCondOps =>
           op \notin CallCondOps \cup RetCondOps \cup JmpOps \cup CallOps \cup RetOps \cup RstOps
      /\ op \in CallCondOps \cup RetCondOps =>
           op \notin JmpCondOps \cup JmpOps \cup CallOps \cup RetOps \cup RstOps \cup {233}
      /\ CallCondOps \cap RetCondOps = {}
  BY BranchTable DEF JmpOps, JmpCondOps, CallCondOps, RetCondOps, CallOps, RetOps, RstOps, Top64
<1>2. /\ op \in CallOps =>
           op \notin JmpCondOps \cup CallCondOps \cup RetCondOps \cup JmpOps
      /\ op \in RetOps =>
           op \notin JmpCondOps \cup CallCondOps \cup RetCondOps \cup JmpOps \cup CallOps
      /\ op \in RstOps =>
           op \notin JmpCondOps \cup CallCondOps \cup RetCondOps \cup JmpOps \cup CallOps \cup RetOps
      /\ op = 233 =>
           op \notin JmpCondOps \cup CallCondOps \cup RetCondOps \cup JmpOps \cup CallOps
                     \cup RetOps \cup RstOps
  BY DEF JmpOps, JmpCondOps, CallCondOps, RetCondOps, CallOps, RetOps, RstOps, Top64
<1>3. op \in JmpOps \cup JmpCondOps =>
        exec_branch(m, op) =
          IF Taken(m, op) THEN [IF op \in JmpOps THEN m ELSE SkipWord(m) EXCEPT !.pc = NextWord(m)]
          ELSE SkipWord(m)
  <2>1. CASE op \in JmpOps
    <3>1. Taken(m, op)
      BY <2>1 DEF Taken
    <3>2. exec_branch(m, op) = [m EXCEPT !.pc = NextWord(m)]
      BY <1>1, <2>1 DEF exec_branch
    <3> QED BY <2>1, <3>1, <3>2
  <2>2. CASE op \in JmpCondOps
    <3>1. (Taken(m, op) <=> Cond(m, Y(op))) /\ op \notin JmpOps
      BY <1>1, <2>2, BranchTable DEF Taken, JmpCondOps, Top64
    <3>2. exec_branch(m, op) =
            IF Cond(m, Y(op)) THEN [SkipWord(m) EXCEPT !.pc = NextWord(m)] ELSE SkipWord(m)
      BY <1>1, <2>2 DEF exec_branch, op_jmp_cond
    <3> QED BY <3>1, <3>2
  <2> QED BY <2>1, <2>2
<1>4. op \in CallOps =>
        Taken(m, op) /\ exec_branch(m, op) = op_call(SkipWord(m), NextWord(m))
  BY <1>2 DEF exec_branch, Taken
<1>5. op \in CallCondOps =>
        exec_branch(m, op) =
          IF Taken(m, op) THEN [op_call(SkipWord(m), NextWord(m)) EXCEPT !.cycles = @ + 6]
          ELSE SkipWord(m)
  BY <1>1 DEF exec_branch, op_call_cond, Taken
<1>6. op \in RetOps => Taken(m, op) /\ exec_branch(m, op) = op_ret(m)
  BY <1>2 DEF exec_branch, Taken
<1>7. op \in RetCondOps =>
        exec_branch(m, op) =
          IF Taken(m, op) THEN [op_ret(m) EXCEPT !.cycles = @ + 6] ELSE m
  BY <1>1 DEF exec_branch, op_ret_cond, Taken
<1>8. op \in RstOps => Taken(m, op) /\ exec_branch(m, op) = op_call(m, 8 * Y(op))
  BY <1>2 DEF exec_branch, Taken
<1>9. op = 233 => Taken(m, op) /\ exec_branch(m, op) = [m EXCEPT !.pc = HL(m)]
  BY <1>2 DEF exec_branch, Taken
<1> QED
  BY <1>3, <1>4, <1>5, <1>6, <1>7, <1>8, <1>9

LEMMA BranchLands ==
  ASSUME NEW m \in Machine, NEW op \in BranchOps, CellsApart
  PROVE  Lands(exec_branch(m, op), m, op)
<1> DEFINE s == SkipWord(m)
           addr == NextWord(m)
           n == exec_branch(m, op)
           next == Falls(m, op)
           Word3 == JmpOps \cup JmpCondOps \cup CallOps \cup CallCondOps
<1>1. /\ s \in Machine /\ addr \in Word /\ HL(m) \in Word /\ 8 * Y(op) \in Word
      /\ \A x : [m EXCEPT !.pc = x].pc = x /\ [s EXCEPT !.pc = x].pc = x
  <2>1. op \in Byte
    BY BranchTable DEF Byte
  <2>2. s \in Machine
    BY SkipMachine
  <2> QED BY <2>1, <2>2, NextType, HLType, YType DEF Machine
<1>2. op \in Word3 => s.pc = next /\ addr = ReadWord(m, Wrap16(next - 2))
  <2> SUFFICES ASSUME op \in Word3
               PROVE  s.pc = next /\ addr = ReadWord(m, Wrap16(next - 2))
    OBVIOUS
  <2>1. next = Wrap16(m.pc + 2) /\ s.pc = next
    <3>1. size(op) = 3 /\ m.pc + 3 - 1 = m.pc + 2
      BY BranchTable, MembersType, WordRange
    <3> QED BY <3>1, SkipIs DEF Falls
  <2>2. Wrap16(Wrap16(m.pc + 2) - 2) = m.pc
    <3> DEFINE pc == m.pc
    <3>1. pc \in Int /\ 0 <= pc /\ pc <= 65535
      BY MembersType, WordRange
    <3> HIDE DEF pc
    <3>2. (((pc + 2) % 65536) - 2) % 65536 = pc
      BY <3>1
    <3> QED BY <3>2 DEF Wrap16, pc
  <2> QED BY <2>1, <2>2 DEF NextWord
<1>3. op \in RstOps \cup RetCondOps => m.pc = next
  BY SkipIs, BranchTable DEF Falls
<1> HIDE DEF s, addr, next
<1>4. /\ op_call(s, addr).pc = addr /\ op_call(s, addr) \in Machine
      /\ StackTop(op_call(s, addr)) = s.pc
  BY <1>1, CallIs
<1>5. /\ op_call(m, 8 * Y(op)).pc = 8 * Y(op)
      /\ StackTop(op_call(m, 8 * Y(op))) = m.pc
  BY <1>1, CallIs
<1>6. op_ret(m).pc = StackTop(m) /\ op_ret(m) \in Machine
  BY RetIs
<1>7. /\ [op_call(s, addr) EXCEPT !.cycles = @ + 6].pc = addr
      /\ StackTop([op_call(s, addr) EXCEPT !.cycles = @ + 6]) = s.pc
      /\ [op_ret(m) EXCEPT !.cycles = @ + 6].pc = StackTop(m)
  BY <1>4, <1>6, AddCyclesIs
<1>8. Lands(n, m, op) <=>
        /\ n.pc = IF Taken(m, op) THEN Target(m, op) ELSE next
        /\ Leaves(m, op) => StackTop(n) = next
  BY DEF Lands, next
<1>9. /\ op \in Word3 => Target(m, op) = ReadWord(m, Wrap16(next - 2))
      /\ op \in RetOps \cup RetCondOps => op \notin Word3 /\ Target(m, op) = StackTop(m)
      /\ op \in RstOps => op \notin Word3 /\ Target(m, op) = 8 * Y(op)
      /\ op = 233 => op \notin Word3 /\ Target(m, op) = HL(m)
  <2>1. /\ op \in RetOps \cup RetCondOps => op \notin Word3
        /\ op \in RstOps => op \notin Word3 \cup RetOps \cup RetCondOps
        /\ op = 233 => op \notin Word3 \cup RetOps \cup RetCondOps \cup RstOps
    BY DEF JmpOps, JmpCondOps, CallCondOps, RetCondOps, CallOps, RetOps, RstOps, Top64
  <2> QED BY <2>1 DEF Target, next
<1>10. Leaves(m, op) => Taken(m, op) /\ op \in CallOps \cup CallCondOps \cup RstOps
  BY DEF Leaves
<1>11. op \in CallOps \cup CallCondOps \cup RstOps =>
         op \notin JmpOps \cup JmpCondOps \cup RetOps \cup RetCondOps \cup {233}
  BY DEF JmpOps, JmpCondOps, CallCondOps, RetCondOps, CallOps, RetOps, RstOps, Top64
<1>12. CASE op \in JmpOps \cup JmpCondOps
  <2>1. n = IF Taken(m, op) THEN [IF op \in JmpOps THEN m ELSE s EXCEPT !.pc = addr] ELSE s
    BY <1>12, BranchIs DEF s, addr
  <2> QED BY <1>1, <1>2, <1>8, <1>9, <1>10, <1>11, <1>12, <2>1
<1>13. CASE op \in CallOps
  <2>1. Taken(m, op) /\ n = op_call(s, addr)
    BY <1>13, BranchIs DEF s, addr
  <2> QED BY <1>2, <1>4, <1>8, <1>9, <1>13, <2>1
<1>14. CASE op \in CallCondOps
  <2>1. n = IF Taken(m, op) THEN [op_call(s, addr) EXCEPT !.cycles = @ + 6] ELSE s
    BY <1>14, BranchIs DEF s, addr
  <2> QED BY <1>2, <1>7, <1>8, <1>9, <1>10, <1>14, <2>1
<1>15. CASE op \in RetOps
  <2>1. Taken(m, op) /\ n = op_ret(m)
    BY <1>15, BranchIs
  <2> QED BY <1>6, <1>8, <1>9, <1>10, <1>11, <1>15, <2>1
<1>16. CASE op \in RetCondOps
  <2>1. n = IF Taken(m, op) THEN [op_ret(m) EXCEPT !.cycles = @ + 6] ELSE m
    BY <1>16, BranchIs
  <2> QED BY <1>3, <1>7, <1>8, <1>9, <1>10, <1>11, <1>16, <2>1
<1>17. CASE op \in RstOps
  <2>1. Taken(m, op) /\ n = op_call(m, 8 * Y(op))
    BY <1>17, BranchIs
  <2> QED BY <1>3, <1>5, <1>8, <1>9, <1>17, <2>1
<1>18. CASE op = 233
  <2>1. Taken(m, op) /\ n = [m EXCEPT !.pc = HL(m)]
    BY <1>18, BranchIs
  <2>2. n.pc = HL(m) /\ Target(m, op) = HL(m)
    BY <1>1, <1>9, <1>18, <2>1
  <2>3. ~ Leaves(m, op)
    BY <1>10, <1>11, <1>18
  <2> QED BY <1>8, <2>1, <2>2, <2>3
<1> QED
  BY <1>12, <1>13, <1>14, <1>15, <1>16, <1>17, <1>18 DEF BranchOps

LEMMA BranchGoes ==
  ASSUME NEW m \in Machine, NEW op \in BranchOps
  PROVE  LET n == exec_branch(m, op) IN
         /\ CellsApart => Lands(n, m, op)
         /\ Costs(n, m, op)
         /\ KeepsFlags(n, m, op)
  BY BranchCosts, BranchLands

LEMMA FollowsGoes ==
  ASSUME NEW m \in Machine, NEW op \in Byte, op \notin BranchOps, NEW n, Follows(n, m, op)
  PROVE  Lands(n, m, op) /\ Costs(n, m, op) /\ KeepsFlags(n, m, op)
<1>1. op \notin CallCondOps \cup RetCondOps /\ ~ Taken(m, op)
  BY DEF BranchOps, Taken
<1>2. m.cycles + 0 = m.cycles
  BY DEF Machine
<1>3. Lands(n, m, op)
  BY <1>1 DEF Follows, Lands, Falls, Leaves
<1> QED
  BY <1>1, <1>2, <1>3 DEF Follows, Costs, KeepsFlags

LEMMA NextGoes ==
  ASSUME NEW m \in Machine, NEW op \in Byte, NEW in \in Byte
  PROVE  LET n == exec_next(m, op, in)
             k == begin(m, op) IN
         /\ CellsApart => Lands(n, k, op)
         /\ Costs(n, k, op)
         /\ KeepsFlags(n, k, op)
<1> DEFINE k == begin(m, op)
           n == exec_next(m, op, in)
<1>1. k \in Machine
  BY CyclesType DEF begin, Machine
<1>2. n = CASE op \in 0..63 -> exec_low(k, op)
            [] op \in 64..191 -> exec_middle(k, op)
            [] op \in BranchOps -> exec_branch(k, op)
            [] OTHER -> exec_other(k, op, in)
  BY DEF exec_next
<1>3. op \in BranchOps => op \in 192..255
  BY BranchTable
<1>4. \/ op \in 0..63
      \/ op \in 64..191
      \/ op \in BranchOps
      \/ op \in 192..255 /\ op \notin BranchOps
  BY DEF Byte
<1> HIDE DEF k, n
<1>5. CASE op \in 0..63
  <2>1. n = exec_low(k, op) /\ op \notin BranchOps
    BY <1>2, <1>3, <1>5
  <2>2. Follows(n, k, op)
    BY <1>1, <1>5, <2>1, LowFollows
  <2> QED BY <1>1, <2>1, <2>2, FollowsGoes DEF k, n
<1>6. CASE op \in 64..191
  <2>1. n = exec_middle(k, op) /\ op \notin BranchOps
    BY <1>2, <1>3, <1>6
  <2>2. Follows(n, k, op)
    BY <1>1, <1>6, <2>1, MiddleFollows
  <2> QED BY <1>1, <2>1, <2>2, FollowsGoes DEF k, n
<1>7. CASE op \in BranchOps
  <2>1. n = exec_branch(k, op)
    BY <1>2, <1>3, <1>7
  <2> QED BY <1>1, <1>7, <2>1, BranchGoes DEF k, n
<1>8. CASE op \in 192..255 /\ op \notin BranchOps
  <2>1. n = exec_other(k, op, in)
    BY <1>2, <1>8
  <2>2. Follows(n, k, op)
    BY <1>1, <1>8, <2>1, OtherFollows
  <2> QED BY <1>1, <1>8, <2>2, FollowsGoes DEF k, n
<1> QED
  BY <1>4, <1>5, <1>6, <1>7, <1>8

LEMMA ExecuteGoes ==
  ASSUME TypeOK, Execute
  PROVE  /\ CellsApart => Lands(cpu', cpu, executing)
         /\ returned' = Cycles(executing)
              + IF executing \in CallCondOps \cup RetCondOps /\ cpu'.sp # cpu.sp THEN 6 ELSE 0
         /\ KeepsFlags(cpu', cpu, executing)
<1>1. PICK in \in DeviceBytes : /\ cpu' = [exec_next(cpu, executing, in) EXCEPT !.cycles = 0]
                               /\ returned' = exec_next(cpu, executing, in).cycles
  BY DEF Execute
<1> DEFINE n == exec_next(cpu, executing, in)
           k == begin(cpu, executing)
<1>2. executing \in Byte /\ in \in Byte /\ cpu \in Machine
  BY HostAssumption DEF TypeOK, Execute
<1>3. /\ CellsApart => Lands(n, k, executing)
      /\ Costs(n, k, executing)
      /\ KeepsFlags(n, k, executing)
  BY <1>2, NextGoes
<1>4. /\ k.pc = cpu.pc /\ k.sp = cpu.sp /\ k.cf = cpu.cf /\ k.cycles = Cycles(executing)
      /\ k.mem = cpu.mem /\ k.reg = cpu.reg
  BY <1>2 DEF begin, Machine
<1>5. n \in Machine
  BY <1>2, ExecNextOnTheLine
<1>6. cpu' = [n EXCEPT !.cycles = 0] /\ returned' = n.cycles
  BY <1>1
<1> HIDE DEF n, k
<1>7. cpu'.pc = n.pc /\ cpu'.sp = n.sp /\ cpu'.cf = n.cf /\ cpu'.mem = n.mem
  BY <1>5, <1>6 DEF Machine
<1>8. StackTop(cpu') = StackTop(n)
  BY <1>7 DEF StackTop, ReadWord, ReadByte
<1>9. CellsApart => Lands(cpu', cpu, executing)
  <2>1. /\ Taken(k, executing) = Taken(cpu, executing)
        /\ Target(k, executing) = Target(cpu, executing)
        /\ Falls(k, executing) = Falls(cpu, executing)
        /\ Leaves(k, executing) = Leaves(cpu, executing)
    BY <1>4 DEF Taken, Target, Falls, Leaves, Cond, StackTop, ReadWord, ReadByte, HL, Pair
  <2> QED BY <1>3, <1>7, <1>8, <2>1 DEF Lands
<1>10. KeepsFlags(cpu', cpu, executing)
  BY <1>3, <1>4, <1>7 DEF KeepsFlags
<1>11. returned' = Cycles(executing)
         + IF executing \in CallCondOps \cup RetCondOps /\ cpu'.sp # cpu.sp THEN 6 ELSE 0
  BY <1>3, <1>4, <1>6, <1>7 DEF Costs
<1> QED
  BY <1>9, <1>10, <1>11

\* The cpu's decoder takes as many operand bytes as s_dasm_lut gives every
\* opcode, whatever the registers and the memory hold: the pc after a step is
\* the next instruction of the listing unless a branch was taken, then it is
\* the branch's target, and a call has left the next instruction on the stack.
THEOREM DecoderFollowsTheListing ==
  ASSUME CellsApart
  PROVE  SweepSpec => LengthsAgree
<1>1. SweepInv /\ [SweepNext]_swvars => [Execute => Lands(cpu', cpu, executing)]_swvars
  BY ExecuteGoes DEF SweepInv
<1> QED
  BY <1>1, SweepTypes, PTL DEF SweepSpec, LengthsAgree

\* No opcode but DAA, CMC and POP PSW changes a condition bit that s_dasm_lut
\* leaves out.
THEOREM DecoderKeepsTheFlags == SweepSpec => CondbitsAgree
<1>1. SweepInv /\ [SweepNext]_swvars =>
        [Execute /\ executing \notin Unlisted
           => Changed \subseteq condbits_affected(executing)]_swvars
  <2> SUFFICES ASSUME SweepInv, Execute, executing \notin Unlisted,
                      NEW f \in Flag, cpu.cf[f] # cpu'.cf[f]
               PROVE  f \in condbits_affected(executing)
    BY DEF Changed
  <2>1. KeepsFlags(cpu', cpu, executing)
    BY ExecuteGoes DEF SweepInv
  <2> QED BY <2>1 DEF KeepsFlags
<1> QED
  BY <1>1, SweepTypes, PTL DEF SweepSpec, CondbitsAgree

\* A step returns the cycles of its table entry, and six more exactly when a
\* conditional call or return was taken, which is when it moved the stack.
THEOREM CyclesAreExact == SweepSpec => CyclesFollowTheBranch
<1>1. SweepInv /\ [SweepNext]_swvars =>
        [Execute =>
           returned' = Cycles(executing)
             + IF executing \in CallCondOps \cup RetCondOps /\ cpu'.sp # cpu.sp
               THEN 6 ELSE 0]_swvars
  <2> SUFFICES ASSUME SweepInv, Execute
               PROVE  returned' = Cycles(executing)
                        + IF executing \in CallCondOps \cup RetCondOps /\ cpu'.sp # cpu.sp
                          THEN 6 ELSE 0
    OBVIOUS
  <2> QED BY ExecuteGoes, Zenon DEF SweepInv
<1> QED
  BY <1>1, SweepTypes, PTL DEF SweepSpec, CyclesFollowTheBranch
=============================================================================
