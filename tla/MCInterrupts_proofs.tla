-------------------------- MODULE MCInterrupts_proofs --------------------------
(***************************************************************************)
(* An interrupted program cannot tell: the properties of MCInterrupts, for *)
(* every memory that holds the program, every device and every sequence of *)
(* requests and restarts.                                                  *)
(***************************************************************************)
EXTENDS MCInterrupts, Cpu8080_proofs

-----------------------------------------------------------------------------
(* The invariant: what holds at each instruction of the program.            *)

LoopPoints == {16, 17, 18, 21, 22, 25, 28, 29, 32, 33, 34, 35, 38, 39}
ServicePoints == {8, 9, 11, 12, 13, 14}

\* Where the program may be interrupted.
Open == {16, 17, 35}

\* The cpu is about to fetch the instruction at p, or has fetched its opcode.
At(p) == \/ executing = NoOp /\ cpu.pc = p
         \/ executing = Code(p) /\ cpu.pc = p + 1

BytesEqual == cpu.mem[48] = cpu.mem[49]

\* The program runs, and nothing is interrupted.  Interrupts are enabled where
\* it is open and in the shadow of its two EIs.  Between the two stores the
\* accumulator holds the byte the second one lacks.
InLoop(p) ==
  /\ At(p)
  /\ frames = <<>>
  /\ cpu.sp = 0
  /\ cpu.inte => p \in Open \cup {34, 39}
  /\ p \in {34, 39} => cpu.interrupt_delay
  /\ IF p = 25 THEN cpu.reg["a"] = cpu.mem[48] ELSE BytesEqual

\* A request was taken where the program is open, and is about to run.
Taken ==
  /\ cpu.pc \in Open
  /\ cpu.sp = 0
  /\ ~cpu.inte /\ ~cpu.interrupt_delay
  /\ BytesEqual
  /\ \/ executing = 0 /\ frames = <<>>
     \/ executing = 207 /\ frames = <<Frame(cpu)>>

\* The service runs: what it has to give back to F is on the stack or still
\* in the cpu.
Saved(p, F) ==
  IF p \in {9, 11, 12}
  THEN /\ cpu.sp = 65532
       /\ ReadWord(cpu, 65532) = WordFromBytes(F.reg["a"], Psw(F.cf))
       /\ F.reg = [cpu.reg EXCEPT !["a"] = F.reg["a"]]
  ELSE cpu.sp = 65534 /\ cpu.reg = F.reg /\ cpu.cf = F.cf

Framed == [reg : [RegName -> Byte], cf : [Flag -> BOOLEAN], pc : Open, sp : {0}]

InService(p, F) ==
  /\ At(p)
  /\ frames = <<F>>
  /\ ReadWord(cpu, 65534) = F.pc
  /\ Saved(p, F)
  /\ cpu.inte => p = 14
  /\ p = 14 => cpu.interrupt_delay
  /\ BytesEqual

Somewhere == \/ \E p \in LoopPoints : InLoop(p)
             \/ Taken
             \/ \E p \in ServicePoints : \E F \in Framed : InService(p, F)

\* The program is where it was loaded, and a request is one the host makes.
Kept == /\ \A a \in 0..47 : cpu.mem[a] = Code(a)
        /\ cpu.interrupt_pending => cpu.interrupt_opcode \in {0, 207}

PInv == TypeOK /\ Kept /\ Somewhere

-----------------------------------------------------------------------------
(* The instructions of the program.                                         *)

LEMMA BranchesAreHigh == \A op \in BranchOps : op \in 192..255
  BY DEF BranchOps, JmpCondOps, CallCondOps, RetCondOps, JmpOps, CallOps, RetOps,
         RstOps, Top64

LEMMA LowBodies ==
  ASSUME NEW m, NEW in
  PROVE  /\ exec_next(m, 0, in) = begin(m, 0)
         /\ exec_next(m, 47, in) = op_cma(begin(m, 47))
         /\ exec_next(m, 50, in) = store(begin(m, 50), 50)
         /\ exec_next(m, 58, in) = load(begin(m, 58), 58)
<1>0. \A op \in {0, 47, 50, 58} :
        op \in 0..63 /\ op \notin 64..191 /\ op \notin BranchOps
  BY BranchesAreHigh
<1>1. \A op \in {0, 47, 50, 58} : exec_next(m, op, in) = exec_low(begin(m, op), op)
  BY <1>0 DEF exec_next
<1>2. \A op \in {0, 47, 50, 58} :
        /\ op \notin LxiOps \cup DadOps \cup InxOps \cup DcxOps \cup InrOps
                       \cup DcrOps \cup MviOps
        /\ op \in Low64({2}) <=> op = 50
        /\ op \in Low64({10}) <=> op = 58
  BY DEF LxiOps, DadOps, InxOps, DcxOps, InrOps, DcrOps, MviOps, Low64
<1>3. \A n : /\ exec_low(n, 0) = n /\ exec_low(n, 47) = op_cma(n)
             /\ exec_low(n, 50) = store(n, 50) /\ exec_low(n, 58) = load(n, 58)
  BY <1>2 DEF exec_low
<1> QED
  BY <1>1, <1>3

LEMMA MiddleBodies ==
  ASSUME NEW m, NEW in
  PROVE  /\ exec_next(m, 118, in) = op_hlt(begin(m, 118))
         /\ exec_next(m, 183, in) = op_ora(begin(m, 183), begin(m, 183).reg["a"])
<1>0. \A op \in {118, 183} :
        op \in 64..191 /\ op \notin 0..63 /\ op \notin BranchOps
  BY BranchesAreHigh
<1>1. \A op \in {118, 183} : exec_next(m, op, in) = exec_middle(begin(m, op), op)
  BY <1>0 DEF exec_next
<1>2. Y(183) = 6 /\ Z(183) = 7 /\ 183 \notin MovOps
  BY DEF Y, Z, MovOps
<1>3. \A n : /\ exec_middle(n, 118) = op_hlt(n)
             /\ exec_middle(n, 183) = op_ora(n, n.reg["a"])
  <2>1. \A n : exec_middle(n, 118) = op_hlt(n)
    BY DEF exec_middle, MovOps, HLT
  <2>2. \A n : exec_middle(n, 183) = alu(n, 6, Get8(n, 7))
    BY <1>2 DEF exec_middle, HLT
  <2>3. \A n, v : alu(n, 6, v) = op_ora(n, v)
    BY DEF alu
  <2>4. \A n : Get8(n, 7) = n.reg["a"]
    BY DEF Get8, RegOf
  <2> QED BY <2>1, <2>2, <2>3, <2>4
<1> QED
  BY <1>1, <1>3

LEMMA BranchBodies ==
  ASSUME NEW m, NEW in
  PROVE  /\ exec_next(m, 195, in)
              = [begin(m, 195) EXCEPT !.pc = NextWord(begin(m, 195))]
         /\ exec_next(m, 201, in) = op_ret(begin(m, 201))
         /\ exec_next(m, 202, in)
              = op_jmp_cond(SkipWord(begin(m, 202)), NextWord(begin(m, 202)),
                            Cond(begin(m, 202), 1))
         /\ exec_next(m, 207, in) = op_call(begin(m, 207), 8)
<1>1. /\ 195 \in JmpOps /\ 201 \in RetOps /\ 202 \in JmpCondOps /\ 207 \in RstOps
      /\ {195, 201, 207} \cap JmpCondOps = {}
      /\ {195, 201, 207} \cap CallCondOps = {}
      /\ {195, 201, 207} \cap RetCondOps = {}
      /\ {201, 207} \cap JmpOps = {} /\ {201, 207} \cap CallOps = {}
      /\ 202 \notin CallCondOps \cup RetCondOps \cup JmpOps \cup CallOps
      /\ {195, 202, 207} \cap RetOps = {} /\ {195, 201, 202} \cap RstOps = {}
      /\ 195 \notin CallOps
  BY DEF JmpOps, RetOps, JmpCondOps, RstOps, CallCondOps, RetCondOps, CallOps, Top64
<1>2. {195, 201, 202, 207} \subseteq BranchOps
  BY <1>1 DEF BranchOps
<1>3. \A op \in {195, 201, 202, 207} :
        exec_next(m, op, in) = exec_branch(begin(m, op), op)
  <2>1. \A op \in {195, 201, 202, 207} : op \notin 0..63 /\ op \notin 64..191
    OBVIOUS
  <2> QED BY <1>2, <2>1 DEF exec_next
<1>4. Y(202) = 1 /\ 8 * Y(207) = 8
  BY DEF Y
<1>5. \A n : /\ exec_branch(n, 195) = [n EXCEPT !.pc = NextWord(n)]
             /\ exec_branch(n, 201) = op_ret(n)
             /\ exec_branch(n, 202) = op_jmp_cond(SkipWord(n), NextWord(n), Cond(n, 1))
             /\ exec_branch(n, 207) = op_call(n, 8)
  BY <1>1, <1>4 DEF exec_branch
<1> QED
  BY <1>3, <1>5

LEMMA OtherBodies ==
  ASSUME NEW m, NEW in
  PROVE  /\ exec_next(m, 219, in)
              = [SkipByte(begin(m, 219)) EXCEPT !.reg["a"] = in]
         /\ exec_next(m, 241, in) = op_pop_psw(begin(m, 241))
         /\ exec_next(m, 243, in) = op_di(begin(m, 243))
         /\ exec_next(m, 245, in) = op_push_psw(begin(m, 245))
         /\ exec_next(m, 251, in) = op_ei(begin(m, 251))
<1>1. \A op \in {219, 241, 243, 245, 251} :
        /\ op \notin BranchOps /\ op \notin 0..63 /\ op \notin 64..191
        /\ op \notin AluImmOps /\ op \notin PushOps /\ op \notin PopOps
  BY DEF BranchOps, JmpOps, RetOps, JmpCondOps, RstOps, CallCondOps, RetCondOps,
         CallOps, AluImmOps, PushOps, PopOps, Top64
<1>2. \A op \in {219, 241, 243, 245, 251} :
        exec_next(m, op, in) = exec_other(begin(m, op), op, in)
  BY <1>1 DEF exec_next
<1>3. \A n : /\ exec_other(n, 219, in) = [SkipByte(n) EXCEPT !.reg["a"] = in]
             /\ exec_other(n, 241, in) = op_pop_psw(n)
             /\ exec_other(n, 243, in) = op_di(n)
             /\ exec_other(n, 245, in) = op_push_psw(n)
             /\ exec_other(n, 251, in) = op_ei(n)
  BY <1>1 DEF exec_other, EI, DI, IN_
<1> QED
  BY <1>2, <1>3

-----------------------------------------------------------------------------
(* What they do to the part of the machine the program is about.            *)

\* n has the registers, flags, pc, sp and memory of m.
Same(n, m) == /\ n.reg = m.reg /\ n.cf = m.cf /\ n.pc = m.pc
              /\ n.sp = m.sp /\ n.mem = m.mem

LEMMA SameTrans == \A k, n, m : Same(k, n) /\ Same(n, m) => Same(k, m)
  BY DEF Same

LEMMA BeginSame ==
  ASSUME NEW m \in Machine, NEW op \in Byte
  PROVE  begin(m, op) \in Machine /\ Same(begin(m, op), m)
  BY CyclesType DEF begin, Same, Machine

\* The memory the program and its stack have to themselves.
LEMMA CellsOf ==
  /\ \A a \in 0..49 : Cell(a) = a /\ a \in 0..(MemSize - 1)
  /\ \A s \in {65532, 65533, 65534, 65535} :
       Cell(s) \in 0..(MemSize - 1) /\ Cell(s) > 49
  /\ \A s, t \in {65532, 65533, 65534, 65535} : Cell(s) = Cell(t) => s = t
<1>1. MemSize \in Nat /\ MemSize > 49
  BY MemSizeAssumption, ProgramAssumption
<1>2. \A a \in 0..49 : Cell(a) = a /\ a \in 0..(MemSize - 1)
  BY <1>1 DEF Cell
<1> DEFINE S == {65532, 65533, 65534, 65535}
           R == 65532..65535
<1>3. \A s \in S : s \in R /\ s \in Int
  OBVIOUS
<1>4. \A s \in R : Cell(s) > 49 /\ \A t \in R : Cell(s) = Cell(t) => s = t
  BY ProgramAssumption
<1> HIDE DEF S, R
<1>5. \A s \in S : Cell(s) \in 0..(MemSize - 1) /\ Cell(s) > 49
  BY <1>3, <1>4, CellType
<1>6. \A s, t \in S : Cell(s) = Cell(t) => s = t
  BY <1>3, <1>4
<1> QED
  BY <1>2, <1>5, <1>6 DEF S

LEMMA CodeIs ==
  /\ Code(8) = 245 /\ Code(9) = 219 /\ Code(11) = 183 /\ Code(12) = 241
  /\ Code(13) = 251 /\ Code(14) = 201
  /\ Code(16) = 251 /\ Code(17) = 243 /\ Code(18) = 58 /\ Code(19) = 48
  /\ Code(20) = 0 /\ Code(21) = 47 /\ Code(22) = 50 /\ Code(23) = 48
  /\ Code(24) = 0 /\ Code(25) = 50 /\ Code(26) = 49 /\ Code(27) = 0
  /\ Code(28) = 183 /\ Code(29) = 202 /\ Code(30) = 38 /\ Code(31) = 0
  /\ Code(32) = 0 /\ Code(33) = 251 /\ Code(34) = 118 /\ Code(35) = 195
  /\ Code(36) = 17 /\ Code(37) = 0 /\ Code(38) = 251 /\ Code(39) = 195
  /\ Code(40) = 17 /\ Code(41) = 0 /\ Code(48) = 0 /\ Code(49) = 0
  BY DEF Code

LEMMA CodeIsOpcode == \A p \in 0..46 : Code(p) # NoOp
  BY DEF Code, NoOp

\* The operand at pc, of one that points into the program.
LEMMA OperandIs ==
  ASSUME NEW m \in Machine, NEW p \in 0..46, m.pc = p
  PROVE  /\ NextByte(m) = m.mem[p]
         /\ NextWord(m) = 256 * m.mem[p + 1] + m.mem[p]
         /\ SkipByte(m).pc = p + 1 /\ SkipWord(m).pc = p + 2
<1>1. Cell(p) = p /\ Cell(p + 1) = p + 1
  BY CellsOf
<1>2. Wrap16(p + 1) = p + 1 /\ Wrap16(p + 2) = p + 2
  BY DEF Wrap16
<1> QED
  BY <1>1, <1>2 DEF NextByte, NextWord, ReadWord, ReadByte, WordFromBytes, SkipByte,
                    SkipWord, Machine

LEMMA SimpleEffects ==
  ASSUME NEW m \in Machine, NEW in, NEW op \in {0, 118, 243, 251}
  PROVE  Same(exec_next(m, op, in), m)
<1> DEFINE b == begin(m, op)
<1>1. b \in Machine /\ Same(b, m)
  <2>1. op \in Byte
    BY DEF Byte
  <2> QED BY <2>1, BeginSame
<1> HIDE DEF b
<1>2. Same(op_hlt(b), b) /\ Same(op_di(b), b) /\ Same(op_ei(b), b) /\ Same(b, b)
  BY <1>1 DEF Same, op_hlt, op_di, op_ei, Machine
<1>3. exec_next(m, op, in) \in {b, op_hlt(b), op_di(b), op_ei(b)}
  BY LowBodies, MiddleBodies, OtherBodies DEF b
<1> QED
  BY <1>1, <1>2, <1>3, SameTrans

\* CMA, ORA A and IN: a new accumulator.
Accumulated(n, m) == \E v : n.reg = [m.reg EXCEPT !["a"] = v]

LEMMA AccumulatorEffects ==
  ASSUME NEW m \in Machine, NEW in, NEW op \in {47, 183, 219},
         NEW p \in 0..46, m.pc = p
  PROVE  LET n == exec_next(m, op, in) IN
         /\ n.pc = IF op = 219 THEN p + 1 ELSE p
         /\ n.sp = m.sp /\ n.mem = m.mem
         /\ Accumulated(n, m)
<1> USE DEF Accumulated
<1> DEFINE b == begin(m, op)
<1>1. b \in Machine /\ Same(b, m) /\ b.pc = p
  <2>1. op \in Byte
    BY DEF Byte
  <2>2. b \in Machine /\ Same(b, m)
    BY <2>1, BeginSame
  <2> QED BY <2>2 DEF Same
<1> HIDE DEF b
<1>2. CASE op = 47
  <2>1. exec_next(m, op, in) = op_cma(b)
    BY <1>2, LowBodies DEF b
  <2> DEFINE n == exec_next(m, op, in)
             v == 255 - b.reg["a"]
  <2>2. n = [b EXCEPT !.reg["a"] = v]
    BY <2>1 DEF op_cma
  <2> HIDE DEF n, v
  <2>3. n.pc = p /\ n.sp = m.sp /\ n.mem = m.mem /\ n.reg = [m.reg EXCEPT !["a"] = v]
    BY <1>1, <2>2 DEF Same, Machine
  <2>4. Accumulated(n, m)
    BY <2>3, Zenon
  <2>5. n.pc = IF op = 219 THEN p + 1 ELSE p
    BY <1>2, <2>3
  <2> QED BY <2>3, <2>4, <2>5, Zenon DEF n
<1>3. CASE op = 183
  <2>1. exec_next(m, op, in) = op_ora(b, b.reg["a"])
    BY <1>3, MiddleBodies DEF b
  <2> DEFINE n == exec_next(m, op, in)
             v == Or8(b.reg["a"], b.reg["a"])
             f == ZSP([b.cf EXCEPT !["a"] = FALSE, !["c"] = FALSE], v)
  <2>2. n = [b EXCEPT !.reg["a"] = v, !.cf = f]
    BY <2>1 DEF op_ora, Result
  <2> HIDE DEF n, v, f
  <2>3. n.pc = p /\ n.sp = m.sp /\ n.mem = m.mem /\ n.reg = [m.reg EXCEPT !["a"] = v]
    BY <1>1, <2>2 DEF Same, Machine
  <2>4. Accumulated(n, m)
    BY <2>3, Zenon
  <2>5. n.pc = IF op = 219 THEN p + 1 ELSE p
    BY <1>3, <2>3
  <2> QED BY <2>3, <2>4, <2>5, Zenon DEF n
<1>4. CASE op = 219
  <2>1. exec_next(m, op, in) = [SkipByte(b) EXCEPT !.reg["a"] = in]
    BY <1>4, OtherBodies DEF b
  <2>2. SkipByte(b).pc = p + 1
    BY <1>1, OperandIs
  <2> DEFINE n == exec_next(m, op, in)
             k == SkipByte(b)
  <2>3. k.sp = m.sp /\ k.mem = m.mem /\ k.reg = m.reg /\ k \in Machine
    BY <1>1, SkipMachine DEF SkipByte, Same, Machine
  <2> HIDE DEF n, k
  <2>4. n = [k EXCEPT !.reg["a"] = in]
    BY <2>1 DEF n, k
  <2>5. n.pc = k.pc /\ n.sp = m.sp /\ n.mem = m.mem
        /\ n.reg = [m.reg EXCEPT !["a"] = in]
    BY <2>3, <2>4 DEF Machine
  <2> QED BY <1>4, <2>2, <2>5 DEF n, k
<1> QED
  BY <1>2, <1>3, <1>4

\* LDA and STA at a, from m with the operand at p to n.
Stores == {50, 58}

Addressed(n, m, op, p, a) ==
  /\ n.pc = p + 2
  /\ n.sp = m.sp
  /\ op = 58 => n.mem = m.mem
  /\ op = 50 => n.mem = [m.mem EXCEPT ![a] = m.reg["a"]] /\ n.reg = m.reg

LEMMA AddressEffects ==
  ASSUME NEW m \in Machine, NEW in, NEW op \in Stores,
         NEW p \in 0..46, m.pc = p, NEW a \in 0..49,
         m.mem[p] = a, m.mem[p + 1] = 0
  PROVE  Addressed(exec_next(m, op, in), m, op, p, a)
<1> USE DEF Addressed, Stores
<1> DEFINE b == begin(m, op)
           s == SkipWord(b)
<1>1. b \in Machine /\ Same(b, m) /\ b.pc = p
  <2>1. op \in Byte
    BY DEF Byte
  <2>2. b \in Machine /\ Same(b, m)
    BY <2>1, BeginSame
  <2> QED BY <2>2 DEF Same
<1> HIDE DEF b
<1>2. NextWord(b) = a /\ s.pc = p + 2
  <2>1. b \in Machine /\ b.pc = p /\ b.mem = m.mem
    BY <1>1 DEF Same
  <2>2. NextWord(b) = 256 * b.mem[p + 1] + b.mem[p] /\ s.pc = p + 2
    BY <2>1, OperandIs
  <2> QED BY <2>1, <2>2
<1>3. s \in Machine /\ s.sp = m.sp /\ s.mem = m.mem /\ s.reg = m.reg
  BY <1>1, SkipMachine DEF SkipWord, Same, Machine
<1>4. Cell(a) = a
  BY CellsOf
<1>5. b.reg = m.reg
  BY <1>1 DEF Same
<1> HIDE DEF s
<1>6. CASE op = 58
  <2>1. exec_next(m, op, in) = [s EXCEPT !.reg["a"] = ReadByte(b, a)]
    BY <1>2, <1>6, LowBodies DEF b, s, load
  <2> QED BY <1>2, <1>3, <1>6, <2>1 DEF Machine
<1>7. CASE op = 50
  <2>1. exec_next(m, op, in) = [s EXCEPT !.mem[a] = m.reg["a"]]
    BY <1>2, <1>4, <1>5, <1>7, LowBodies DEF b, s, store, WriteByte
  <2> QED BY <1>2, <1>3, <1>7, <2>1 DEF Machine
<1> QED
  BY <1>6, <1>7

\* JMP and JZ to a.
Jumps == {195, 202}

Jumped(n, m, op, p, a) ==
  /\ n.pc = a \/ (op = 202 /\ n.pc = p + 2)
  /\ n.sp = m.sp /\ n.mem = m.mem

LEMMA JumpEffects ==
  ASSUME NEW m \in Machine, NEW in, NEW op \in Jumps,
         NEW p \in 0..46, m.pc = p, NEW a \in 0..49,
         m.mem[p] = a, m.mem[p + 1] = 0
  PROVE  Jumped(exec_next(m, op, in), m, op, p, a)
<1> USE DEF Jumped, Jumps
<1> DEFINE b == begin(m, op)
           s == SkipWord(b)
<1>1. b \in Machine /\ Same(b, m) /\ b.pc = p
  <2>1. op \in Byte
    BY DEF Byte
  <2>2. b \in Machine /\ Same(b, m)
    BY <2>1, BeginSame
  <2> QED BY <2>2 DEF Same
<1> HIDE DEF b
<1>2. NextWord(b) = a /\ s.pc = p + 2
  <2>1. b \in Machine /\ b.pc = p /\ b.mem = m.mem
    BY <1>1 DEF Same
  <2>2. NextWord(b) = 256 * b.mem[p + 1] + b.mem[p] /\ s.pc = p + 2
    BY <2>1, OperandIs
  <2> QED BY <2>1, <2>2
<1>3. s \in Machine /\ s.sp = m.sp /\ s.mem = m.mem
  BY <1>1, SkipMachine DEF SkipWord, Same, Machine
<1> HIDE DEF s
<1>4. CASE op = 195
  <2>1. exec_next(m, op, in) = [b EXCEPT !.pc = a]
    BY <1>2, <1>4, BranchBodies DEF b
  <2> DEFINE n == exec_next(m, op, in)
  <2> HIDE DEF n
  <2>2. n.pc = a /\ n.sp = m.sp /\ n.mem = m.mem
    BY <1>1, <2>1 DEF n, Same, Machine
  <2> QED BY <2>2 DEF n
<1>5. CASE op = 202
  <2>1. exec_next(m, op, in) = op_jmp_cond(s, a, Cond(b, 1))
    BY <1>2, <1>5, BranchBodies DEF b, s
  <2> DEFINE n == exec_next(m, op, in)
             k == [s EXCEPT !.pc = a]
  <2>2. k.pc = a /\ k.sp = m.sp /\ k.mem = m.mem
    BY <1>3 DEF Machine
  <2> HIDE DEF n
  <2>3. n = k \/ n = s
    BY <2>1 DEF n, op_jmp_cond
  <2> HIDE DEF k
  <2>4. \/ n.pc = a /\ n.sp = m.sp /\ n.mem = m.mem
        \/ n.pc = p + 2 /\ n.sp = m.sp /\ n.mem = m.mem
    BY <1>2, <1>3, <2>2, <2>3
  <2> QED BY <1>5, <2>4 DEF n
<1> QED
  BY <1>4, <1>5

-----------------------------------------------------------------------------
(* The stack of the service.                                                *)

\* A push below the words that are there: n is the machine after it.
Pushed(n, m, s, w) ==
  /\ n \in Machine
  /\ n.sp = s
  /\ ReadWord(n, s) = w
  /\ s = 65532 => ReadWord(n, 65534) = ReadWord(m, 65534)
  /\ \A a \in 0..49 : n.mem[a] = m.mem[a]
  /\ n.reg = m.reg /\ n.cf = m.cf /\ n.pc = m.pc

LEMMA PushEffects ==
  ASSUME NEW m \in Machine, NEW w \in Word, NEW s,
         (m.sp = 0 /\ s = 65534) \/ (m.sp = 65534 /\ s = 65532)
  PROVE  Pushed(StackPush(m, w), m, s, w)
<1> DEFINE n == StackPush(m, w)
           lo == Cell(s)
           hi == Cell(s + 1)
           mem == [m.mem EXCEPT ![lo] = Low(w), ![hi] = High(w)]
<1>1. Wrap16(m.sp - 2) = s /\ Wrap16(s + 1) = s + 1 /\ s \in Word
  BY WordRange DEF Wrap16
<1>2. n.sp = s /\ n.mem = mem /\ n.reg = m.reg /\ n.cf = m.cf /\ n.pc = m.pc
  BY <1>1, PushIs
<1>3. /\ lo \in 0..(MemSize - 1) /\ hi \in 0..(MemSize - 1) /\ lo # hi
      /\ lo > 49 /\ hi > 49
  <2>1. /\ s \in {65532, 65533, 65534, 65535}
        /\ s + 1 \in {65532, 65533, 65534, 65535} /\ s # s + 1
    OBVIOUS
  <2> QED BY <2>1, CellsOf
<1>4. n \in Machine
  BY StackPushQuiet, QuietType
<1> HIDE DEF n, lo, hi
<1>5. /\ mem[lo] = Low(w) /\ mem[hi] = High(w)
      /\ \A c \in 0..(MemSize - 1) : c # lo /\ c # hi => mem[c] = m.mem[c]
  <2> DEFINE D == 0..(MemSize - 1)
  <2>1. m.mem \in [D -> Byte] /\ lo \in D /\ hi \in D /\ lo # hi
    BY <1>3, MembersType
  <2> HIDE DEF D
  <2>2. /\ mem[lo] = Low(w) /\ mem[hi] = High(w)
        /\ \A c \in D : c # lo /\ c # hi => mem[c] = m.mem[c]
    BY <2>1
  <2> QED BY <2>2 DEF D
<1> HIDE DEF mem
<1>6. ReadWord(n, s) = w
  BY <1>1, <1>5, <1>2, WordJoins DEF ReadWord, ReadByte, lo, hi
<1>7. \A a \in 0..49 : n.mem[a] = m.mem[a]
  <2> TAKE a \in 0..49
  <2>1. a # lo /\ a # hi /\ a \in 0..(MemSize - 1)
    BY <1>3, CellsOf
  <2> QED BY <1>5, <1>2, <2>1
<1>8. ASSUME s = 65532
      PROVE  ReadWord(n, 65534) = ReadWord(m, 65534)
  <2>1. Wrap16(65534 + 1) = 65535
    BY DEF Wrap16
  <2>2. \A c \in {65534, 65535} :
          Cell(c) \in 0..(MemSize - 1) /\ Cell(c) # lo /\ Cell(c) # hi
    BY <1>8, CellsOf DEF lo, hi
  <2>3. n.mem[Cell(65534)] = m.mem[Cell(65534)]
        /\ n.mem[Cell(65535)] = m.mem[Cell(65535)]
    BY <1>5, <1>2, <2>2
  <2> QED BY <2>1, <2>3 DEF ReadWord, ReadByte
<1> QED
  BY <1>4, <1>2, <1>6, <1>7, <1>8 DEF Pushed, n

LEMMA SameReads == \A n, m, a : n.mem = m.mem => ReadWord(n, a) = ReadWord(m, a)
  BY DEF ReadWord, ReadByte

LEMMA RstEffects ==
  ASSUME NEW m \in Machine, NEW in, m.sp = 0
  PROVE  LET n == exec_next(m, 207, in) IN
         /\ n.pc = 8 /\ n.sp = 65534
         /\ ReadWord(n, 65534) = m.pc
         /\ n.reg = m.reg /\ n.cf = m.cf
         /\ \A a \in 0..49 : n.mem[a] = m.mem[a]
<1> DEFINE b == begin(m, 207)
           k == StackPush(b, b.pc)
           n == exec_next(m, 207, in)
<1>1. b \in Machine /\ Same(b, m)
  BY BeginSame DEF Byte
<1> HIDE DEF b
<1>2. Pushed(k, b, 65534, b.pc)
  BY <1>1, MembersType, PushEffects DEF Same
<1>3. n = [k EXCEPT !.pc = 8]
  BY BranchBodies DEF op_call, b
<1> HIDE DEF k, n
<1>4. n.pc = 8 /\ n.sp = k.sp /\ n.mem = k.mem /\ n.reg = k.reg /\ n.cf = k.cf
  BY <1>2, <1>3 DEF Pushed, Machine
<1>5. ReadWord(n, 65534) = ReadWord(k, 65534)
  BY <1>4, SameReads
<1> QED
  BY <1>1, <1>2, <1>4, <1>5 DEF Pushed, Same, n

LEMMA PushPswEffects ==
  ASSUME NEW m \in Machine, NEW in, m.sp = 65534
  PROVE  LET n == exec_next(m, 245, in) IN
         /\ n.pc = m.pc /\ n.sp = 65532
         /\ ReadWord(n, 65532) = WordFromBytes(m.reg["a"], Psw(m.cf))
         /\ ReadWord(n, 65534) = ReadWord(m, 65534)
         /\ n.reg = m.reg
         /\ \A a \in 0..49 : n.mem[a] = m.mem[a]
<1> DEFINE b == begin(m, 245)
           w == WordFromBytes(b.reg["a"], Psw(b.cf))
           n == exec_next(m, 245, in)
<1>1. b \in Machine /\ Same(b, m)
  BY BeginSame DEF Byte
<1> HIDE DEF b
<1>2. w \in Word
  BY <1>1, MembersType, PswType, WordType DEF RegName
<1>3. n = StackPush(b, w)
  BY OtherBodies DEF op_push_psw, b
<1>4. w = WordFromBytes(m.reg["a"], Psw(m.cf))
  BY <1>1 DEF Same
<1> HIDE DEF w, n
<1>5. Pushed(n, b, 65532, w)
  BY <1>1, <1>2, <1>3, PushEffects DEF Same
<1>6. ReadWord(b, 65534) = ReadWord(m, 65534)
  BY <1>1, SameReads DEF Same
<1> QED
  BY <1>1, <1>4, <1>5, <1>6 DEF Pushed, Same, n

LEMMA PopPswEffects ==
  ASSUME NEW m \in Machine, NEW in, m.sp = 65532,
         NEW x \in Byte, NEW f \in [Flag -> BOOLEAN],
         ReadWord(m, 65532) = WordFromBytes(x, Psw(f))
  PROVE  LET n == exec_next(m, 241, in) IN
         /\ n.pc = m.pc /\ n.sp = 65534 /\ n.mem = m.mem
         /\ n.reg = [m.reg EXCEPT !["a"] = x]
         /\ n.cf = f
<1> DEFINE b == begin(m, 241)
           d == StackDrop(b)
           w == StackTop(b)
           weight == [s |-> 128, z |-> 64, a |-> 16, p |-> 4, c |-> 1]
           g == [y \in Flag |-> Bit(Low(w), weight[y]) = 1]
           n == exec_next(m, 241, in)
<1>1. b \in Machine /\ Same(b, m)
  BY BeginSame DEF Byte
<1> HIDE DEF b
<1>2. w = WordFromBytes(x, Psw(f))
  BY <1>1, SameReads DEF StackTop, Same
<1>3. High(w) = x /\ Low(w) = Psw(f)
  BY <1>2, PswType, WordSplits
<1>4. g = f
  BY <1>3, PswBits DEF Flag
<1>5. n = [d EXCEPT !.reg["a"] = High(w), !.cf = g]
  <2>1. n = op_pop_psw(b)
    BY OtherBodies DEF b
  <2>2. op_pop_psw(b) = [d EXCEPT !.reg["a"] = High(w), !.cf = g]
    BY DEF op_pop_psw
  <2> QED BY <2>1, <2>2
<1>6. Wrap16(b.sp + 2) = 65534
  BY <1>1 DEF Same, Wrap16
<1>7. /\ d \in Machine /\ d.sp = 65534
      /\ d.reg = m.reg /\ d.mem = m.mem /\ d.pc = m.pc
  BY <1>1, <1>6, StackPopQuiet, QuietType DEF StackDrop, Same, Machine
<1> HIDE DEF d, w, g, n
<1>8. /\ n.sp = d.sp /\ n.mem = d.mem /\ n.pc = d.pc /\ n.cf = g
      /\ n.reg = [d.reg EXCEPT !["a"] = High(w)]
  BY <1>5, <1>7 DEF Machine
<1> QED
  BY <1>3, <1>4, <1>7, <1>8 DEF n

LEMMA RetEffects ==
  ASSUME NEW m \in Machine, NEW in, m.sp = 65534
  PROVE  LET n == exec_next(m, 201, in) IN
         /\ n.pc = ReadWord(m, 65534) /\ n.sp = 0
         /\ n.mem = m.mem /\ n.reg = m.reg /\ n.cf = m.cf
<1> DEFINE b == begin(m, 201)
           d == StackDrop(b)
           n == exec_next(m, 201, in)
<1>1. b \in Machine /\ Same(b, m)
  BY BeginSame DEF Byte
<1> HIDE DEF b
<1>2. StackTop(b) = ReadWord(m, 65534)
  BY <1>1, SameReads DEF StackTop, Same
<1>3. Wrap16(b.sp + 2) = 0
  BY <1>1 DEF Same, Wrap16
<1>4. /\ d \in Machine /\ d.sp = 0
      /\ d.reg = m.reg /\ d.mem = m.mem /\ d.cf = m.cf
  BY <1>1, <1>3, StackPopQuiet, QuietType DEF StackDrop, Same, Machine
<1>5. n = [d EXCEPT !.pc = StackTop(b)]
  BY BranchBodies DEF op_ret, b
<1> HIDE DEF d, n
<1>6. /\ n.pc = StackTop(b) /\ n.sp = d.sp
      /\ n.mem = d.mem /\ n.reg = d.reg /\ n.cf = d.cf
  BY <1>4, <1>5 DEF Machine
<1> QED
  BY <1>2, <1>4, <1>6 DEF n

-----------------------------------------------------------------------------
(* From one instruction of the program to the next.                         *)

\* An instruction runs on the machine exec_next leaves.
LEMMA ExecuteIs ==
  ASSUME TypeOK, Execute
  PROVE  /\ executing' = NoOp
         /\ \E in \in Byte : Same(cpu', exec_next(cpu, executing, in))
<1>1. PICK in \in DeviceBytes : cpu' = [exec_next(cpu, executing, in) EXCEPT !.cycles = 0]
  BY DEF Execute
<1> DEFINE n == exec_next(cpu, executing, in)
<1>2. cpu \in Machine /\ executing \in Byte /\ in \in Byte
  BY HostAssumption DEF TypeOK, Execute
<1>3. n \in Machine
  BY <1>2, ExecNextOnTheLine
<1> HIDE DEF n
<1>4. Same(cpu', n)
  BY <1>1, <1>3 DEF n, Same, Machine
<1> QED
  BY <1>2, <1>4 DEF n, Execute

\* The cpu and the frames stay as they are but for a request.
LEMMA StaysThere ==
  ASSUME Somewhere, Same(cpu', cpu), cpu'.inte = cpu.inte,
         cpu'.interrupt_delay = cpu.interrupt_delay,
         executing' = executing, frames' = frames
  PROVE  Somewhere'
<1>1. /\ Frame(cpu') = Frame(cpu)
      /\ \A a : ReadWord(cpu', a) = ReadWord(cpu, a)
      /\ cpu'.reg = cpu.reg /\ cpu'.cf = cpu.cf /\ cpu'.pc = cpu.pc
      /\ cpu'.sp = cpu.sp /\ cpu'.mem = cpu.mem
  BY SameReads DEF Same, Frame
<1>2. ASSUME NEW p, InLoop(p)
      PROVE  InLoop(p)'
  BY <1>1, <1>2 DEF InLoop, At, BytesEqual
<1>3. Taken => Taken'
  BY <1>1 DEF Taken, BytesEqual
<1>4. ASSUME NEW p, NEW F, InService(p, F)
      PROVE  InService(p, F)'
  BY <1>1, <1>4 DEF InService, At, Saved, BytesEqual
<1> QED
  BY <1>2, <1>3, <1>4 DEF Somewhere

LEMMA FetchGoesOn ==
  ASSUME TypeOK, Kept, Somewhere, Fetch, UNCHANGED frames
  PROVE  Somewhere'
<1>1. cpu \in Machine /\ executing = NoOp /\ NoOp \notin {0, 207}
  BY DEF TypeOK, Fetch, NoOp
<1>2. /\ cpu'.reg = cpu.reg /\ cpu'.cf = cpu.cf
      /\ cpu'.sp = cpu.sp /\ cpu'.mem = cpu.mem
      /\ cpu'.inte = cpu.inte /\ cpu'.interrupt_delay = cpu.interrupt_delay
  BY <1>1 DEF Fetch, SkipByte, Machine
<1>3. \A a : ReadWord(cpu', a) = ReadWord(cpu, a)
  BY <1>2, SameReads
<1>4. ASSUME NEW p \in 0..46, At(p)
      PROVE  At(p)'
  <2>1. cpu.pc = p
    <3>1. Code(p) # NoOp
      BY CodeIsOpcode
    <3> QED BY <1>1, <1>4, <3>1 DEF At
  <2>2. NextByte(cpu) = cpu.mem[p] /\ SkipByte(cpu).pc = p + 1
    BY <1>1, <2>1, OperandIs
  <2>3. cpu.mem[p] = Code(p)
    BY DEF Kept
  <2> QED BY <2>2, <2>3 DEF At, Fetch
<1>5. ~Taken
  BY <1>1 DEF Taken
<1>6. ASSUME NEW p \in LoopPoints, InLoop(p)
      PROVE  InLoop(p)'
  <2>1. At(p)'
    <3>1. p \in 0..46
      BY DEF LoopPoints
    <3> QED BY <1>4, <1>6, <3>1 DEF InLoop
  <2> QED BY <1>2, <1>6, <2>1 DEF InLoop, BytesEqual
<1>7. ASSUME NEW p \in ServicePoints, NEW F, InService(p, F)
      PROVE  InService(p, F)'
  <2>1. At(p)'
    BY <1>4, <1>7 DEF InService, ServicePoints
  <2> QED BY <1>2, <1>3, <1>7, <2>1 DEF InService, Saved, BytesEqual
<1> QED
  BY <1>5, <1>6, <1>7 DEF Somewhere

\* A request is taken only where the program is open.
LEMMA AcknowledgeGoesOn ==
  ASSUME TypeOK, Kept, Somewhere, Acknowledge,
         frames' = IF cpu.interrupt_opcode = 0 THEN frames
                   ELSE Append(frames, Frame(cpu))
  PROVE  Somewhere'
<1>1. /\ cpu \in Machine /\ executing = NoOp /\ NoOp \notin {0, 207}
      /\ cpu.inte /\ ~cpu.interrupt_delay
      /\ executing' = cpu.interrupt_opcode /\ cpu.interrupt_opcode \in {0, 207}
  BY DEF TypeOK, Kept, Acknowledge, Recognisable, NoOp
<1>2. /\ cpu'.pc = cpu.pc /\ cpu'.sp = cpu.sp /\ cpu'.mem = cpu.mem
      /\ cpu'.reg = cpu.reg /\ cpu'.cf = cpu.cf
      /\ ~cpu'.inte /\ cpu'.interrupt_delay = cpu.interrupt_delay
  BY <1>1 DEF Acknowledge, Machine
<1>3. ~Taken
  BY <1>1 DEF Taken
<1>4. ASSUME NEW p \in ServicePoints, NEW F, InService(p, F)
      PROVE  FALSE
  BY <1>1, <1>4 DEF InService
<1>5. PICK p \in LoopPoints : InLoop(p)
  BY <1>3, <1>4 DEF Somewhere
<1>6. p \in Open /\ cpu.pc = p /\ BytesEqual
  <2>1. Code(p) # NoOp
    <3>1. p \in 0..46
      BY DEF LoopPoints
    <3> QED BY <3>1, CodeIsOpcode
  <2> QED BY <1>1, <1>5, <2>1 DEF InLoop, At, Open
<1>7. executing' = 207 => frames' = <<Frame(cpu)>> /\ Frame(cpu') = Frame(cpu)
  BY <1>1, <1>2, <1>5 DEF InLoop, Frame
<1>8. executing' = 0 => frames' = <<>>
  BY <1>1, <1>5 DEF InLoop
<1>9. Taken'
  BY <1>1, <1>2, <1>5, <1>6, <1>7, <1>8 DEF Taken, InLoop, BytesEqual
<1> QED
  BY <1>9 DEF Somewhere

\* The frames an instruction leaves: a RET ends the service.
RetLeaves ==
  frames' = IF executing = RET /\ frames # <<>> THEN Front(frames) ELSE frames

\* Where an instruction of the loop has to come out.
LEMMA LoopLands ==
  ASSUME NEW p \in LoopPoints, executing' = NoOp, cpu'.pc = p,
         frames' = <<>>, cpu'.sp = 0,
         cpu'.inte => p \in Open \cup {34, 39},
         p \in {34, 39} => cpu'.interrupt_delay,
         IF p = 25 THEN cpu'.reg["a"] = cpu'.mem[48] ELSE cpu'.mem[48] = cpu'.mem[49]
  PROVE  Somewhere'
<1>1. InLoop(p)'
  BY DEF InLoop, At, BytesEqual
<1> QED
  BY <1>1 DEF Somewhere

\* An instruction of the loop leads to the next, and writes no other cell of
\* the program than its two bytes.
LEMMA LoopGoesOn ==
  ASSUME TypeOK, Kept, NEW p \in LoopPoints, InLoop(p), Execute,
         RetLeaves
  PROVE  Somewhere' /\ \A a \in 0..47 : cpu'.mem[a] = cpu.mem[a]
<1> DEFINE op == executing
<1>0. frames' = <<>> /\ executing' = NoOp
  BY ExecuteIs DEF InLoop, RetLeaves
<1>1. /\ cpu \in Machine /\ op = Code(p) /\ cpu.pc = p + 1 /\ cpu.sp = 0
      /\ p + 1 \in 0..46 /\ p \in Int
  <2>1. p + 1 \in 0..46 /\ p \in Int
    BY DEF LoopPoints
  <2> QED BY <2>1 DEF TypeOK, InLoop, At, Execute
<1>9. \A q \in 0..47 : cpu.mem[q] = Code(q)
  BY DEF Kept
<1>2. PICK in \in Byte : Same(cpu', exec_next(cpu, op, in))
  BY ExecuteIs
<1>3. /\ cpu'.interrupt_delay = (op = EI)
      /\ cpu'.inte = ((cpu.inte \/ op = EI) /\ op # DI)
      /\ cpu'.mem \in [0..(MemSize - 1) -> Byte]
      /\ cpu.mem \in [0..(MemSize - 1) -> Byte]
      /\ cpu.inte \in BOOLEAN
  BY ExecuteOnTheLine, MembersType DEF TypeOK, Machine
<1>4. /\ cpu.inte => p \in Open \cup {34, 39}
      /\ IF p = 25 THEN cpu.reg["a"] = cpu.mem[48] ELSE cpu.mem[48] = cpu.mem[49]
  BY DEF InLoop, BytesEqual
<1> HIDE DEF op
<1> DEFINE n == exec_next(cpu, op, in)
           Landed(r) == /\ r \in LoopPoints
                        /\ cpu'.inte => r \in Open \cup {34, 39}
                        /\ r \in {34, 39} => cpu'.interrupt_delay
<1>5. CASE p \in {16, 17, 32, 33, 34, 38}
  <2>1. op \in {0, 118, 243, 251} /\ p # 25
    BY <1>1, <1>5, CodeIs
  <2>2. Same(n, cpu)
    BY <1>1, <2>1, SimpleEffects
  <2>3. cpu'.pc = p + 1 /\ cpu'.sp = 0 /\ cpu'.mem = cpu.mem
    BY <1>1, <1>2, <2>2 DEF Same
  <2>4. Landed(p + 1) /\ p + 1 # 25
    <3>1. p + 1 \in LoopPoints
      BY <1>5 DEF LoopPoints
    <3>2. /\ p + 1 \in {34, 39} => op = EI
          /\ op = EI => p \in {16, 33, 38}
          /\ p = 17 => op = DI
      BY <1>1, <1>5, CodeIs DEF EI, DI
    <3>3. p \in {16, 33, 34, 38} => p + 1 \in Open \cup {34, 39}
      BY DEF Open
    <3>4. cpu'.inte => p \in {16, 33, 34, 38}
      <4>1. cpu.inte => p \in {16, 17, 34}
        BY <1>4, <1>5 DEF Open
      <4> QED BY <1>3, <3>2, <4>1
    <3>5. p + 1 # 25
      BY <1>5
    <3> QED BY <1>3, <3>1, <3>2, <3>3, <3>4, <3>5
  <2>5. Somewhere'
    <3> HIDE DEF n
    <3> QED BY <1>0, <1>4, <2>1, <2>3, <2>4, LoopLands
  <2> QED BY <2>3, <2>5
<1>6. CASE p \in {21, 28}
  <2>1. op \in {47, 183, 219} /\ op \in {47, 183} /\ p # 25 /\ ~cpu.inte
    BY <1>1, <1>4, <1>6, CodeIs DEF Open
  <2>2. n.pc = p + 1 /\ n.sp = cpu.sp /\ n.mem = cpu.mem
    BY <1>1, <2>1, AccumulatorEffects
  <2>3. cpu'.pc = p + 1 /\ cpu'.sp = 0 /\ cpu'.mem = cpu.mem
    BY <1>1, <1>2, <2>2 DEF Same
  <2>4. Landed(p + 1) /\ p + 1 # 25
    BY <1>3, <1>6, <2>1 DEF EI, LoopPoints
  <2>5. Somewhere'
    <3> HIDE DEF n
    <3> QED BY <1>0, <1>4, <2>1, <2>3, <2>4, LoopLands
  <2> QED BY <2>3, <2>5
<1>7. CASE p \in {18, 22, 25}
  <2> DEFINE a == IF p = 25 THEN 49 ELSE 48
  <2>1. /\ op \in {50, 58} /\ (op = 58 <=> p = 18) /\ ~cpu.inte
        /\ cpu.mem[p + 1] = a /\ cpu.mem[p + 1 + 1] = 0 /\ a \in 0..49
    <3>1. CASE p = 18
      BY <1>1, <1>4, <1>9, <3>1, CodeIs DEF Open
    <3>2. CASE p = 22
      BY <1>1, <1>4, <1>9, <3>2, CodeIs DEF Open
    <3>3. CASE p = 25
      BY <1>1, <1>4, <1>9, <3>3, CodeIs DEF Open
    <3> QED BY <1>7, <3>1, <3>2, <3>3
  <2> HIDE DEF a
  <2>2. Addressed(n, cpu, op, p + 1, a)
    <3> DEFINE q == p + 1
    <3>1. q \in 0..46 /\ cpu.pc = q /\ cpu.mem[q] = a /\ cpu.mem[q + 1] = 0
      BY <1>1, <2>1
    <3> HIDE DEF q
    <3>2. Addressed(n, cpu, op, q, a)
      <4>1. cpu \in Machine /\ op \in Stores /\ a \in 0..49
        BY <1>1, <2>1 DEF Stores
      <4> QED BY <4>1, <3>1, AddressEffects, Zenon
    <3> HIDE DEF n
    <3> QED BY <3>2 DEF q
  <2>3. /\ cpu'.pc = p + 3 /\ cpu'.sp = 0
        /\ op = 58 => cpu'.mem = cpu.mem
        /\ op = 50 => cpu'.mem = [cpu.mem EXCEPT ![a] = cpu.reg["a"]] /\ cpu'.reg = cpu.reg
    BY <1>1, <1>2, <2>2 DEF Same, Addressed
  <2>4. Landed(p + 3)
    BY <1>3, <1>7, <2>1 DEF EI, LoopPoints
  <2>5. 48 \in 0..(MemSize - 1) /\ 49 \in 0..(MemSize - 1)
    BY CellsOf
  <2>9. op = 50 => /\ cpu'.mem[a] = cpu.reg["a"]
                  /\ \A c \in {48, 49} : c # a => cpu'.mem[c] = cpu.mem[c]
    <3> DEFINE D == 0..(MemSize - 1)
               old == cpu.mem
               new == cpu'.mem
    <3>1. old \in [D -> Byte] /\ 48 \in D /\ 49 \in D /\ a \in D
      BY <1>3, <2>5 DEF a
    <3>2. op = 50 => new = [old EXCEPT ![a] = cpu.reg["a"]]
      BY <2>3
    <3> HIDE DEF D, old, new
    <3>3. op = 50 => new[a] = cpu.reg["a"] /\ \A c \in D : c # a => new[c] = old[c]
      BY <3>1, <3>2
    <3> QED BY <3>1, <3>3 DEF old, new
  <2>6. IF p + 3 = 25 THEN cpu'.reg["a"] = cpu'.mem[48] ELSE cpu'.mem[48] = cpu'.mem[49]
    <3>1. CASE p = 18
      BY <1>4, <2>1, <2>3, <3>1
    <3>2. CASE p = 22
      <4>1. a = 48 /\ p + 3 = 25 /\ op = 50
        BY <2>1, <3>2 DEF a
      <4>2. cpu'.mem[48] = cpu.reg["a"] /\ cpu'.reg = cpu.reg
        BY <2>3, <2>9, <4>1
      <4> QED BY <4>1, <4>2
    <3>3. CASE p = 25
      <4>1. a = 49 /\ p + 3 # 25 /\ op = 50 /\ cpu.reg["a"] = cpu.mem[48]
        BY <1>4, <2>1, <3>3 DEF a
      <4>2. cpu'.mem[49] = cpu.reg["a"] /\ cpu'.mem[48] = cpu.mem[48]
        BY <2>3, <2>9, <4>1
      <4> QED BY <4>1, <4>2
    <3> QED BY <1>7, <3>1, <3>2, <3>3
  <2>7. \A c \in 0..47 : cpu'.mem[c] = cpu.mem[c]
    <3>1. \A c \in 0..47 : c # a
      BY DEF a
    <3>2. \A c \in 0..47 : c \in 0..(MemSize - 1)
      BY CellsOf
    <3> QED BY <1>3, <2>1, <2>3, <3>1, <3>2
  <2>8. Somewhere'
    <3> HIDE DEF n
    <3> QED BY <1>0, <2>3, <2>4, <2>6, LoopLands
  <2> QED BY <2>7, <2>8
<1>8. CASE p \in {29, 35, 39}
  <2> DEFINE a == IF p = 29 THEN 38 ELSE 17
  <2>1. /\ op \in {195, 202} /\ (op = 202 <=> p = 29) /\ (p = 29 => ~cpu.inte)
        /\ cpu.mem[p + 1] = a /\ cpu.mem[p + 1 + 1] = 0 /\ a \in 0..49
    <3>1. CASE p = 29
      BY <1>1, <1>4, <1>9, <3>1, CodeIs DEF Open
    <3>2. CASE p = 35
      BY <1>1, <1>4, <1>9, <3>2, CodeIs DEF Open
    <3>3. CASE p = 39
      BY <1>1, <1>4, <1>9, <3>3, CodeIs DEF Open
    <3> QED BY <1>8, <3>1, <3>2, <3>3
  <2> HIDE DEF a
  <2>2. Jumped(n, cpu, op, p + 1, a)
    <3> DEFINE q == p + 1
    <3>1. q \in 0..46 /\ cpu.pc = q /\ cpu.mem[q] = a /\ cpu.mem[q + 1] = 0
      BY <1>1, <2>1
    <3> HIDE DEF q
    <3>2. Jumped(n, cpu, op, q, a)
      <4>1. cpu \in Machine /\ op \in Jumps /\ a \in 0..49
        BY <1>1, <2>1 DEF Jumps
      <4> QED BY <4>1, <3>1, JumpEffects, Zenon
    <3> HIDE DEF n
    <3> QED BY <3>2 DEF q
  <2>3. /\ cpu'.pc = a \/ (p = 29 /\ cpu'.pc = 32)
        /\ cpu'.sp = 0 /\ cpu'.mem = cpu.mem
    BY <1>1, <1>2, <2>1, <2>2 DEF Same, Jumped
  <2>4. Landed(cpu'.pc) /\ cpu'.pc # 25
    BY <1>3, <1>8, <2>1, <2>3 DEF EI, LoopPoints, Open, a
  <2>5. Somewhere'
    <3> HIDE DEF n
    <3>1. cpu'.mem[48] = cpu'.mem[49]
      BY <1>4, <1>8, <2>3
    <3> QED BY <1>0, <2>3, <2>4, <3>1, LoopLands
  <2> QED BY <2>3, <2>5
<1> QED
  BY <1>5, <1>6, <1>7, <1>8 DEF LoopPoints
\* Where an instruction of the service has to come out.
LEMMA ServiceLands ==
  ASSUME NEW p \in ServicePoints, NEW F \in Framed, executing' = NoOp,
         cpu'.pc = p, frames' = <<F>>, ReadWord(cpu', 65534) = F.pc, Saved(p, F)',
         cpu'.inte => p = 14, p = 14 => cpu'.interrupt_delay,
         cpu'.mem[48] = cpu'.mem[49]
  PROVE  Somewhere'
<1>1. InService(p, F)'
  BY DEF InService, At, BytesEqual
<1> QED
  BY <1>1 DEF Somewhere

\* The instruction of a request: a NOP goes on with the program, an RST starts
\* the service.
LEMMA TakenGoesOn ==
  ASSUME TypeOK, Taken, Execute, RetLeaves
  PROVE  Somewhere' /\ \A a \in 0..47 : cpu'.mem[a] = cpu.mem[a]
<1> DEFINE op == executing
<1>1. PICK in \in Byte : Same(cpu', exec_next(cpu, op, in))
  BY ExecuteIs
<1>2. /\ cpu \in Machine /\ cpu.sp = 0 /\ cpu.pc \in Open /\ op \in {0, 207}
      /\ executing' = NoOp /\ op # RET /\ frames' = frames
  BY ExecuteIs DEF TypeOK, Taken, RET, RetLeaves
<1>3. ~cpu'.inte /\ cpu.mem[48] = cpu.mem[49]
  <2>1. ~cpu.inte /\ cpu.mem[48] = cpu.mem[49]
    BY DEF Taken, BytesEqual
  <2>2. cpu'.inte = ((cpu.inte \/ op = EI) /\ op # DI)
    BY ExecuteOnTheLine
  <2>3. op # EI
    BY <1>2 DEF EI
  <2> QED BY <2>1, <2>2, <2>3
<1> DEFINE n == exec_next(cpu, op, in)
<1>4. CASE op = 0
  <2>1. Same(n, cpu) /\ frames' = <<>>
    BY <1>2, <1>4, SimpleEffects DEF Taken
  <2> HIDE DEF n
  <2>2. cpu'.pc \in Open /\ cpu'.sp = 0 /\ cpu'.mem = cpu.mem
    BY <1>1, <1>2, <2>1 DEF Same, n
  <2>3. cpu'.pc \in LoopPoints /\ cpu'.pc # 25 /\ cpu'.pc \notin {34, 39}
    BY <2>2 DEF Open, LoopPoints
  <2>4. Somewhere'
    BY <1>2, <1>3, <2>1, <2>2, <2>3, LoopLands
  <2> QED BY <2>2, <2>4
<1>5. CASE op = 207
  <2>1. /\ n.pc = 8 /\ n.sp = 65534 /\ ReadWord(n, 65534) = cpu.pc
        /\ n.reg = cpu.reg /\ n.cf = cpu.cf
        /\ \A a \in 0..49 : n.mem[a] = cpu.mem[a]
    BY <1>2, <1>5, RstEffects
  <2> HIDE DEF n
  <2>2. /\ cpu'.pc = 8 /\ cpu'.sp = 65534 /\ ReadWord(cpu', 65534) = cpu.pc
        /\ cpu'.reg = cpu.reg /\ cpu'.cf = cpu.cf
        /\ \A a \in 0..49 : cpu'.mem[a] = cpu.mem[a]
    BY <1>1, <2>1, SameReads DEF Same, n
  <2>3. Frame(cpu) \in Framed /\ frames' = <<Frame(cpu)>>
    <3>1. Frame(cpu) \in Framed
      BY <1>2, MembersType DEF Frame, Framed
    <3> QED BY <1>2, <1>5, <3>1 DEF Taken
  <2>4. PICK F \in Framed : F = Frame(cpu)
    BY <2>3
  <2>5. F.pc = cpu.pc /\ F.reg = cpu.reg /\ F.cf = cpu.cf /\ frames' = <<F>>
    BY <2>3, <2>4 DEF Frame
  <2>6. Saved(8, F)'
    BY <2>2, <2>5 DEF Saved
  <2>7. 8 \in ServicePoints /\ cpu'.mem[48] = cpu'.mem[49]
    BY <1>3, <2>2 DEF ServicePoints
  <2>8. Somewhere'
    BY <1>2, <1>3, <2>2, <2>5, <2>6, <2>7, ServiceLands
  <2> QED BY <2>2, <2>8
<1> QED
  BY <1>2, <1>4, <1>5
LEMMA FrontOfOne == \A F : <<F>> # <<>> /\ Front(<<F>>) = <<>>
  BY DEF Front

\* An instruction of the service leads to the next, and its RET to the program
\* as it was.
LEMMA ServiceGoesOn ==
  ASSUME TypeOK, NEW p \in ServicePoints, NEW F \in Framed, InService(p, F), Execute,
         RetLeaves
  PROVE  /\ Somewhere' /\ \A a \in 0..47 : cpu'.mem[a] = cpu.mem[a]
         /\ executing = RET => Frame(cpu') = F
<1> DEFINE op == executing
<1>1. /\ cpu \in Machine /\ op = Code(p) /\ cpu.pc = p + 1 /\ frames = <<F>>
      /\ executing' = NoOp /\ ReadWord(cpu, 65534) = F.pc
      /\ cpu.mem[48] = cpu.mem[49]
  BY ExecuteIs DEF TypeOK, InService, At, Execute, BytesEqual
<1>2. PICK in \in Byte : Same(cpu', exec_next(cpu, op, in))
  BY ExecuteIs
<1>3. op # RET => frames' = <<F>>
  BY <1>1 DEF RetLeaves
<1>4. op # EI => ~cpu'.inte \/ p = 14
  <2>1. cpu.inte => p = 14
    BY DEF InService
  <2>2. cpu'.inte = ((cpu.inte \/ op = EI) /\ op # DI)
    BY ExecuteOnTheLine
  <2> QED BY <2>1, <2>2
<1>5. cpu'.interrupt_delay = (op = EI)
  BY ExecuteOnTheLine
<1>6. Saved(p, F)
  BY DEF InService
<1>7. /\ F.reg \in [RegName -> Byte] /\ F.cf \in [Flag -> BOOLEAN]
      /\ F.pc \in Open /\ F.sp = 0 /\ F.reg["a"] \in Byte
      /\ F = [reg |-> F.reg, cf |-> F.cf, pc |-> F.pc, sp |-> F.sp]
  BY DEF Framed, RegName
<1> HIDE DEF op
<1> DEFINE n == exec_next(cpu, op, in)
<1>8. CASE p = 8
  <2>1. /\ op = 245 /\ op # RET /\ op # EI /\ cpu.pc = 9
        /\ cpu.sp = 65534 /\ cpu.reg = F.reg /\ cpu.cf = F.cf
    BY <1>1, <1>6, <1>8, CodeIs DEF Saved, RET, EI
  <2>2. /\ n.pc = cpu.pc /\ n.sp = 65532
        /\ ReadWord(n, 65532) = WordFromBytes(cpu.reg["a"], Psw(cpu.cf))
        /\ ReadWord(n, 65534) = ReadWord(cpu, 65534)
        /\ n.reg = cpu.reg
        /\ \A a \in 0..49 : n.mem[a] = cpu.mem[a]
    BY <1>1, <2>1, PushPswEffects
  <2> HIDE DEF n
  <2>3. /\ cpu'.pc = 9 /\ cpu'.sp = 65532
        /\ ReadWord(cpu', 65532) = WordFromBytes(F.reg["a"], Psw(F.cf))
        /\ ReadWord(cpu', 65534) = F.pc
        /\ cpu'.reg = F.reg
        /\ \A a \in 0..49 : cpu'.mem[a] = cpu.mem[a]
    BY <1>1, <1>2, <2>1, <2>2, SameReads DEF Same, n
  <2>4. Saved(9, F)'
    <3>1. F.reg = [cpu'.reg EXCEPT !["a"] = F.reg["a"]]
      BY <1>7, <2>3
    <3> QED BY <2>3, <3>1 DEF Saved
  <2>5. 9 \in ServicePoints /\ cpu'.mem[48] = cpu'.mem[49] /\ ~cpu'.inte
    BY <1>1, <1>4, <1>8, <2>1, <2>3 DEF ServicePoints
  <2>6. Somewhere'
    BY <1>1, <1>3, <2>1, <2>3, <2>4, <2>5, ServiceLands
  <2> QED BY <2>1, <2>3, <2>6 DEF op
<1>9. CASE p \in {9, 11}
  <2> DEFINE q == IF p = 9 THEN 11 ELSE 12
  <2>1. /\ op \in {47, 183, 219} /\ op # RET /\ op # EI /\ cpu.sp = 65532
        /\ p + 1 \in 0..46 /\ (op = 219 <=> p = 9)
        /\ ReadWord(cpu, 65532) = WordFromBytes(F.reg["a"], Psw(F.cf))
        /\ F.reg = [cpu.reg EXCEPT !["a"] = F.reg["a"]]
    BY <1>1, <1>6, <1>9, CodeIs DEF Saved, RET, EI
  <2> HIDE DEF q
  <2>2. /\ n.pc = IF op = 219 THEN cpu.pc + 1 ELSE cpu.pc
        /\ n.sp = cpu.sp /\ n.mem = cpu.mem
        /\ Accumulated(n, cpu)
    <3>1. cpu \in Machine /\ op \in {47, 183, 219} /\ cpu.pc \in 0..46
      BY <1>1, <2>1
    <3> QED BY <3>1, AccumulatorEffects
  <2> HIDE DEF n
  <2>3. cpu'.pc = q /\ cpu'.sp = 65532 /\ cpu'.mem = cpu.mem
    BY <1>1, <1>2, <1>9, <2>1, <2>2 DEF Same, n, q
  <2>4. F.reg = [cpu'.reg EXCEPT !["a"] = F.reg["a"]]
    <3>1. PICK v : cpu'.reg = [cpu.reg EXCEPT !["a"] = v]
      BY <1>2, <2>2 DEF Same, Accumulated, n
    <3> QED BY <1>1, <2>1, <3>1, MembersType
  <2>5. /\ ReadWord(cpu', 65532) = ReadWord(cpu, 65532)
        /\ ReadWord(cpu', 65534) = ReadWord(cpu, 65534)
    BY <2>3, SameReads
  <2>6. q \in ServicePoints /\ q \in {9, 11, 12} /\ q # 14
    BY DEF ServicePoints, q
  <2>7. Saved(q, F)'
    BY <2>1, <2>3, <2>4, <2>5, <2>6 DEF Saved
  <2>8. Somewhere'
    <3>1. ~cpu'.inte /\ ReadWord(cpu', 65534) = F.pc /\ cpu'.mem[48] = cpu'.mem[49]
      BY <1>1, <1>4, <1>9, <2>1, <2>3, <2>5
    <3> QED BY <1>1, <1>3, <2>1, <2>3, <2>6, <2>7, <3>1, ServiceLands
  <2> QED BY <2>1, <2>3, <2>8 DEF op
<1>10. CASE p = 12
  <2>1. /\ op = 241 /\ op # RET /\ op # EI /\ cpu.sp = 65532 /\ cpu.pc = 13
        /\ ReadWord(cpu, 65532) = WordFromBytes(F.reg["a"], Psw(F.cf))
        /\ F.reg = [cpu.reg EXCEPT !["a"] = F.reg["a"]]
    BY <1>1, <1>6, <1>10, CodeIs DEF Saved, RET, EI
  <2>2. /\ n.pc = cpu.pc /\ n.sp = 65534 /\ n.mem = cpu.mem
        /\ n.reg = [cpu.reg EXCEPT !["a"] = F.reg["a"]]
        /\ n.cf = F.cf
    BY <1>1, <1>7, <2>1, PopPswEffects
  <2> HIDE DEF n
  <2>3. /\ cpu'.pc = 13 /\ cpu'.sp = 65534 /\ cpu'.mem = cpu.mem
        /\ cpu'.reg = F.reg /\ cpu'.cf = F.cf
    BY <1>2, <2>1, <2>2 DEF Same, n
  <2>4. Saved(13, F)'
    BY <2>3 DEF Saved
  <2>5. /\ 13 \in ServicePoints /\ ~cpu'.inte /\ ReadWord(cpu', 65534) = F.pc
        /\ cpu'.mem[48] = cpu'.mem[49]
    BY <1>1, <1>4, <1>10, <2>1, <2>3, SameReads DEF ServicePoints
  <2>6. Somewhere'
    BY <1>1, <1>3, <2>1, <2>3, <2>4, <2>5, ServiceLands
  <2> QED BY <2>1, <2>3, <2>6 DEF op
<1>11. CASE p = 13
  <2>1. /\ op \in {0, 118, 243, 251} /\ op # RET /\ op = EI /\ cpu.pc = 14
        /\ cpu.sp = 65534 /\ cpu.reg = F.reg /\ cpu.cf = F.cf
    BY <1>1, <1>6, <1>11, CodeIs DEF Saved, RET, EI
  <2>2. Same(n, cpu)
    BY <1>1, <2>1, SimpleEffects
  <2> HIDE DEF n
  <2>3. /\ cpu'.pc = 14 /\ cpu'.sp = 65534 /\ cpu'.mem = cpu.mem
        /\ cpu'.reg = F.reg /\ cpu'.cf = F.cf
    BY <1>2, <2>1, <2>2 DEF Same, n
  <2>4. Saved(14, F)'
    BY <2>3 DEF Saved
  <2>5. /\ 14 \in ServicePoints /\ ReadWord(cpu', 65534) = F.pc
        /\ cpu'.mem[48] = cpu'.mem[49] /\ cpu'.interrupt_delay
    <3>1. op = EI => cpu'.interrupt_delay
      BY <1>5, Zenon
    <3> QED BY <1>1, <2>1, <2>3, <3>1, SameReads DEF ServicePoints
  <2>6. Somewhere'
    BY <1>1, <1>3, <2>1, <2>3, <2>4, <2>5, ServiceLands
  <2> QED BY <2>1, <2>3, <2>6 DEF op
<1>12. CASE p = 14
  <2>1. /\ op = 201 /\ op = RET /\ op # EI
        /\ cpu.sp = 65534 /\ cpu.reg = F.reg /\ cpu.cf = F.cf
    BY <1>1, <1>6, <1>12, CodeIs DEF Saved, RET, EI
  <2>2. /\ n.pc = ReadWord(cpu, 65534) /\ n.sp = 0
        /\ n.mem = cpu.mem /\ n.reg = cpu.reg /\ n.cf = cpu.cf
    BY <1>1, <2>1, RetEffects
  <2> HIDE DEF n
  <2>3. /\ cpu'.pc = F.pc /\ cpu'.sp = 0 /\ cpu'.mem = cpu.mem
        /\ cpu'.reg = F.reg /\ cpu'.cf = F.cf
    BY <1>1, <1>2, <2>1, <2>2 DEF Same, n
  <2>4. Frame(cpu') = F
    BY <1>7, <2>3 DEF Frame
  <2>5. frames' = <<>>
    BY <1>1, <2>1, FrontOfOne DEF RetLeaves, op
  <2>6. Somewhere'
    <3>1. F.pc \in LoopPoints /\ F.pc # 25 /\ F.pc \notin {34, 39}
      BY <1>7 DEF Open, LoopPoints
    <3> QED BY <1>1, <1>7, <2>3, <2>5, <3>1, LoopLands
  <2> QED BY <2>3, <2>4, <2>6
<1> QED
  BY <1>8, <1>9, <1>10, <1>11, <1>12 DEF ServicePoints
-----------------------------------------------------------------------------
(* The invariant is kept.                                                   *)

\* The program as the host loads it.
LEMMA Loaded ==
  ASSUME NEW m, m.mem = Image
  PROVE  m.mem[48] = m.mem[49] /\ \A a \in 0..47 : m.mem[a] = Code(a)
<1>1. \A a \in 0..49 : Image[a] = Code(a)
  BY ProgramAssumption
<1>2. (\A a \in 0..47 : a \in 0..49) /\ 48 \in 0..49 /\ 49 \in 0..49
  OBVIOUS
<1>3. \A a \in 0..47 : m.mem[a] = Code(a)
  BY <1>1, <1>2, Zenon
<1>4. Image[48] = Code(48) /\ Image[49] = Code(49)
  BY <1>1, <1>2
<1> QED
  BY <1>3, <1>4, CodeIs

LEMMA ProgramStarts == Init /\ frames = <<>> => Kept /\ Somewhere
<1> SUFFICES ASSUME Init, frames = <<>>
             PROVE  Kept /\ Somewhere
  OBVIOUS
<1>1. PICK inte \in BOOLEAN : cpu = Initialised(inte)
  BY DEF Init
<1>2. /\ cpu.mem = Image /\ cpu.pc = 16 /\ cpu.sp = 0 /\ ~cpu.interrupt_pending
      /\ executing = NoOp
  BY <1>1, ProgramAssumption DEF Init, Initialised, MCEntry
<1>3. Kept /\ BytesEqual
  BY <1>2, Loaded DEF Kept, BytesEqual
<1>4. InLoop(16)
  BY <1>2, <1>3 DEF InLoop, At, Open
<1> QED
  BY <1>3, <1>4 DEF Somewhere, LoopPoints

\* A restart brings the program back as it was loaded.
LEMMA ProgramRestarts ==
  ASSUME Reset, frames' = <<>>
  PROVE  Kept' /\ Somewhere'
<1>1. /\ cpu'.mem = Image /\ cpu'.pc = 16 /\ cpu'.sp = 0 /\ ~cpu'.interrupt_pending
      /\ executing' = NoOp
  BY ProgramAssumption DEF Reset, Initialised, MCEntry
<1>2. Kept' /\ BytesEqual'
  BY <1>1, Loaded DEF Kept, BytesEqual
<1>3. InLoop(16)'
  BY <1>1, <1>2 DEF InLoop, At, Open
<1> QED
  BY <1>2, <1>3 DEF Somewhere, LoopPoints

\* Every instruction of the program and of its service.
LEMMA ExecuteGoesOn ==
  ASSUME TypeOK, Kept, Somewhere, Execute, RetLeaves
  PROVE  /\ Somewhere' /\ \A a \in 0..47 : cpu'.mem[a] = cpu.mem[a]
         /\ executing = RET /\ frames # <<>> => Frame(cpu') = Last(frames)
<1>1. CASE \E p \in LoopPoints : InLoop(p)
  <2>1. frames = <<>>
    BY <1>1 DEF InLoop
  <2> QED BY <1>1, <2>1, LoopGoesOn
<1>2. CASE Taken
  <2>1. executing # RET
    BY <1>2 DEF Taken, RET
  <2> QED BY <1>2, <2>1, TakenGoesOn
<1>3. CASE \E p \in ServicePoints : \E F \in Framed : InService(p, F)
  <2>1. PICK p \in ServicePoints, F \in Framed : InService(p, F)
    BY <1>3
  <2>2. Last(frames) = F
    BY <2>1 DEF InService, Last
  <2> QED BY <2>1, <2>2, ServiceGoesOn
<1> QED
  BY <1>1, <1>2, <1>3 DEF Somewhere

LEMMA ProgramGoesOn ==
  ASSUME PInv, [MCNext]_mcvars
  PROVE  (Kept /\ Somewhere)'
<1> USE DEF PInv
<1>1. CASE /\ Acknowledge
           /\ frames' = IF cpu.interrupt_opcode = 0 THEN frames
                        ELSE Append(frames, Frame(cpu))
  <2>1. cpu'.mem = cpu.mem /\ ~cpu'.interrupt_pending
    BY <1>1 DEF Acknowledge, TypeOK, Machine
  <2>2. Kept'
    BY <2>1 DEF Kept
  <2>3. Somewhere'
    BY <1>1, AcknowledgeGoesOn
  <2> QED BY <2>2, <2>3
<1>2. CASE Execute /\ RetLeaves
  <2>1. /\ cpu'.interrupt_pending = cpu.interrupt_pending
        /\ cpu'.interrupt_opcode = cpu.interrupt_opcode
    BY <1>2, ExecuteOnTheLine
  <2>2. Somewhere' /\ \A a \in 0..47 : cpu'.mem[a] = cpu.mem[a]
    BY <1>2, ExecuteGoesOn
  <2> QED BY <2>1, <2>2 DEF Kept
<1>3. CASE Fetch /\ UNCHANGED frames
  <2>1. /\ cpu'.mem = cpu.mem
        /\ cpu'.interrupt_pending = cpu.interrupt_pending
        /\ cpu'.interrupt_opcode = cpu.interrupt_opcode
    BY <1>3 DEF Fetch, SkipByte, TypeOK, Machine
  <2> QED BY <1>3, <2>1, FetchGoesOn DEF Kept
<1>4. CASE Idle /\ UNCHANGED frames
  BY <1>4, StaysThere DEF Idle, Same, Kept
<1>5. CASE Interrupt /\ UNCHANGED frames
  <2>1. PICK op \in RequestOps :
          cpu' = [cpu EXCEPT !.interrupt_pending = TRUE, !.interrupt_opcode = op]
    BY <1>5 DEF Interrupt
  <2>2. /\ Same(cpu', cpu) /\ cpu'.inte = cpu.inte
        /\ cpu'.interrupt_delay = cpu.interrupt_delay
        /\ cpu'.interrupt_opcode = op
    BY <2>1 DEF Same, TypeOK, Machine
  <2>3. op \in {0, 207} /\ executing' = executing
    BY <1>5, ProgramAssumption DEF Interrupt, MCRequestOps
  <2>4. Kept'
    BY <2>2, <2>3 DEF Kept, Same
  <2> QED BY <1>5, <2>2, <2>3, <2>4, StaysThere
<1>6. CASE Reset /\ frames' = <<>>
  BY <1>6, ProgramRestarts
<1>7. CASE UNCHANGED mcvars
  BY <1>7, StaysThere DEF mcvars, Same, Kept
<1> QED
  BY <1>1, <1>2, <1>3, <1>4, <1>5, <1>6, <1>7 DEF MCNext, RetLeaves

\* The program is one run of the cpu: what is proved of Spec holds for it.
THEOREM ProgramIsARun == MCSpec => Spec
<1>1. MCInit => Init
  BY DEF MCInit
<1>2. [MCNext]_mcvars => [Next]_vars
  BY DEF MCNext, Next, Step, mcvars, vars
<1> QED
  BY <1>1, <1>2, PTL DEF MCSpec, Spec

\* At every step the program or its service is at one of its instructions,
\* with what that instruction needs of the registers, the stack and memory.
THEOREM ProgramKept == MCSpec => []PInv
<1>1. MCInit => Kept /\ Somewhere
  BY ProgramStarts DEF MCInit
<1>2. TypeOK /\ (Kept /\ Somewhere) /\ [MCNext]_mcvars => (Kept /\ Somewhere)'
  BY ProgramGoesOn DEF PInv
<1>3. MCSpec => []TypeOK
  BY ProgramIsARun, TypeCorrect, PTL
<1>4. TypeOK /\ Kept /\ Somewhere => PInv
  BY DEF PInv
<1> QED
  BY <1>1, <1>2, <1>3, <1>4, PTL DEF MCSpec

\* The service is never interrupted: however fast requests come, at most one
\* interrupted program waits for it.
THEOREM NestingIsBounded == MCSpec => []NestingBounded
<1>1. ASSUME Somewhere
      PROVE  Len(frames) <= 1
  <2>1. CASE \E p \in LoopPoints : InLoop(p)
    BY <2>1 DEF InLoop
  <2>2. CASE Taken
    <3>1. frames = <<>> \/ frames = <<Frame(cpu)>>
      BY <2>2 DEF Taken
    <3>2. \A F : Len(<<F>>) = 1
      OBVIOUS
    <3> QED BY <3>1, <3>2
  <2>3. CASE \E p \in ServicePoints : \E F \in Framed : InService(p, F)
    <3>1. PICK p, F : InService(p, F)
      BY <2>3
    <3> QED BY <3>1 DEF InService
  <2> QED BY <1>1, <2>1, <2>2, <2>3 DEF Somewhere
<1>2. PInv => NestingBounded
  BY <1>1 DEF PInv, NestingBounded
<1> QED
  BY <1>2, ProgramKept, PTL

\* The service never runs between the program's two stores.
THEOREM CriticalSectionIsKept == MCSpec => []CriticalSectionKept
<1>1. PInv => CriticalSectionKept
  BY DEF PInv, Somewhere, InLoop, Taken, InService, BytesEqual, CriticalSectionKept
<1> QED
  BY <1>1, ProgramKept, PTL

\* The RET of the service gives the program back its registers, flags, pc and
\* sp, whatever the device sent and the service did with them.
THEOREM InterruptsAreTransparent == MCSpec => Transparent
<1> DEFINE Back == executing = RET /\ executing' = NoOp /\ frames # <<>>
                     => Frame(cpu') = Last(frames)
<1>1. PInv /\ [MCNext]_mcvars => [Back]_mcvars
  <2> SUFFICES ASSUME PInv, MCNext, executing = RET, executing' = NoOp, frames # <<>>
               PROVE  Frame(cpu') = Last(frames)
    OBVIOUS
  <2>1. executing # NoOp /\ executing' # executing
    BY DEF RET, NoOp
  <2>2. Execute /\ RetLeaves
    BY <2>1 DEF MCNext, Acknowledge, Fetch, Idle, Interrupt, Reset, RetLeaves
  <2> QED BY <2>2, ExecuteGoesOn DEF PInv
<1> QED
  BY <1>1, ProgramKept, PTL DEF MCSpec, Transparent
=============================================================================
