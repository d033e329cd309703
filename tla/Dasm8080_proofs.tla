---------------------------- MODULE Dasm8080_proofs ----------------------------
(***************************************************************************)
(* The disassembler on every program that fits below the end of the        *)
(* address space: the fill loop stays inside the array the count loop      *)
(* asked for, and what it leaves there is the program.                     *)
(***************************************************************************)
EXTENDS Dasm8080, NatInduction, FiniteSetTheorems, SequenceTheorems

-----------------------------------------------------------------------------
(* Addresses.                                                               *)

LEMMA SizeRange == \A op : size(op) \in 1..3
  BY DEF size

\* A number below the modulus is its own remainder.
LEMMA ModSmall ==
  ASSUME NEW n \in Nat, NEW x \in Nat, x < n
  PROVE  x % n = x
  BY SMT

\* A multiple of the modulus leaves the remainder as it is.
LEMMA ModTimes ==
  ASSUME NEW m \in Nat, NEW a \in Nat, a < m, NEW k \in Nat
  PROVE  (k * m + a) % m = a
  BY SMT

\* A size_t is wider than an int, and an int wider than an address.
LEMMA Widths ==
  /\ AddrSpace \in Nat /\ IntMax \in Nat /\ CountSpace \in Nat
  /\ AddrSpace > 0 /\ IntMax >= 2 * AddrSpace
  /\ CountSpace > AddrSpace /\ CountSpace >= 2 * (IntMax + 1)
<1>1. /\ AddrSpace \in Nat /\ IntMax \in Nat /\ CountSpace \in Nat
      /\ AddrSpace > 0 /\ IntMax >= 2 * AddrSpace
  BY DasmAssumption
<1>2. PICK k \in 1..CountSpace : CountSpace = k * (2 * (IntMax + 1))
  BY DasmAssumption
<1> DEFINE w == 2 * (IntMax + 1)
<1>3. w \in Nat /\ w > AddrSpace
  BY <1>1
<1>4. k \in Nat /\ k - 1 \in Nat /\ k * w = (k - 1) * w + w
  BY <1>1, <1>3
<1>5. \A x, y \in Nat : x * y \in Nat
  OBVIOUS
<1>6. k * w >= w
  BY <1>3, <1>4, <1>5
<1> QED
  BY <1>1, <1>2, <1>3, <1>6

\* What fits an int survives the way through a size_t, negative numbers too.
LEMMA ConvertsBack ==
  ASSUME NEW x \in Int, -IntMax <= x, x <= IntMax
  PROVE  ToInt(ToSize(x)) = x
<1> DEFINE h == IntMax + 1
           w == 2 * h
<1>1. h \in Nat /\ h > 0 /\ w \in Nat /\ w > 0 /\ x + h \in Nat /\ x + h < w
  BY Widths
<1>2. PICK k \in 1..CountSpace : CountSpace = k * w
  BY DasmAssumption
<1>3. CountSpace \in Nat /\ CountSpace >= w
  BY Widths
<1>4. \A c \in Nat : ToInt(c) = ((c + h) % w) - h
  <2> TAKE c \in Nat
  <2>1. c + IntMax + 1 = c + h
    BY Widths
  <2> QED BY <2>1 DEF ToInt
<1>5. CASE x >= 0
  <2>1. ToSize(x) = x
    BY <1>1, <1>3, <1>5, ModSmall DEF ToSize
  <2> HIDE DEF h, w
  <2>2. (x + h) % w = x + h
    BY <1>1, ModSmall
  <2> QED BY <1>1, <1>4, <1>5, <2>1, <2>2
<1>6. CASE x < 0
  <2>1. x + CountSpace \in Nat /\ x + CountSpace < CountSpace
    BY <1>1, <1>3, <1>6
  <2>2. x % CountSpace = (x + CountSpace) % CountSpace
    BY <1>3, <1>1
  <2>3. ToSize(x) = x + CountSpace
    BY <1>3, <2>1, <2>2, ModSmall DEF ToSize
  <2>4. (k * w + (x + h)) % w = x + h
    BY <1>1, <1>2, ModTimes
  <2>5. ToSize(x) + h = k * w + (x + h)
    BY <1>1, <1>2, <1>3, <2>3
  <2>6. ToInt(ToSize(x)) = ((ToSize(x) + h) % w) - h
    BY <1>4, <2>1, <2>3
  <2> HIDE DEF h, w
  <2> QED BY <1>1, <2>4, <2>5, <2>6
<1> QED
  BY <1>5, <1>6

\* What is known of the arguments and the memory.
Given == /\ memory \in [Addr -> 0..255]
         /\ args.program_size \in Nat
         /\ args.org_addr \in Addr

Limit == args.org_addr + args.program_size

LEMMA Ends ==
  ASSUME Given, Fits
  PROVE  /\ end_addr = Limit
         /\ Limit \in Nat /\ args.org_addr \in Nat
         /\ \A a : a \in Program <=> a \in Int /\ args.org_addr <= a /\ a < Limit
         /\ \A a \in Program : a \in Addr /\ a \in Nat
<1>1. AddrSpace \in Nat /\ AddrSpace > 0
  BY DasmAssumption
<1>2. args.org_addr \in Nat /\ args.program_size \in Nat /\ args.org_addr < AddrSpace
  BY <1>1 DEF Given, Addr
<1>3. \A a : a \in Program <=> a \in Int /\ args.org_addr <= a /\ a < Limit
  BY <1>2 DEF Program, Limit
<1>4. Limit \in Nat /\ Limit < AddrSpace
  BY <1>2 DEF Fits, Limit
<1>5. end_addr = Limit
  <2>1. args.program_size + args.org_addr = Limit
    BY <1>2 DEF Limit
  <2> QED BY <1>1, <1>4, <2>1, ModSmall DEF end_addr
<1>6. \A a \in Program : a \in Addr /\ a \in Nat
  BY <1>1, <1>2, <1>3, <1>4 DEF Addr
<1> QED
  BY <1>2, <1>3, <1>4, <1>5, <1>6

\* The n instruction addresses a loop comes by, and the one it is at next.
Walk(path, n) ==
  /\ path[0] = args.org_addr
  /\ \A j \in 0..(n - 1) : /\ path[j] \in Program
                           /\ path[j + 1] = path[j] + size(memory[path[j]])

\* A walk comes by instructions only, so it never wraps.
LEMMA WalkBegins ==
  ASSUME Given, Fits, NEW path, NEW n \in Nat, Walk(path, n), path[n] \in Program
  PROVE  Advance(path[n]) = path[n] + size(memory[path[n]])
<1>1. PICK starts \in SUBSET Program :
        Begins(starts) /\ \A a \in starts : a + size(memory[a]) < AddrSpace
  BY DEF Fits
<1> DEFINE T == {j \in 0..n : path[j] \in starts}
<1>2. 0 \in T
  <2>1. path[0] \in Program
    <3>1. CASE n = 0
      BY <3>1
    <3>2. CASE n # 0
      BY <3>2 DEF Walk
    <3> QED BY <3>1, <3>2
  <2>2. args.org_addr < Limit
    BY <2>1, Ends DEF Walk
  <2>3. args.program_size > 0
    BY <2>2 DEF Limit, Given, Addr
  <2> QED BY <1>1, <2>3 DEF Begins, Walk
<1>3. ASSUME NEW j \in 0..(n - 1), j \in T PROVE j + 1 \in T
  <2>1. path[j + 1] = path[j] + size(memory[path[j]]) /\ path[j] \in starts
    BY <1>3 DEF Walk
  <2>2. path[j + 1] \in Program
    <3>1. CASE j + 1 = n
      BY <3>1
    <3>2. CASE j + 1 # n
      <4>1. j + 1 \in 0..(n - 1)
        BY <3>2
      <4> QED BY <4>1 DEF Walk
    <3> QED BY <3>1, <3>2
  <2>3. path[j + 1] \in starts
    BY <1>1, <2>1, <2>2 DEF Begins
  <2> QED BY <2>3
<1> HIDE DEF T
<1>4. 0..n \subseteq T
  BY <1>2, <1>3, 0 \in Int, n \in Int, UpFrom
<1>5. path[n] \in starts
  <2>1. n \in 0..n
    OBVIOUS
  <2> QED BY <1>4, <2>1 DEF T
<1>6. path[n] + size(memory[path[n]]) < AddrSpace
  BY <1>1, <1>5
<1>7. path[n] + size(memory[path[n]]) \in Nat
  <2>1. path[n] \in Nat /\ size(memory[path[n]]) \in 1..3
    BY Ends, SizeRange
  <2> QED BY <2>1
<1>8. AddrSpace \in Nat
  BY DasmAssumption
<1> QED
  BY <1>6, <1>7, <1>8, ModSmall DEF Advance

-----------------------------------------------------------------------------
(* The invariant.                                                           *)

\* Types, with the ops of the fill loop not yet held against the count.
TypeInv == /\ memory \in Memories
           /\ args \in [program_size : Sizes, org_addr : Orgs]
           /\ call # NULL => call \in Locals
           /\ dasm # NULL => dasm.ops \in Seq(Op)

\* The count has not run ahead of the addresses, so it never wraps.
Counting ==
  \E path : /\ Walk(path, call.num_ops)
            /\ call.addr = path[call.num_ops]
            /\ args.org_addr + call.num_ops <= call.addr
            /\ call.ops = <<>>

\* ops is the program up to addr.
Listed(ops, addr) ==
  /\ \A k \in 1..Len(ops) : /\ ops[k].addr \in Program
                            /\ ops[k].code = memory[ops[k].addr]
                            /\ ops[k].index = k - 1
                            /\ ops[k].addr + size(ops[k].code) <= addr
  /\ \A j, k \in 1..Len(ops) : j < k => ops[j].addr + size(ops[j].code) <= ops[k].addr
  /\ \A a \in args.org_addr..(addr - 1) : \E k \in 1..Len(ops) : Covers(ops[k], a)

\* The fill loop walks the path that was counted.
Filling ==
  \E path : /\ Walk(path, call.num_ops)
            /\ path[call.num_ops] >= Limit
            /\ Len(call.ops) <= call.num_ops
            /\ call.addr = path[Len(call.ops)]
            /\ Listed(call.ops, call.addr)

Fitting == /\ call # NULL /\ call.loop = "count" => Counting
           /\ call # NULL /\ call.loop = "fill" => Filling
           /\ dasm # NULL => \E addr \in Int : addr >= Limit /\ Listed(dasm.ops, addr)

IInv == TypeInv /\ (Fits => Fitting)

LEMMA GivenHolds == TypeInv => Given
<1>1. Memories \subseteq [Addr -> 0..255]
  BY DasmAssumption DEF Addr
<1> QED
  BY <1>1, DasmAssumption DEF TypeInv, Given, Addr

LEMMA TypeInit == Init => TypeInv
  BY DEF Init, TypeInv

LEMMA AdvanceType == TypeInv => \A a \in Addr : Advance(a) \in Addr
<1> SUFFICES ASSUME TypeInv, NEW a \in Addr
             PROVE  Advance(a) \in Addr
  OBVIOUS
<1>1. a + size(memory[a]) \in Nat
  BY SizeRange, DasmAssumption DEF Addr
<1>2. \A n \in Nat : n % AddrSpace \in 0..(AddrSpace - 1)
  BY DasmAssumption
<1> QED
  BY <1>1, <1>2 DEF Advance, Addr

LEMMA TypeNext == TypeInv /\ [Next]_vars => TypeInv'
<1> SUFFICES ASSUME TypeInv, [Next]_vars
             PROVE  TypeInv'
  OBVIOUS
<1> USE DEF TypeInv
<1>1. ASSUME NEW mem, NEW program_size \in Sizes, NEW org_addr \in Orgs,
             adc_8080_dasm_disassemble(mem, program_size, org_addr)
      PROVE  TypeInv'
  <2>1. org_addr \in Addr
    BY DasmAssumption DEF Addr
  <2>2. call' = NULL \/ call' \in Locals
    BY <1>1, <2>1 DEF adc_8080_dasm_disassemble, Locals
  <2> QED BY <1>1, <2>2 DEF adc_8080_dasm_disassemble
<1>2. CASE Count
  <2>1. call \in Locals
    BY <1>2 DEF Count
  <2>2. Advance(call.addr) \in Addr
    BY <2>1, AdvanceType DEF Locals
  <2>3. (call.num_ops + 1) % CountSpace \in Nat
    BY <2>1, Widths DEF Locals
  <2>4. call' \in Locals
    BY <1>2, <2>1, <2>2, <2>3 DEF Count, Locals
  <2> QED BY <1>2, <2>4 DEF Count
<1>3. CASE AllocOps
  <2>1. call \in Locals /\ args.org_addr \in Addr
    BY <1>3, GivenHolds DEF AllocOps, Given
  <2>2. [call EXCEPT !.loop = "fill", !.addr = args.org_addr] \in Locals
    BY <2>1 DEF Locals
  <2> QED BY <1>3, <2>2 DEF AllocOps
<1>4. CASE Fill
  <2>1. call \in Locals
    BY <1>4 DEF Fill
  <2>2. call.addr \in Addr /\ Advance(call.addr) \in Addr
    BY <2>1, AdvanceType DEF Locals
  <2>3. OpAt(call.addr, Len(call.ops)) \in Op
    BY <2>1, <2>2, GivenHolds DEF OpAt, Op, Given, Locals
  <2>4. Append(call.ops, OpAt(call.addr, Len(call.ops))) \in Seq(Op)
    BY <2>1, <2>3 DEF Locals
  <2>5. call' = [call EXCEPT !.addr = Advance(@),
                             !.ops = Append(@, OpAt(call.addr, Len(@)))]
    BY <1>4 DEF Fill, FillOne
  <2>6. call' \in Locals
    BY <2>1, <2>2, <2>4, <2>5 DEF Locals
  <2> QED BY <1>4, <2>6 DEF Fill
<1>5. CASE AllocDasm
  <2>1. call.ops \in Seq(Op)
    BY <1>5 DEF AllocDasm, Locals
  <2> QED BY <1>5, <2>1 DEF AllocDasm
<1>6. CASE adc_8080_dasm_free
  BY <1>6 DEF adc_8080_dasm_free
<1>7. CASE UNCHANGED vars
  BY <1>7 DEF vars
<1> QED
  BY <1>1, <1>2, <1>3, <1>4, <1>5, <1>6, <1>7 DEF Next, Loops

-----------------------------------------------------------------------------
(* Paths.                                                                   *)

\* A walk that has not reached the end is longer by one address.
LEMMA WalkOn ==
  ASSUME Given, Fits, NEW path, NEW n \in Nat, Walk(path, n), path[n] \in Program
  PROVE  \E longer : /\ Walk(longer, n + 1)
                     /\ longer[n] = path[n]
                     /\ longer[n + 1] = path[n] + size(memory[path[n]])
<1> DEFINE next == path[n] + size(memory[path[n]])
<1> DEFINE longer == [j \in 0..(n + 1) |-> IF j <= n THEN path[j] ELSE next]
<1>1. \A j \in 0..n : longer[j] = path[j]
  OBVIOUS
<1>2. longer[n + 1] = next
  OBVIOUS
<1> HIDE DEF longer
<1>3. ASSUME NEW j \in 0..n
      PROVE  longer[j] \in Program /\ longer[j + 1] = longer[j] + size(memory[longer[j]])
  <2>1. CASE j = n
    BY <1>1, <1>2, <2>1
  <2>2. CASE j # n
    <3>1. j \in 0..(n - 1) /\ j + 1 \in 0..n
      BY <2>2
    <3> QED BY <1>1, <3>1 DEF Walk
  <2> QED BY <2>1, <2>2
<1>4. longer[0] = args.org_addr
  BY <1>1 DEF Walk
<1>5. Walk(longer, n + 1)
  BY <1>3, <1>4 DEF Walk
<1> QED
  BY <1>1, <1>2, <1>5

\* One more op in the listing.
LEMMA ListOn ==
  ASSUME Given, Fits, NEW ops \in Seq(Op), NEW addr \in Program, Listed(ops, addr)
  PROVE  Listed(Append(ops, OpAt(addr, Len(ops))), addr + size(memory[addr]))
<1> DEFINE op == OpAt(addr, Len(ops))
<1> DEFINE more == Append(ops, op)
<1> DEFINE next == addr + size(memory[addr])
<1>1. op.addr = addr /\ op.code = memory[addr] /\ op.index = Len(ops)
  BY DEF OpAt
<1>2. /\ Len(more) = Len(ops) + 1
      /\ more[Len(ops) + 1] = op
      /\ \A k \in 1..Len(ops) : more[k] = ops[k]
  OBVIOUS
<1>3. addr \in Nat /\ args.org_addr \in Nat /\ size(memory[addr]) \in 1..3
  BY Ends, SizeRange
<1>4. Len(ops) \in Nat
  OBVIOUS
<1>5. \A k \in 1..Len(ops) : /\ ops[k].addr \in Nat /\ size(ops[k].code) \in 1..3
                             /\ ops[k].addr + size(ops[k].code) <= addr
  BY Ends, SizeRange DEF Listed
<1> HIDE DEF op, more
<1>6. \A k \in 1..Len(more) : /\ more[k].addr \in Program
                              /\ more[k].code = memory[more[k].addr]
                              /\ more[k].index = k - 1
                              /\ more[k].addr + size(more[k].code) <= next
  <2> TAKE k \in 1..Len(more)
  <2>1. CASE k = Len(ops) + 1
    BY <1>1, <1>2, <1>3, <1>4, <2>1
  <2>2. CASE k # Len(ops) + 1
    <3>1. k \in 1..Len(ops) /\ more[k] = ops[k]
      BY <1>2, <1>4, <2>2
    <3>2. ops[k].addr + size(ops[k].code) <= next
      <4> DEFINE end == ops[k].addr + size(ops[k].code)
                 step == size(memory[addr])
      <4>1. end \in Int /\ end <= addr
        BY <1>5, <3>1
      <4>2. step \in 1..3
        BY <1>3
      <4> HIDE DEF end, step
      <4>3. end <= addr + step
        BY <1>3, <4>1, <4>2
      <4> QED BY <4>3 DEF end, step
    <3> QED BY <3>1, <3>2 DEF Listed
  <2> QED BY <2>1, <2>2
<1>7. \A j, k \in 1..Len(more) :
        j < k => more[j].addr + size(more[j].code) <= more[k].addr
  <2> SUFFICES ASSUME NEW j \in 1..Len(more), NEW k \in 1..Len(more), j < k
               PROVE  more[j].addr + size(more[j].code) <= more[k].addr
    OBVIOUS
  <2>1. j \in 1..Len(ops) /\ more[j] = ops[j]
    BY <1>2, <1>4
  <2>2. CASE k = Len(ops) + 1
    BY <1>1, <1>2, <1>5, <2>1, <2>2
  <2>3. CASE k # Len(ops) + 1
    <3>1. k \in 1..Len(ops) /\ more[k] = ops[k]
      BY <1>2, <1>4, <2>3
    <3> QED BY <2>1, <3>1 DEF Listed
  <2> QED BY <2>2, <2>3
<1>8. \A a \in args.org_addr..(next - 1) : \E k \in 1..Len(more) : Covers(more[k], a)
  <2> TAKE a \in args.org_addr..(next - 1)
  <2>1. CASE a < addr
    <3>1. a \in args.org_addr..(addr - 1)
      BY <1>3, <2>1
    <3>2. PICK k \in 1..Len(ops) : Covers(ops[k], a)
      BY <3>1 DEF Listed
    <3>3. k \in 1..Len(more) /\ more[k] = ops[k]
      BY <1>2, <1>4
    <3> QED BY <3>2, <3>3
  <2>2. CASE a >= addr
    <3>1. Covers(op, a)
      BY <1>1, <1>3, <2>2 DEF Covers
    <3>2. Len(ops) + 1 \in 1..Len(more)
      BY <1>2, <1>4
    <3> QED BY <1>2, <3>1, <3>2
  <2> QED BY <1>3, <2>1, <2>2
<1> QED
  BY <1>6, <1>7, <1>8 DEF Listed, more, op

-----------------------------------------------------------------------------
(* The invariant holds.                                                     *)

LEMMA FittingInit == Init => Fitting
  BY DEF Init, Fitting

\* A step of a loop leaves the program and the memory alone.
LEMMA SameProgram ==
  ASSUME memory' = memory, args' = args
  PROVE  /\ Fits' = Fits /\ Limit' = Limit /\ Program' = Program
         /\ \A path, n : Walk(path, n)' = Walk(path, n)
         /\ \A ops, addr : Listed(ops, addr)' = Listed(ops, addr)
  BY DEF Fits, Begins, Limit, Program, Walk, Listed, Covers

LEMMA SameDisassembly ==
  ASSUME memory' = memory, args' = args, dasm' = dasm,
         dasm # NULL => \E addr \in Int : addr >= Limit /\ Listed(dasm.ops, addr)
  PROVE  (dasm # NULL => \E addr \in Int : addr >= Limit /\ Listed(dasm.ops, addr))'
  BY DEF Limit, Program, Listed, Covers

LEMMA SameCall ==
  ASSUME memory' = memory, args' = args, call' = call, Fitting
  PROVE  /\ call' # NULL /\ call'.loop = "count" => Counting'
         /\ call' # NULL /\ call'.loop = "fill" => Filling'
  BY DEF Fitting, Counting, Filling, Limit, Program, Walk, Listed, Covers

LEMMA FittingNext ==
  ASSUME TypeInv, Fits => Fitting, [Next]_vars, Fits'
  PROVE  Fitting'
<1>1. ASSUME NEW mem, NEW program_size \in Sizes, NEW org_addr \in Orgs,
             adc_8080_dasm_disassemble(mem, program_size, org_addr)
      PROVE  Fitting'
  <2> SUFFICES ASSUME call' # NULL
               PROVE  Fitting'
    BY <1>1 DEF adc_8080_dasm_disassemble, Fitting
  <2>1. /\ args'.org_addr = org_addr /\ org_addr \in Nat
        /\ call' = [loop |-> "count", addr |-> org_addr, num_ops |-> 0, ops |-> <<>>]
        /\ dasm' = NULL
    BY <1>1, DasmAssumption DEF adc_8080_dasm_disassemble
  <2> DEFINE path == [j \in {0} |-> org_addr]
  <2>2. Walk(path, 0)'
    BY <2>1 DEF Walk
  <2>3. path[0] = org_addr
    OBVIOUS
  <2> HIDE DEF path
  <2>4. /\ call'.loop = "count" /\ call'.addr = org_addr /\ call'.num_ops = 0
        /\ call'.ops = <<>>
    BY <2>1
  <2>5. /\ Walk(path, call.num_ops)'
        /\ call'.addr = path[call'.num_ops]
        /\ args'.org_addr + call'.num_ops <= call'.addr
        /\ call'.ops = <<>>
    BY <2>1, <2>2, <2>3, <2>4
  <2> QED BY <2>1, <2>4, <2>5 DEF Fitting, Counting
<1>2. CASE Count
  <2>1. /\ memory' = memory /\ args' = args /\ dasm' = dasm
        /\ call # NULL /\ call.loop = "count" /\ call \in Locals /\ call.addr < end_addr
        /\ call' = [call EXCEPT !.addr = Advance(@), !.num_ops = (@ + 1) % CountSpace]
    BY <1>2 DEF Count, TypeInv, More
  <2>2. Fits /\ Given /\ Fitting
    BY <2>1, SameProgram, GivenHolds
  <2>3. Counting
    BY <2>1, <2>2 DEF Fitting
  <2>4. PICK path : /\ Walk(path, call.num_ops)
                    /\ call.addr = path[call.num_ops]
                    /\ args.org_addr + call.num_ops <= call.addr
                    /\ call.ops = <<>>
    BY <2>3 DEF Counting
  <2>5. /\ call.addr \in Nat /\ call.num_ops \in Nat /\ call.addr < AddrSpace
        /\ args.org_addr \in Nat /\ CountSpace \in Nat /\ AddrSpace < CountSpace
        /\ AddrSpace \in Nat
    BY <2>1, <2>2, DasmAssumption, Widths DEF Locals, Addr, Given
  <2>6. call.addr \in Program
    BY <2>1, <2>2, <2>4, <2>5, Ends
  <2>7. Advance(call.addr) = call.addr + size(memory[call.addr])
    BY <2>2, <2>4, <2>5, <2>6, WalkBegins
  <2>8. (call.num_ops + 1) % CountSpace = call.num_ops + 1
    <3>1. args.org_addr + call.num_ops <= call.addr
      BY <2>4
    <3>2. call.num_ops + 1 \in Nat /\ call.num_ops + 1 < CountSpace
      BY <2>5, <3>1
    <3> QED BY <2>5, <3>2, ModSmall
  <2>9. PICK longer : /\ Walk(longer, call.num_ops + 1)
                      /\ longer[call.num_ops + 1] = call.addr + size(memory[call.addr])
    BY <2>2, <2>4, <2>5, <2>6, WalkOn
  <2>10. /\ call'.loop = "count" /\ call'.num_ops = call.num_ops + 1
         /\ call'.addr = call.addr + size(memory[call.addr])
         /\ call'.ops = <<>>
    BY <2>1, <2>4, <2>7, <2>8 DEF Locals
  <2>11. args.org_addr + (call.num_ops + 1) <= call.addr + size(memory[call.addr])
    <3>1. size(memory[call.addr]) \in 1..3 /\ args.org_addr + call.num_ops <= call.addr
      BY <2>4, SizeRange
    <3> QED BY <2>5, <3>1
  <2>12. Counting'
    <3>1. Walk(longer, call.num_ops)'
      BY <2>1, <2>9, <2>10 DEF Walk, Program
    <3> QED BY <2>1, <2>9, <2>10, <2>11, <3>1 DEF Counting
  <2>13. (dasm # NULL => \E addr \in Int : addr >= Limit /\ Listed(dasm.ops, addr))'
    BY <2>1, <2>2, SameDisassembly DEF Fitting
  <2> QED BY <2>10, <2>12, <2>13 DEF Fitting
<1>3. CASE AllocOps
  <2>1. /\ memory' = memory /\ args' = args /\ dasm' = dasm
        /\ call # NULL /\ call.loop = "count" /\ call \in Locals /\ ~(call.addr < end_addr)
        /\ call' \in {NULL, [call EXCEPT !.loop = "fill", !.addr = args.org_addr]}
    BY <1>3 DEF AllocOps, TypeInv, More
  <2>2. Fits /\ Given /\ Fitting
    BY <2>1, SameProgram, GivenHolds
  <2>3. (dasm # NULL => \E addr \in Int : addr >= Limit /\ Listed(dasm.ops, addr))'
    BY <2>1, <2>2, SameDisassembly DEF Fitting
  <2>4. CASE call' = NULL
    BY <2>3, <2>4 DEF Fitting
  <2>5. CASE call' = [call EXCEPT !.loop = "fill", !.addr = args.org_addr]
    <3>1. PICK path : /\ Walk(path, call.num_ops)
                      /\ call.addr = path[call.num_ops]
                      /\ call.ops = <<>>
      BY <2>1, <2>2 DEF Fitting, Counting
    <3>2. call.addr \in Nat /\ call.num_ops \in Nat /\ args.org_addr \in Nat
      BY <2>1, <2>2, DasmAssumption, Ends DEF Locals, Addr
    <3>3. path[call.num_ops] >= Limit
      BY <2>1, <2>2, <3>1, <3>2, Ends
    <3>4. /\ call'.loop = "fill" /\ call'.num_ops = call.num_ops
          /\ call'.addr = args.org_addr /\ call'.ops = <<>>
      BY <2>1, <2>5, <3>1 DEF Locals
    <3>5. path[0] = args.org_addr
      BY <3>1 DEF Walk
    <3>6. Walk(path, call.num_ops)'
      BY <2>1, <3>1, <3>4 DEF Walk, Program
    <3>7. Listed(call.ops, call.addr)'
      BY <2>1, <3>2, <3>4 DEF Listed
    <3>8. Limit' = Limit
      BY <2>1 DEF Limit
    <3>9. Filling'
      BY <3>2, <3>3, <3>4, <3>5, <3>6, <3>7, <3>8 DEF Filling
    <3> QED BY <2>3, <3>4, <3>9 DEF Fitting
  <2> QED BY <2>1, <2>4, <2>5
<1>4. CASE Fill
  <2>1. /\ memory' = memory /\ args' = args /\ dasm' = dasm
        /\ call # NULL /\ call.loop = "fill" /\ call \in Locals /\ call.addr < end_addr
        /\ FillOne
    BY <1>4 DEF Fill, TypeInv, More
  <2>2. Fits /\ Given /\ Fitting
    BY <2>1, SameProgram, GivenHolds
  <2>3. PICK path : /\ Walk(path, call.num_ops)
                    /\ path[call.num_ops] >= Limit
                    /\ Len(call.ops) <= call.num_ops
                    /\ call.addr = path[Len(call.ops)]
                    /\ Listed(call.ops, call.addr)
    BY <2>1, <2>2 DEF Fitting, Filling
  <2>4. /\ call.addr \in Nat /\ call.num_ops \in Nat /\ call.ops \in Seq(Op)
        /\ Len(call.ops) \in Nat /\ Limit \in Nat
    BY <2>1, <2>2, DasmAssumption, Ends DEF Locals, Addr
  <2>5. Len(call.ops) < call.num_ops
    <3>1. call.addr < Limit
      BY <2>1, <2>2, Ends
    <3>2. Len(call.ops) # call.num_ops
      BY <2>3, <2>4, <3>1
    <3>3. Len(call.ops) <= call.num_ops
      BY <2>3
    <3> QED BY <2>4, <3>2, <3>3
  <2>6. /\ call.addr \in Program
        /\ path[Len(call.ops) + 1] = call.addr + size(memory[call.addr])
    <3>1. Len(call.ops) \in 0..(call.num_ops - 1)
      BY <2>4, <2>5
    <3> QED BY <2>3, <3>1 DEF Walk
  <2>7. Advance(call.addr) = call.addr + size(memory[call.addr])
    <3>1. Walk(path, Len(call.ops))
      BY <2>3, <2>4, <2>5 DEF Walk
    <3> QED BY <2>2, <2>3, <2>4, <2>6, <3>1, WalkBegins
  <2> DEFINE more == Append(call.ops, OpAt(call.addr, Len(call.ops)))
  <2>8. Listed(more, call.addr + size(memory[call.addr]))
    BY <2>2, <2>3, <2>4, <2>6, ListOn
  <2>9. Len(more) = Len(call.ops) + 1
    BY <2>4
  <2>10. /\ call'.loop = "fill" /\ call'.num_ops = call.num_ops
         /\ call'.addr = call.addr + size(memory[call.addr])
         /\ call'.ops = more
    BY <2>1, <2>7 DEF Locals, FillOne
  <2> HIDE DEF more
  <2>11. Listed(call.ops, call.addr)'
    BY <2>1, <2>8, <2>10 DEF Listed, Program, Covers
  <2>12. Walk(path, call.num_ops)'
    BY <2>1, <2>3, <2>10 DEF Walk, Program
  <2>13. /\ path[call'.num_ops] >= Limit'
         /\ Len(call'.ops) <= call'.num_ops
         /\ call'.addr = path[Len(call'.ops)]
    <3>1. Limit' = Limit
      BY <2>1 DEF Limit
    <3>2. Len(call'.ops) <= call'.num_ops
      BY <2>4, <2>5, <2>9, <2>10
    <3> QED BY <2>3, <2>6, <2>9, <2>10, <3>1, <3>2
  <2>14. Filling'
    BY <2>11, <2>12, <2>13 DEF Filling
  <2>15. (dasm # NULL => \E addr \in Int : addr >= Limit /\ Listed(dasm.ops, addr))'
    BY <2>1, <2>2, SameDisassembly DEF Fitting
  <2> QED BY <2>10, <2>14, <2>15 DEF Fitting
<1>5. CASE AllocDasm
  <2>1. /\ memory' = memory /\ args' = args
        /\ call # NULL /\ call.loop = "fill" /\ call \in Locals /\ ~(call.addr < end_addr)
        /\ dasm' \in {NULL, [num_ops |-> call.num_ops, ops |-> call.ops]}
        /\ call' = NULL
    BY <1>5 DEF AllocDasm, TypeInv, More
  <2>2. Fits /\ Given /\ Fitting
    BY <2>1, SameProgram, GivenHolds
  <2>3. Listed(call.ops, call.addr)
    BY <2>1, <2>2 DEF Fitting, Filling
  <2>4. call.addr \in Int /\ call.addr >= Limit
    BY <2>1, <2>2, DasmAssumption, Ends DEF Locals, Addr
  <2>5. Limit' = Limit
    BY <2>1 DEF Limit
  <2>6. ASSUME dasm' # NULL
        PROVE  dasm'.ops = call.ops
    BY <2>1, <2>6
  <2>7. ASSUME dasm' # NULL
        PROVE  \E addr \in Int : addr >= Limit' /\ Listed(dasm.ops, addr)'
    <3>1. Listed(dasm'.ops, call.addr)
      BY <2>3, <2>6, <2>7
    <3>2. \A addr : addr = call.addr => Listed(dasm.ops, addr)'
      BY <2>1, <3>1 DEF Listed, Program, Covers
    <3> QED BY <2>4, <2>5, <3>2
  <2> QED BY <2>1, <2>7 DEF Fitting
<1>6. CASE adc_8080_dasm_free
  <2>1. memory' = memory /\ args' = args /\ call' = call /\ dasm' = NULL
    BY <1>6 DEF adc_8080_dasm_free
  <2>2. Fitting
    BY <2>1, SameProgram
  <2> QED BY <2>1, <2>2, SameCall DEF Fitting
<1>7. CASE UNCHANGED vars
  <2>1. memory' = memory /\ args' = args /\ call' = call /\ dasm' = dasm
    BY <1>7 DEF vars
  <2>2. Fitting
    BY <2>1, SameProgram
  <2> QED BY <2>1, <2>2, SameCall, SameDisassembly DEF Fitting
<1> QED
  BY <1>1, <1>2, <1>3, <1>4, <1>5, <1>6, <1>7 DEF Next, Loops

\* The invariant is inductive.
LEMMA IInvNext == IInv /\ [Next]_vars => IInv'
  BY TypeNext, FittingNext DEF IInv

-----------------------------------------------------------------------------
(* The theorems.                                                            *)

THEOREM Inductive == Spec => []IInv
<1>1. Init => IInv
  BY TypeInit, FittingInit DEF IInv
<1> QED
  BY <1>1, IInvNext, PTL DEF Spec

\* What adc_8080_dasm_disassemble returns for a program that fits is that
\* program, whatever its bytes, its size and where it lies.
THEOREM DisassemblesTheProgram == Spec => []ListingIsProgram
<1>1. ASSUME IInv, dasm # NULL, Fits
      PROVE  ListingIsProgram
  <2>1. PICK addr \in Int : addr >= Limit /\ Listed(dasm.ops, addr)
    BY <1>1 DEF IInv, Fitting
  <2>2. Given
    BY <1>1, GivenHolds DEF IInv
  <2>3. \A a \in Program : a \in args.org_addr..(addr - 1)
    BY <1>1, <2>1, <2>2, Ends
  <2> QED BY <2>1, <2>3 DEF ListingIsProgram, Listed
<1>2. IInv => ListingIsProgram
  BY <1>1 DEF ListingIsProgram
<1> QED
  BY <1>2, Inductive, PTL

\* The fill loop never writes behind the ops that were counted for it, and the
\* disassembly that is returned says no more ops than it has room for.
FillFits == Fits /\ call # NULL /\ call.loop = "fill" => Len(call.ops) <= call.num_ops

THEOREM FillStaysInItsArray == Spec => []FillFits
<1>1. IInv => FillFits
  BY DEF IInv, Fitting, Filling, FillFits
<1> QED
  BY <1>1, Inductive, PTL
-----------------------------------------------------------------------------
(* Where addresses wrap.  A count loop that comes by an address twice never *)
(* ends; one that ends has come by no address twice, so the count has not   *)
(* wrapped, and the fill loop ends where the count loop did.                *)

\* The n addresses a loop comes by, wherever they wrap, and the next one.
Tour(path, n) ==
  /\ path[0] = args.org_addr
  /\ \A j \in 0..(n - 1) : /\ path[j] \in Addr /\ More(path[j])
                           /\ path[j + 1] = Advance(path[j])

Tally ==
  call # NULL =>
    \E n \in Nat : \E path :
      /\ Tour(path, n)
      /\ call.loop = "count" => /\ call.addr = path[n] /\ call.ops = <<>>
                                /\ n < CountSpace => call.num_ops = n
      /\ call.loop = "fill" => /\ ~More(path[n]) /\ call.num_ops = n
                               /\ Len(call.ops) <= n
                               /\ call.addr = path[Len(call.ops)]

Sized == dasm # NULL => dasm.num_ops = Len(dasm.ops)

\* The end of a tour is reached once: from an address come by twice it would
\* be reached earlier.
LEMMA TourIsNoRound ==
  ASSUME NEW n \in Nat, NEW path, Tour(path, n), ~More(path[n]),
         NEW j \in Nat, NEW k \in Nat, j < k, k <= n, path[j] = path[k]
  PROVE  FALSE
<1> DEFINE T == {x \in 0..(n - k) : path[j + x] = path[k + x]}
<1>1. 0 \in T
  OBVIOUS
<1>2. ASSUME NEW x \in 0..((n - k) - 1), x \in T
      PROVE  x + 1 \in T
  <2>1. /\ j + x \in 0..(n - 1) /\ k + x \in 0..(n - 1)
        /\ (j + x) + 1 = j + (x + 1) /\ (k + x) + 1 = k + (x + 1)
        /\ x + 1 \in 0..(n - k)
    OBVIOUS
  <2>2. path[j + x] = path[k + x]
    BY <1>2
  <2>3. path[(j + x) + 1] = path[(k + x) + 1]
    BY <2>1, <2>2 DEF Tour
  <2> QED BY <2>1, <2>3
<1> HIDE DEF T
<1>3. 0..(n - k) \subseteq T
  BY <1>1, <1>2, 0 \in Int, n - k \in Int, UpFrom
<1>4. path[j + (n - k)] = path[k + (n - k)]
  BY <1>3 DEF T
<1>5. j + (n - k) \in 0..(n - 1) /\ k + (n - k) = n
  OBVIOUS
<1> QED
  BY <1>4, <1>5 DEF Tour

\* A tour that ends is no longer than the address space.
LEMMA TourIsShort ==
  ASSUME NEW n \in Nat, NEW path, Tour(path, n), ~More(path[n])
  PROVE  n < CountSpace
<1>1. AddrSpace \in Nat /\ CountSpace \in Nat /\ CountSpace > AddrSpace
  BY DasmAssumption, Widths
<1> SUFFICES ASSUME n > AddrSpace
             PROVE  FALSE
  BY <1>1
<1> DEFINE S == 0..AddrSpace
           f == [j \in S |-> path[j]]
<1>2. f \in [S -> Addr]
  <2>1. \A j \in S : j \in 0..(n - 1)
    BY <1>1
  <2> QED BY <2>1 DEF Tour
<1>3. IsFiniteSet(S) /\ Cardinality(S) = AddrSpace + 1
  BY <1>1, FS_Interval
<1>4. IsFiniteSet(Addr) /\ Cardinality(Addr) = AddrSpace
  <2> DEFINE last == AddrSpace - 1
  <2>1. last \in Int /\ 0 \in Int /\ ~ (0 > last) /\ last - 0 + 1 = AddrSpace
    BY <1>1, DasmAssumption
  <2> HIDE DEF last
  <2>2. IsFiniteSet(0..last) /\ Cardinality(0..last) = AddrSpace
    BY <2>1, FS_Interval
  <2> QED BY <2>2 DEF Addr, last
<1>5. \A j \in S : f[j] = path[j]
  OBVIOUS
<1> HIDE DEF f, S
<1>6. Cardinality(Addr) < Cardinality(S)
  BY <1>1, <1>3, <1>4
<1>7. PICK x, y \in S : x # y /\ f[x] = f[y]
  BY <1>2, <1>3, <1>4, <1>6, FS_PigeonHole, Zenon
<1>8. x \in Nat /\ y \in Nat /\ x <= n /\ y <= n /\ path[x] = path[y]
  BY <1>1, <1>5, <1>7 DEF S
<1>9. x < y \/ y < x
  BY <1>7, <1>8
<1> QED
  BY <1>8, <1>9, TourIsNoRound

LEMMA TourOn ==
  ASSUME NEW n \in Nat, NEW path, Tour(path, n), path[n] \in Addr, More(path[n])
  PROVE  \E longer : Tour(longer, n + 1) /\ longer[n + 1] = Advance(path[n])
<1> DEFINE longer == [j \in 0..(n + 1) |-> IF j <= n THEN path[j] ELSE Advance(path[n])]
<1>1. \A j \in 0..n : longer[j] = path[j]
  OBVIOUS
<1>2. longer[n + 1] = Advance(path[n])
  OBVIOUS
<1> HIDE DEF longer
<1>3. ASSUME NEW j \in 0..n
      PROVE  /\ longer[j] \in Addr /\ More(longer[j])
             /\ longer[j + 1] = Advance(longer[j])
  <2>1. CASE j = n
    BY <1>1, <1>2, <2>1
  <2>2. CASE j # n
    <3>1. j \in 0..(n - 1) /\ j + 1 \in 0..n
      BY <2>2
    <3> QED BY <1>1, <3>1 DEF Tour
  <2> QED BY <2>1, <2>2
<1>4. longer[0] = args.org_addr
  BY <1>1 DEF Tour
<1>5. Tour(longer, n + 1)
  BY <1>3, <1>4 DEF Tour
<1> QED
  BY <1>2, <1>5

LEMMA SameTour ==
  ASSUME memory' = memory, args' = args
  PROVE  /\ \A a : More(a)' = More(a) /\ Advance(a)' = Advance(a)
         /\ \A path, n : Tour(path, n)' = Tour(path, n)
  BY DEF More, Advance, end_addr, Tour

LEMMA TallyNext == TypeInv /\ Tally /\ Sized /\ [Next]_vars => Tally' /\ Sized'
<1> SUFFICES ASSUME TypeInv, Tally, Sized, [Next]_vars
             PROVE  Tally' /\ Sized'
  OBVIOUS
<1>1. ASSUME NEW mem, NEW program_size \in Sizes, NEW org_addr \in Orgs,
             adc_8080_dasm_disassemble(mem, program_size, org_addr)
      PROVE  Tally' /\ Sized'
  <2> SUFFICES ASSUME call' # NULL
               PROVE  Tally' /\ Sized'
    BY <1>1 DEF adc_8080_dasm_disassemble, Tally, Sized
  <2>1. /\ args'.org_addr = org_addr /\ dasm' = NULL
        /\ call' = [loop |-> "count", addr |-> org_addr, num_ops |-> 0, ops |-> <<>>]
    BY <1>1 DEF adc_8080_dasm_disassemble
  <2> DEFINE path == [j \in {0} |-> org_addr]
  <2>2. path[0] = org_addr /\ Tour(path, 0)'
    BY <2>1 DEF Tour
  <2> HIDE DEF path
  <2> QED BY <2>1, <2>2, 0 \in Nat DEF Tally, Sized
<1>2. CASE Count
  <2>1. /\ memory' = memory /\ args' = args /\ dasm' = dasm
        /\ call # NULL /\ call.loop = "count" /\ call \in Locals /\ More(call.addr)
        /\ call' = [call EXCEPT !.addr = Advance(@), !.num_ops = (@ + 1) % CountSpace]
    BY <1>2 DEF Count, TypeInv
  <2>2. PICK n \in Nat : \E path :
          /\ Tour(path, n) /\ call.addr = path[n] /\ call.ops = <<>>
          /\ n < CountSpace => call.num_ops = n
    BY <2>1 DEF Tally
  <2>3. PICK path : /\ Tour(path, n) /\ call.addr = path[n] /\ call.ops = <<>>
                    /\ n < CountSpace => call.num_ops = n
    BY <2>2
  <2>4. PICK longer : Tour(longer, n + 1) /\ longer[n + 1] = Advance(call.addr)
    BY <2>1, <2>3, TourOn DEF Locals
  <2>5. /\ call'.loop = "count" /\ call'.addr = Advance(call.addr) /\ call'.ops = <<>>
        /\ call'.num_ops = (call.num_ops + 1) % CountSpace
    BY <2>1, <2>3 DEF Locals
  <2>6. n + 1 < CountSpace => call'.num_ops = n + 1
    BY <2>3, <2>5, ModSmall, Widths
  <2>7. Tour(longer, n + 1)'
    BY <2>1, <2>4, SameTour
  <2>8. n + 1 \in Nat
    OBVIOUS
  <2> QED BY <2>1, <2>4, <2>5, <2>6, <2>7, <2>8 DEF Tally, Sized
<1>3. CASE AllocOps
  <2>1. /\ memory' = memory /\ args' = args /\ dasm' = dasm
        /\ call # NULL /\ call.loop = "count" /\ call \in Locals /\ ~More(call.addr)
        /\ call' \in {NULL, [call EXCEPT !.loop = "fill", !.addr = args.org_addr]}
    BY <1>3 DEF AllocOps, TypeInv
  <2>2. PICK n \in Nat : \E path :
          /\ Tour(path, n) /\ call.addr = path[n] /\ call.ops = <<>>
          /\ n < CountSpace => call.num_ops = n
    BY <2>1 DEF Tally
  <2>3. PICK path : /\ Tour(path, n) /\ call.addr = path[n] /\ call.ops = <<>>
                    /\ n < CountSpace => call.num_ops = n
    BY <2>2
  <2>4. call.num_ops = n
    BY <2>1, <2>3, TourIsShort
  <2>5. CASE call' = NULL
    BY <2>1, <2>5 DEF Tally, Sized
  <2>6. CASE call' = [call EXCEPT !.loop = "fill", !.addr = args.org_addr]
    <3>1. /\ call'.loop = "fill" /\ call'.addr = path[0] /\ call'.num_ops = n
          /\ call'.ops = <<>>
      BY <2>1, <2>3, <2>4, <2>6 DEF Locals, Tour
    <3>2. Tour(path, n)' /\ ~More(path[n])'
      BY <2>1, <2>3, SameTour
    <3>3. Len(<<>>) = 0 /\ 0 <= n
      OBVIOUS
    <3> QED BY <2>1, <3>1, <3>2, <3>3 DEF Tally, Sized
  <2> QED BY <2>1, <2>5, <2>6
<1>4. CASE Fill
  <2>1. /\ memory' = memory /\ args' = args /\ dasm' = dasm
        /\ call # NULL /\ call.loop = "fill" /\ call \in Locals /\ More(call.addr)
        /\ call' = [call EXCEPT !.addr = Advance(@),
                                !.ops = Append(@, OpAt(call.addr, Len(@)))]
    BY <1>4 DEF Fill, FillOne, TypeInv
  <2>2. PICK n \in Nat : \E path :
          /\ Tour(path, n) /\ ~More(path[n]) /\ call.num_ops = n
          /\ Len(call.ops) <= n /\ call.addr = path[Len(call.ops)]
    BY <2>1 DEF Tally
  <2>3. PICK path : /\ Tour(path, n) /\ ~More(path[n]) /\ call.num_ops = n
                    /\ Len(call.ops) <= n /\ call.addr = path[Len(call.ops)]
    BY <2>2
  <2>4. Len(call.ops) \in Nat /\ Len(call.ops) # n
    BY <2>1, <2>3 DEF Locals
  <2>5. Len(call.ops) \in 0..(n - 1)
    BY <2>3, <2>4
  <2> DEFINE more == Append(call.ops, OpAt(call.addr, Len(call.ops)))
  <2>6. Len(more) = Len(call.ops) + 1
    BY <2>1 DEF Locals
  <2>7. /\ call'.loop = "fill" /\ call'.addr = Advance(call.addr)
        /\ call'.num_ops = n /\ call'.ops = more
    BY <2>1, <2>3 DEF Locals
  <2> HIDE DEF more
  <2>8. call'.addr = path[Len(call'.ops)] /\ Len(call'.ops) <= n
    BY <2>3, <2>5, <2>6, <2>7 DEF Tour
  <2>9. Tour(path, n)' /\ ~More(path[n])'
    BY <2>1, <2>3, SameTour
  <2> QED BY <2>1, <2>7, <2>8, <2>9 DEF Tally, Sized
<1>5. CASE AllocDasm
  <2>1. /\ call # NULL /\ call.loop = "fill" /\ call \in Locals /\ ~More(call.addr)
        /\ dasm' \in {NULL, [num_ops |-> call.num_ops, ops |-> call.ops]}
        /\ call' = NULL
    BY <1>5 DEF AllocDasm, TypeInv
  <2>2. PICK n \in Nat : \E path :
          /\ Tour(path, n) /\ call.num_ops = n
          /\ Len(call.ops) <= n /\ call.addr = path[Len(call.ops)]
    BY <2>1 DEF Tally
  <2>3. PICK path : /\ Tour(path, n) /\ call.num_ops = n
                    /\ Len(call.ops) <= n /\ call.addr = path[Len(call.ops)]
    BY <2>2
  <2>4. Len(call.ops) \in Nat
    BY <2>1 DEF Locals
  <2>5. Len(call.ops) \notin 0..(n - 1)
    BY <2>1, <2>3 DEF Tour
  <2>6. call.num_ops = Len(call.ops)
    BY <2>3, <2>4, <2>5
  <2> QED BY <2>1, <2>6 DEF Tally, Sized
<1>6. CASE adc_8080_dasm_free
  <2>1. memory' = memory /\ args' = args /\ call' = call /\ dasm' = NULL
    BY <1>6 DEF adc_8080_dasm_free
  <2> QED BY <2>1, SameTour DEF Tally, Sized
<1>7. CASE UNCHANGED vars
  <2>1. memory' = memory /\ args' = args /\ call' = call /\ dasm' = dasm
    BY <1>7 DEF vars
  <2> QED BY <2>1, SameTour DEF Tally, Sized
<1> QED
  BY <1>1, <1>2, <1>3, <1>4, <1>5, <1>6, <1>7 DEF Next, Loops

\* Of every memory and every program, those that reach the end of the address
\* space included: the fill loop never makes more ops than the count loop asked
\* room for, and what is returned has exactly that many.
THEOREM CountIsExact == Spec => []TypeOK
<1>1. Init => Tally /\ Sized
  BY DEF Init, Tally, Sized
<1>2. TypeInv /\ Tally /\ Sized => TypeOK
  BY DEF TypeInv, Tally, Sized, TypeOK
<1> QED
  BY <1>1, <1>2, TypeInit, TypeNext, TallyNext, PTL DEF Spec

-----------------------------------------------------------------------------
(* Looking up.                                                              *)

\* The ops of a disassembly, in the order of their addresses.
Ascending(ops) ==
  /\ ops \in Seq(Op)
  /\ \A j, k \in 1..Len(ops) : j < k => ops[j].addr < ops[k].addr
  /\ \A k \in 1..Len(ops) : ops[k].index = k - 1

LEMMA AscendingTypes ==
  ASSUME NEW ops, Ascending(ops)
  PROVE  Len(ops) \in Nat /\ \A k \in 1..Len(ops) : ops[k] \in Op /\ ops[k].addr \in Nat
<1>1. ops \in Seq(Op)
  BY DEF Ascending
<1>2. \A k \in 1..Len(ops) : ops[k] \in Op
  BY <1>1
<1>3. \A op \in Op : op.addr \in Nat
  BY DasmAssumption DEF Op, Addr
<1> QED
  BY <1>1, <1>2, <1>3

\* What bsearch makes of the positions from l to u: where addr is, or 0.
Place(addr, ops, l, u) ==
  IF \E k \in (l + 1)..u : ops[k].addr = addr
  THEN CHOOSE k \in (l + 1)..u : ops[k].addr = addr
  ELSE 0

LEMMA PlaceIs ==
  ASSUME NEW ops, Ascending(ops), NEW addr, NEW l \in 0..Len(ops), NEW u \in 0..Len(ops),
         NEW k \in (l + 1)..u, ops[k].addr = addr
  PROVE  Place(addr, ops, l, u) = k
<1>1. Place(addr, ops, l, u) \in (l + 1)..u /\ ops[Place(addr, ops, l, u)].addr = addr
  BY DEF Place
<1>2. ASSUME NEW j \in (l + 1)..u, ops[j].addr = addr
      PROVE  j = k
  <2>1. j \in 1..Len(ops) /\ k \in 1..Len(ops) /\ j \in Nat /\ k \in Nat
    BY AscendingTypes
  <2>2. ops[j].addr \in Nat /\ ops[k].addr \in Nat /\ ops[j].addr = ops[k].addr
    BY <1>2, <2>1, AscendingTypes
  <2>3. ~ (j < k) /\ ~ (k < j)
    BY <2>1, <2>2 DEF Ascending
  <2> QED BY <2>1, <2>3
<1> QED
  BY <1>1, <1>2

LEMMA PlaceNot ==
  ASSUME NEW ops, NEW addr, NEW l, NEW u, \A k \in (l + 1)..u : ops[k].addr # addr
  PROVE  Place(addr, ops, l, u) = 0
  BY DEF Place

\* The halves that are not searched do not have it.
LEMMA PlaceHalves ==
  ASSUME NEW ops, Ascending(ops), NEW addr \in Addr,
         NEW l \in 0..Len(ops), NEW u \in 0..Len(ops), l < u,
         NEW mid \in Nat, mid = (l + u) \div 2
  PROVE  /\ l <= mid /\ mid < u
         /\ compareops(addr, ops[mid + 1]) = 0 => Place(addr, ops, l, u) = mid + 1
         /\ compareops(addr, ops[mid + 1]) < 0 =>
              Place(addr, ops, l, u) = Place(addr, ops, l, mid)
         /\ compareops(addr, ops[mid + 1]) > 0 =>
              Place(addr, ops, l, u) = Place(addr, ops, mid + 1, u)
<1>1. l \in Nat /\ u \in Nat /\ Len(ops) \in Nat /\ u <= Len(ops)
  BY AscendingTypes
<1>2. l <= mid /\ mid < u
  BY <1>1
<1>3. mid + 1 \in (l + 1)..u /\ mid + 1 \in 1..Len(ops)
  BY <1>1, <1>2
<1>4. addr \in Nat /\ \A k \in 1..Len(ops) : ops[k].addr \in Nat
  BY AscendingTypes, DasmAssumption DEF Addr
<1>5. /\ compareops(addr, ops[mid + 1]) = 0 => ops[mid + 1].addr = addr
      /\ compareops(addr, ops[mid + 1]) < 0 => addr < ops[mid + 1].addr
      /\ compareops(addr, ops[mid + 1]) > 0 => addr > ops[mid + 1].addr
  BY <1>3, <1>4 DEF compareops
<1>6. ASSUME addr < ops[mid + 1].addr
      PROVE  Place(addr, ops, l, u) = Place(addr, ops, l, mid)
  <2>1. ASSUME NEW k \in (l + 1)..u, ops[k].addr = addr
        PROVE  k \in (l + 1)..mid
    <3>1. k \in 1..Len(ops) /\ k \in Nat
      BY <1>1
    <3>2. ~ (mid + 1 < k) /\ k # mid + 1
      BY <1>3, <1>4, <1>6, <2>1, <3>1 DEF Ascending
    <3> QED BY <3>1, <3>2
  <2>2. CASE \E k \in (l + 1)..u : ops[k].addr = addr
    <3>1. PICK k \in (l + 1)..u : ops[k].addr = addr
      BY <2>2
    <3>2. k \in (l + 1)..mid /\ mid \in 0..Len(ops)
      BY <1>1, <1>2, <2>1, <3>1
    <3>3. Place(addr, ops, l, u) = k
      BY <3>1, PlaceIs
    <3>4. Place(addr, ops, l, mid) = k
      BY <3>1, <3>2, PlaceIs
    <3> QED BY <3>3, <3>4
  <2>3. CASE ~ \E k \in (l + 1)..u : ops[k].addr = addr
    <3>1. \A k \in (l + 1)..mid : k \in (l + 1)..u
      BY <1>1, <1>2
    <3> QED BY <2>3, <3>1, PlaceNot
  <2> QED BY <2>2, <2>3
<1>7. ASSUME addr > ops[mid + 1].addr
      PROVE  Place(addr, ops, l, u) = Place(addr, ops, mid + 1, u)
  <2>1. ASSUME NEW k \in (l + 1)..u, ops[k].addr = addr
        PROVE  k \in (mid + 2)..u
    <3>1. k \in 1..Len(ops) /\ k \in Nat
      BY <1>1
    <3>2. ~ (k < mid + 1) /\ k # mid + 1
      BY <1>3, <1>4, <1>7, <2>1, <3>1 DEF Ascending
    <3> QED BY <3>1, <3>2
  <2>2. (mid + 1) + 1 = mid + 2 /\ mid + 1 \in 0..Len(ops)
    BY <1>3
  <2>3. CASE \E k \in (l + 1)..u : ops[k].addr = addr
    <3>1. PICK k \in (l + 1)..u : ops[k].addr = addr
      BY <2>3
    <3>2. k \in ((mid + 1) + 1)..u
      BY <2>1, <2>2, <3>1
    <3>3. Place(addr, ops, l, u) = k
      BY <3>1, PlaceIs
    <3>4. Place(addr, ops, mid + 1, u) = k
      BY <2>2, <3>1, <3>2, PlaceIs
    <3> QED BY <3>3, <3>4
  <2>4. CASE ~ \E k \in (l + 1)..u : ops[k].addr = addr
    <3>1. \A k \in ((mid + 1) + 1)..u : k \in (l + 1)..u
      BY <1>1, <1>2
    <3> QED BY <2>4, <3>1, PlaceNot
  <2> QED BY <2>3, <2>4
<1> QED
  BY <1>2, <1>3, <1>5, <1>6, <1>7, PlaceIs

\* What bsearch finds is in its place: every part is searched down to nothing.
LEMMA BsearchFinds ==
  ASSUME NEW ops, Ascending(ops), NEW addr \in Addr
  PROVE  bsearch(addr, ops) = Place(addr, ops, 0, Len(ops))
<1> DEFINE P == (0..Len(ops)) \X (0..Len(ops))
           mid(p) == (p[1] + p[2]) \div 2
           c(p) == compareops(addr, ops[mid(p) + 1])
           body(f, p) == IF p[1] >= p[2] THEN 0
                         ELSE IF c(p) = 0 THEN mid(p) + 1
                         ELSE IF c(p) < 0 THEN f[<<p[1], mid(p)>>]
                         ELSE f[<<mid(p) + 1, p[2]>>]
           Is(f) == f = [p \in P |-> body(f, p)]
           place(p) == Place(addr, ops, p[1], p[2])
           places == [p \in P |-> place(p)]
<1>1. Len(ops) \in Nat
  BY AscendingTypes
<1>2. \A p \in P : p[1] \in 0..Len(ops) /\ p[2] \in 0..Len(ops) /\ p = <<p[1], p[2]>>
  OBVIOUS
<1>3. ASSUME NEW p \in P, p[1] < p[2]
      PROVE  /\ mid(p) \in Nat /\ p[1] <= mid(p) /\ mid(p) < p[2]
             /\ <<p[1], mid(p)>> \in P /\ <<mid(p) + 1, p[2]>> \in P
             /\ c(p) = 0 => place(p) = mid(p) + 1
             /\ c(p) < 0 => place(p) = place(<<p[1], mid(p)>>)
             /\ c(p) > 0 => place(p) = place(<<mid(p) + 1, p[2]>>)
             /\ c(p) = -1 \/ c(p) = 0 \/ c(p) = 1
  <2>1. p[1] \in Nat /\ p[2] \in Nat /\ p[1] \in 0..Len(ops) /\ p[2] \in 0..Len(ops)
        /\ p[2] <= Len(ops)
    BY <1>1, <1>2
  <2>2. mid(p) \in Nat /\ p[1] <= mid(p) /\ mid(p) < p[2]
    BY <1>3, <2>1
  <2>3. c(p) = -1 \/ c(p) = 0 \/ c(p) = 1
    BY DEF compareops
  <2> DEFINE m == mid(p)
  <2>4. m \in Nat /\ m = (p[1] + p[2]) \div 2
    BY <2>2
  <2>5. /\ c(p) = 0 => place(p) = m + 1
        /\ c(p) < 0 => place(p) = Place(addr, ops, p[1], m)
        /\ c(p) > 0 => place(p) = Place(addr, ops, m + 1, p[2])
    BY <1>3, <2>1, <2>4, PlaceHalves
  <2>6. <<p[1], m>> \in P /\ <<m + 1, p[2]>> \in P
    BY <1>1, <2>1, <2>2
  <2> QED BY <2>2, <2>3, <2>5, <2>6
<1>4. ASSUME NEW p \in P, ~ (p[1] < p[2])
      PROVE  place(p) = 0 /\ p[1] >= p[2]
  <2>1. p[1] \in Nat /\ p[2] \in Nat
    BY <1>1, <1>2
  <2>2. (p[1] + 1)..p[2] = {} /\ p[1] >= p[2]
    BY <1>4, <2>1
  <2> QED BY <2>2, PlaceNot
<1> HIDE DEF P, mid, c, place
<1>5. Is(places)
  <2>1. ASSUME NEW p \in P
        PROVE  place(p) = body(places, p)
    <3>1. CASE p[1] < p[2]
      <4>1. ~ (p[1] >= p[2])
        BY <1>1, <1>2, <3>1
      <4>2. places[<<p[1], mid(p)>>] = place(<<p[1], mid(p)>>)
        BY <1>3, <3>1
      <4>3. places[<<mid(p) + 1, p[2]>>] = place(<<mid(p) + 1, p[2]>>)
        BY <1>3, <3>1
      <4> HIDE DEF places
      <4>4. c(p) = 0 \/ c(p) < 0 \/ c(p) > 0
        <5>1. c(p) = -1 \/ c(p) = 0 \/ c(p) = 1
          BY <1>3, <3>1, Zenon
        <5> QED BY <5>1
      <4> QED BY <1>3, <3>1, <4>1, <4>2, <4>3, <4>4
    <3>2. CASE ~ (p[1] < p[2])
      BY <1>4, <3>2
    <3> QED BY <3>1, <3>2
  <2> QED BY <2>1
<1> DEFINE look == CHOOSE f : Is(f)
<1>6. bsearch(addr, ops) = look[<<0, Len(ops)>>]
  BY Zenon DEF bsearch, P, mid, c
<1>7. Is(look)
  BY <1>5, Zenon
<1> HIDE DEF look
<1>8. \A p \in P : look[p] = body(look, p)
  BY <1>7
<1> HIDE DEF Is
<1> DEFINE T == {n \in Nat : \A p \in P : p[2] - p[1] <= n => look[p] = place(p)}
<1>9. \A n \in Nat : (\A m \in Nat : m < n => m \in T) => n \in T
  <2> SUFFICES ASSUME NEW n \in Nat, \A m \in Nat : m < n => m \in T,
                      NEW p \in P, p[2] - p[1] <= n
               PROVE  look[p] = place(p)
    OBVIOUS
  <2>1. p[1] \in Nat /\ p[2] \in Nat
    BY <1>1, <1>2
  <2>2. CASE p[1] < p[2]
    <3> DEFINE left == <<p[1], mid(p)>>
               right == <<mid(p) + 1, p[2]>>
    <3>1. /\ left \in P /\ right \in P
          /\ left[1] = p[1] /\ left[2] = mid(p) /\ right[1] = mid(p) + 1 /\ right[2] = p[2]
      BY <1>3, <2>2
    <3>2. n - 1 \in Nat /\ n - 1 < n /\ left[2] - left[1] <= n - 1 /\ right[2] - right[1] <= n - 1
      BY <1>3, <2>1, <2>2, <3>1
    <3>3. look[left] = place(left) /\ look[right] = place(right)
      BY <3>1, <3>2
    <3>4. look[p] = IF c(p) = 0 THEN mid(p) + 1 ELSE IF c(p) < 0 THEN look[left] ELSE look[right]
      BY <1>8, <2>1, <2>2
    <3>5. c(p) = -1 \/ c(p) = 0 \/ c(p) = 1
      BY <1>3, <2>2, Zenon
    <3>6. c(p) = 0 \/ c(p) < 0 \/ (c(p) > 0 /\ ~ (c(p) = 0) /\ ~ (c(p) < 0))
      BY <3>5
    <3> QED BY <1>3, <2>2, <3>3, <3>4, <3>6
  <2>3. CASE ~ (p[1] < p[2])
    BY <1>4, <1>8, <2>3
  <2> QED BY <2>2, <2>3
<1> HIDE DEF T
<1>10. Nat \subseteq T
  BY <1>9, Descent
<1>11. <<0, Len(ops)>> \in P
  BY <1>1 DEF P
<1>12. look[<<0, Len(ops)>>] = place(<<0, Len(ops)>>)
  BY <1>1, <1>10, <1>11 DEF T
<1> QED
  BY <1>6, <1>12 DEF place

LEMMA DisassemblyAscends ==
  ASSUME IInv, Fits, dasm # NULL
  PROVE  Ascending(dasm.ops)
<1>1. PICK addr \in Int : Listed(dasm.ops, addr)
  BY DEF IInv, Fitting
<1>2. dasm.ops \in Seq(Op)
  BY DEF IInv, TypeInv
<1>3. \A k \in 1..Len(dasm.ops) : dasm.ops[k].addr \in Nat /\ size(dasm.ops[k].code) \in 1..3
  <2>1. Given
    BY GivenHolds DEF IInv
  <2> QED BY <1>1, <2>1, Ends, SizeRange DEF Listed
<1>4. ASSUME NEW j \in 1..Len(dasm.ops), NEW k \in 1..Len(dasm.ops), j < k
      PROVE  dasm.ops[j].addr < dasm.ops[k].addr
  <2>1. dasm.ops[j].addr + size(dasm.ops[j].code) <= dasm.ops[k].addr
    BY <1>1, <1>4 DEF Listed
  <2> QED BY <1>3, <2>1
<1>5. \A k \in 1..Len(dasm.ops) : dasm.ops[k].index = k - 1
  BY <1>1 DEF Listed
<1> QED
  BY <1>2, <1>4, <1>5 DEF Ascending

\* No op of a disassembly is s_op_notfound, whose size is 0.
LEMMA OpIsFound == \A op \in Op : ~NotFound(op)
<1> SUFFICES ASSUME NEW op \in Op, op = op_notfound
             PROVE  FALSE
  BY DEF NotFound
<1>1. "size" \notin DOMAIN op
  BY DEF Op
<1>2. "size" \in DOMAIN op_notfound
  BY DEF op_notfound
<1> QED
  BY <1>1, <1>2

LEMMA FindIs ==
  ASSUME NEW d, d # NULL, Ascending(d.ops), NEW addr \in Addr
  PROVE  /\ \A k \in 1..Len(d.ops) : d.ops[k].addr = addr =>
              adc_8080_dasm_find(d, addr) = d.ops[k]
         /\ (\A k \in 1..Len(d.ops) : d.ops[k].addr # addr) =>
              adc_8080_dasm_find(d, addr) = op_notfound
<1>1. Len(d.ops) \in Nat
  BY AscendingTypes
<1>2. bsearch(addr, d.ops) = Place(addr, d.ops, 0, Len(d.ops))
  BY BsearchFinds
<1>3. ASSUME NEW k \in 1..Len(d.ops), d.ops[k].addr = addr
      PROVE  adc_8080_dasm_find(d, addr) = d.ops[k]
  <2>1. k \in (0 + 1)..Len(d.ops) /\ 0 \in 0..Len(d.ops) /\ Len(d.ops) \in 0..Len(d.ops)
    BY <1>1
  <2>2. Place(addr, d.ops, 0, Len(d.ops)) = k
    BY <1>3, <2>1, PlaceIs
  <2>3. k # 0
    OBVIOUS
  <2> QED BY <1>2, <2>2, <2>3 DEF adc_8080_dasm_find
<1>4. ASSUME \A k \in 1..Len(d.ops) : d.ops[k].addr # addr
      PROVE  adc_8080_dasm_find(d, addr) = op_notfound
  <2>1. \A k \in (0 + 1)..Len(d.ops) : d.ops[k].addr # addr
    BY <1>4
  <2>2. Place(addr, d.ops, 0, Len(d.ops)) = 0
    BY <2>1, PlaceNot
  <2> QED BY <1>2, <2>2 DEF adc_8080_dasm_find
<1> QED
  BY <1>3, <1>4

\* Whatever the program and the address, adc_8080_dasm_find returns the op at
\* that address, and s_op_notfound only when there is none.
THEOREM FindsTheOp == Spec => []FindExact
<1>1. ASSUME IInv, Fits, NEW addr \in Addr
      PROVE  LET op == adc_8080_dasm_find(dasm, addr)
                 there == IF dasm = NULL THEN {}
                          ELSE {k \in 1..Len(dasm.ops) : dasm.ops[k].addr = addr}
             IN IF there = {} THEN NotFound(op) ELSE \E k \in there : op = dasm.ops[k]
  <2>1. CASE dasm = NULL
    BY <2>1 DEF adc_8080_dasm_find, NotFound
  <2>2. CASE dasm # NULL
    <3>1. Ascending(dasm.ops)
      BY <1>1, <2>2, DisassemblyAscends
    <3> QED BY <2>2, <3>1, FindIs DEF NotFound
  <2> QED BY <2>1, <2>2
<1>2. IInv => FindExact
  BY <1>1 DEF FindExact
<1> QED
  BY <1>2, Inductive, PTL

\* The positions of the ops no further than h from the k-th, and a listing of
\* the ops at such positions.
Near(ops, k, h) == {j \in 1..Len(ops) : ops[j].index - ops[k].index \in -h..h}

Shows(dst, ops, near) ==
  /\ {dst[i] : i \in 1..Len(dst)} = {ops[j] : j \in near}
  /\ \A i, j \in 1..Len(dst) : i < j => dst[i].addr < dst[j].addr

\* Ops at ascending addresses are no more than there are addresses.
LEMMA AscendingIsShort ==
  ASSUME NEW ops, Ascending(ops)
  PROVE  Len(ops) <= AddrSpace
<1> DEFINE T == {k \in 0..Len(ops) : k > 0 => k <= ops[k].addr + 1}
<1>1. Len(ops) \in Nat /\ \A k \in 1..Len(ops) : ops[k].addr \in Nat
  BY AscendingTypes
<1>2. 0 \in T
  BY <1>1
<1>3. ASSUME NEW k \in 0..(Len(ops) - 1), k \in T PROVE k + 1 \in T
  <2>1. k + 1 \in 1..Len(ops) /\ k \in Nat
    BY <1>1
  <2>2. CASE k = 0
    BY <1>1, <2>1, <2>2
  <2>3. CASE k # 0
    <3>1. k \in 1..Len(ops) /\ k < k + 1
      BY <1>1, <2>1, <2>3
    <3>2. ops[k].addr < ops[k + 1].addr
      BY <2>1, <3>1 DEF Ascending
    <3> QED BY <1>1, <1>3, <2>1, <3>1, <3>2
  <2> QED BY <2>2, <2>3
<1> HIDE DEF T
<1>4. 0..Len(ops) \subseteq T
  BY <1>2, <1>3, 0 \in Int, Len(ops) \in Int, UpFrom
<1>5. CASE Len(ops) = 0
  BY <1>5, Widths
<1>6. CASE Len(ops) # 0
  <2>1. Len(ops) \in 0..Len(ops) /\ Len(ops) \in 1..Len(ops) /\ Len(ops) > 0
    BY <1>1, <1>6
  <2>2. Len(ops) <= ops[Len(ops)].addr + 1
    BY <1>4, <2>1 DEF T
  <2>3. ops[Len(ops)] \in Op
    BY <2>1, AscendingTypes
  <2>4. ops[Len(ops)].addr \in 0..(AddrSpace - 1)
    BY <2>3 DEF Op, Addr
  <2> QED BY <1>1, <2>2, <2>4, Widths
<1> QED
  BY <1>5, <1>6

LEMMA LinesAround ==
  ASSUME NEW d, d # NULL, Ascending(d.ops), d.num_ops = Len(d.ops), NEW addr \in Addr,
         NEW k \in 1..Len(d.ops), d.ops[k].addr = addr, NEW num_lines \in Lines
  PROVE  Shows(adc_8080_dasm_list(d, num_lines, addr).dst, d.ops,
               Near(d.ops, k, num_lines \div 2))
<1> DEFINE N == Len(d.ops)
           h == num_lines \div 2
           op == d.ops[k]
           low == ToInt(ToSize(op.index - h))
           high == ToInt(ToSize(op.index + h))
           imin == IF low < 0 THEN 0 ELSE low
           imax == IF ToSize(high) >= N THEN ToInt(N - 1) ELSE high
           dst == SubSeq(d.ops, imin + 1, imax + 1)
           near == Near(d.ops, k, h)
<1>1. N \in Nat /\ d.ops \in Seq(Op) /\ \A j \in 1..N : d.ops[j].index = j - 1
  BY AscendingTypes DEF Ascending
<1>2. h \in Nat /\ h <= AddrSpace
  <2>1. num_lines \in Nat /\ num_lines <= AddrSpace + 1
    BY DasmAssumption DEF Lines
  <2> QED BY <2>1, Widths
<1>3. adc_8080_dasm_list(d, num_lines, addr).dst = dst
  <2>1. adc_8080_dasm_find(d, addr) = op
    BY FindIs
  <2>2. ~NotFound(op)
    BY AscendingTypes, OpIsFound
  <2> QED BY <2>1, <2>2 DEF adc_8080_dasm_list, Half
<1> HIDE DEF h
<1>4. op.index = k - 1 /\ k \in Nat /\ 1 <= k /\ k <= N
  BY <1>1
<1> HIDE DEF op
<1>10. low = k - 1 - h /\ high = k - 1 + h /\ ToSize(high) = high /\ ToInt(N - 1) = N - 1
  <2>1. N <= AddrSpace
    BY AscendingIsShort
  <2>2. /\ k - 1 - h \in Int /\ -IntMax <= k - 1 - h /\ k - 1 - h <= IntMax
        /\ k - 1 + h \in Nat /\ -IntMax <= k - 1 + h /\ k - 1 + h <= IntMax
        /\ N - 1 \in Nat /\ -IntMax <= N - 1 /\ N - 1 <= IntMax
    BY <1>1, <1>2, <1>4, <2>1, Widths
  <2>3. \A x \in Nat : x <= IntMax => ToSize(x) = x
    BY Widths, ModSmall DEF ToSize
  <2>4. ToSize(k - 1 + h) = k - 1 + h /\ ToSize(N - 1) = N - 1
    BY <2>2, <2>3
  <2> QED BY <1>4, <2>2, <2>4, ConvertsBack
<1> HIDE DEF low, high
<1>5. /\ imin \in Nat /\ imax \in Nat /\ imin <= imax /\ imax < N
      /\ \A j \in 1..N : j - 1 - (k - 1) \in -h..h <=> imin < j /\ j <= imax + 1
  BY <1>1, <1>2, <1>4, <1>10
<1> HIDE DEF imin, imax, dst
<1>6. /\ Len(dst) = imax - imin + 1
      /\ \A i \in 1..Len(dst) : dst[i] = d.ops[imin + i] /\ imin + i \in 1..N
  <2> DEFINE a == imin + 1
             b == imax + 1
  <2>1. a \in 1..N + 1 /\ b \in 0..N /\ a \in Nat /\ b \in Nat /\ b - a + 1 = imax - imin + 1
        /\ b - a + 1 \in Nat /\ a <= b
    BY <1>1, <1>5
  <2>2. \A i \in Int : a + i - 1 = imin + i
    BY <1>5
  <2> HIDE DEF a, b
  <2>3. /\ Len(SubSeq(d.ops, a, b)) = b - a + 1
        /\ \A i \in 1..(b - a + 1) : SubSeq(d.ops, a, b)[i] = d.ops[a + i - 1]
    BY <1>1, <2>1, SubSeqProperties
  <2>4. dst = SubSeq(d.ops, a, b)
    BY DEF dst, a, b
  <2>5. \A i \in 1..(b - a + 1) : imin + i \in 1..N
    BY <1>1, <1>5, <2>1
  <2>6. Len(dst) = imax - imin + 1
    BY <2>1, <2>3, <2>4
  <2>7. \A i \in 1..(b - a + 1) : dst[i] = d.ops[imin + i]
    <3> TAKE i \in 1..(b - a + 1)
    <3>1. i \in Int /\ dst[i] = d.ops[a + i - 1]
      BY <2>1, <2>3, <2>4
    <3> QED BY <2>2, <3>1
  <2>8. 1..(b - a + 1) = 1..Len(dst)
    BY <2>1, <2>6
  <2> QED BY <2>5, <2>6, <2>7, <2>8
<1>7. near = {j \in 1..N : imin < j /\ j <= imax + 1}
  BY <1>1, <1>4, <1>5 DEF Near, op
<1> HIDE DEF near
<1>8. {dst[i] : i \in 1..Len(dst)} = {d.ops[j] : j \in near}
  <2>1. \A i \in 1..Len(dst) : imin + i \in near
    BY <1>1, <1>5, <1>6, <1>7
  <2>2. ASSUME NEW j \in near
        PROVE  \E i \in 1..Len(dst) : d.ops[j] = dst[i]
    <3>1. j \in Nat /\ j - imin \in 1..Len(dst) /\ imin + (j - imin) = j
      BY <1>1, <1>5, <1>6, <1>7
    <3> QED BY <1>6, <3>1
  <2>3. \A x \in {dst[i] : i \in 1..Len(dst)} : x \in {d.ops[j] : j \in near}
    BY <1>6, <2>1
  <2>4. \A x \in {d.ops[j] : j \in near} : x \in {dst[i] : i \in 1..Len(dst)}
    BY <2>2
  <2> QED BY <2>3, <2>4
<1>9. \A i, j \in 1..Len(dst) : i < j => dst[i].addr < dst[j].addr
  <2> SUFFICES ASSUME NEW i \in 1..Len(dst), NEW j \in 1..Len(dst), i < j
               PROVE  dst[i].addr < dst[j].addr
    OBVIOUS
  <2>1. imin + i < imin + j /\ imin + i \in 1..N /\ imin + j \in 1..N
    BY <1>5, <1>6
  <2> QED BY <1>6, <2>1 DEF Ascending
<1> QED
  BY <1>3, <1>8, <1>9 DEF near, h, Shows

\* Whatever the program, the address and the number of lines asked for,
\* adc_8080_dasm_list gives ops around the one at the address, in their order:
\* all within half that number, but for the last when it is even, and no other.
THEOREM ListsAround == Spec => []ListAround
<1>1. ASSUME IInv, Sized, Fits, dasm # NULL, NEW addr \in Addr, NEW num_lines \in Lines
      PROVE  LET op == adc_8080_dasm_find(dasm, addr)
                 dst == adc_8080_dasm_list(dasm, num_lines, addr).dst
                 near(h) == {k \in 1..Len(dasm.ops) :
                               ~NotFound(op) /\ dasm.ops[k].index - op.index \in -h..h}
                 shown == {dst[i] : i \in 1..Len(dst)}
             IN /\ {dasm.ops[k] : k \in near((num_lines - 1) \div 2)} \subseteq shown
                /\ shown \subseteq {dasm.ops[k] : k \in near(num_lines \div 2)}
                /\ \A i, j \in 1..Len(dst) : i < j => dst[i].addr < dst[j].addr
  <2> DEFINE op == adc_8080_dasm_find(dasm, addr)
             dst == adc_8080_dasm_list(dasm, num_lines, addr).dst
             near(h) == {k \in 1..Len(dasm.ops) :
                           ~NotFound(op) /\ dasm.ops[k].index - op.index \in -h..h}
             shown == {dst[i] : i \in 1..Len(dst)}
  <2>1. Ascending(dasm.ops) /\ dasm.num_ops = Len(dasm.ops)
    BY <1>1, DisassemblyAscends DEF Sized
  <2>2. CASE \E k \in 1..Len(dasm.ops) : dasm.ops[k].addr = addr
    <3>1. PICK k \in 1..Len(dasm.ops) : dasm.ops[k].addr = addr
      BY <2>2
    <3>2. op = dasm.ops[k]
      BY <1>1, <2>1, <3>1, FindIs
    <3>3. ~NotFound(dasm.ops[k])
      BY <2>1, AscendingTypes, OpIsFound
    <3>4. Shows(dst, dasm.ops, Near(dasm.ops, k, num_lines \div 2))
      BY <1>1, <2>1, <3>1, LinesAround, Zenon
    <3> DEFINE h == num_lines \div 2
               g == (num_lines - 1) \div 2
    <3>5. h \in Nat /\ g \in Int /\ g <= h
      <4>1. num_lines \in Nat
        BY <1>1, Widths DEF Lines
      <4> QED BY <4>1
    <3> HIDE DEF h, g, op, dst
    <3>6. near(h) = Near(dasm.ops, k, h)
      BY <3>2, <3>3 DEF Near
    <3>7. near(g) \subseteq near(h)
      <4>1. \A x : x \in -g..g => x \in -h..h
        BY <3>5
      <4> QED BY <4>1
    <3>8. shown = {dasm.ops[j] : j \in near(h)}
      BY <3>4, <3>6 DEF Shows, h
    <3>9. {dasm.ops[j] : j \in near(g)} \subseteq shown
      BY <3>7, <3>8
    <3>10. \A i, j \in 1..Len(dst) : i < j => dst[i].addr < dst[j].addr
      BY <3>4 DEF Shows
    <3> QED BY <3>8, <3>9, <3>10 DEF h, g, op, dst
  <2>3. CASE \A k \in 1..Len(dasm.ops) : dasm.ops[k].addr # addr
    <3>1. NotFound(op)
      BY <1>1, <2>1, <2>3, FindIs DEF NotFound
    <3>2. dst = <<>>
      BY <3>1 DEF adc_8080_dasm_list
    <3>3. Len(<<>>) = 0 /\ 1..0 = {}
      OBVIOUS
    <3>4. \A h : near(h) = {}
      BY <3>1
    <3>5. shown = {}
      BY <3>2, <3>3
    <3> HIDE DEF op, dst, shown, near
    <3>6. {dasm.ops[k] : k \in near((num_lines - 1) \div 2)} = {}
      BY <3>4
    <3>7. \A i, j \in 1..Len(dst) : i < j => dst[i].addr < dst[j].addr
      BY <3>2, <3>3
    <3> QED BY <3>5, <3>6, <3>7 DEF op, dst, shown, near
  <2> QED BY <2>2, <2>3
<1>2. IInv /\ Sized => ListAround
  BY <1>1 DEF ListAround
<1>3. Spec => []Sized
  <2>1. Init => Tally /\ Sized
    BY DEF Init, Tally, Sized
  <2> QED BY <2>1, TypeInit, TypeNext, TallyNext, PTL DEF Spec
<1> QED
  BY <1>2, <1>3, Inductive, PTL

=============================================================================
