------------------------------- MODULE Dasm8080 -------------------------------
(***************************************************************************)
(* adc_8080_dasm.c: a program is disassembled in two loops, one that       *)
(* counts the instructions and one that fills the array allocated for      *)
(* them, and looked up by address afterwards.                              *)
(*                                                                         *)
(* An iteration of a loop is a step, so that a loop that does not end can  *)
(* be seen.  Addresses wrap as uint16_t do and the count as size_t does;   *)
(* each malloc may fail.                                                   *)
(***************************************************************************)
EXTENDS DasmTable8080, Sequences

CONSTANTS AddrSpace,   \* The values of a uint16_t: 65536.
          IntMax,      \* INT_MAX.
          CountSpace,  \* The values of a size_t, some times those of an int.
          Memories,    \* The memories the host may hold.
          Sizes, Orgs, \* The arguments of adc_8080_dasm_disassemble.
          NULL

ASSUME DasmAssumption ==
  /\ AddrSpace \in Nat \ {0}
  /\ IntMax \in Nat /\ IntMax >= 2 * AddrSpace
  /\ \E k \in 1..CountSpace : CountSpace = k * (2 * (IntMax + 1))
  /\ Memories \subseteq [0..(AddrSpace - 1) -> 0..255]
  /\ Sizes \subseteq Nat
  /\ Orgs \subseteq 0..(AddrSpace - 1)

Addr == 0..(AddrSpace - 1)

VARIABLES memory,  \* What the host holds.
          args,    \* The program_size and org_addr of the last disassembly.
          call,    \* NULL, or the locals of the one in progress.
          dasm     \* NULL, or the disassembly it returned.

vars == <<memory, args, call, dasm>>

\* One adc_8080_dasm_op: its def by the opcode, and where it was found.
Op == [code : 0..255, addr : Addr, index : Nat]

\* The locals; loop is the loop the call is in.
Locals == [loop : {"count", "fill"}, addr : Addr, num_ops : Nat, ops : Seq(Op)]

Init == /\ memory \in Memories
        /\ args \in [program_size : Sizes, org_addr : Orgs]
        /\ call = NULL
        /\ dasm = NULL

-----------------------------------------------------------------------------
(* adc_8080_dasm_disassemble.                                               *)

end_addr == (args.program_size + args.org_addr) % AddrSpace

\* addr += size, in a uint16_t.
Advance(addr) == (addr + size(memory[addr])) % AddrSpace

\* The condition of both loops.
\* slip: an instruction that crosses the end is not noticed.
MoreUnequal(addr) == addr # end_addr
More(addr) == addr < end_addr

\* mem is the memory, or NULL: then it returns at once.
adc_8080_dasm_disassemble(mem, program_size, org_addr) ==
  /\ call = NULL
  /\ dasm = NULL
  /\ args' = [program_size |-> program_size, org_addr |-> org_addr]
  /\ call' = IF mem = NULL THEN NULL
             ELSE [loop |-> "count", addr |-> org_addr, num_ops |-> 0, ops |-> <<>>]
  /\ UNCHANGED <<memory, dasm>>

Count == /\ call # NULL
         /\ call.loop = "count"
         /\ More(call.addr)
         /\ call' = [call EXCEPT !.addr = Advance(@),
                                 !.num_ops = (@ + 1) % CountSpace]
         /\ UNCHANGED <<memory, args, dasm>>

\* The first malloc, for num_ops ops: NULL, or the fill loop starts over.
\* slip: from where the count ended.
AllocOpsNoRestart ==
  /\ call # NULL
  /\ call.loop = "count"
  /\ ~More(call.addr)
  /\ call' \in {NULL, [call EXCEPT !.loop = "fill"]}
  /\ UNCHANGED <<memory, args, dasm>>
AllocOps ==
  /\ call # NULL
  /\ call.loop = "count"
  /\ ~More(call.addr)
  /\ call' \in {NULL, [call EXCEPT !.loop = "fill", !.addr = args.org_addr]}
  /\ UNCHANGED <<memory, args, dasm>>

OpAt(addr, i) == [code |-> memory[addr], addr |-> addr, index |-> i]

FillOne == call' = [call EXCEPT !.addr = Advance(@),
                                !.ops = Append(@, OpAt(call.addr, Len(@)))]

\* slip: one op more.
FillThrough == /\ call # NULL
               /\ call.loop = "fill"
               /\ call.addr <= end_addr
               /\ FillOne
               /\ UNCHANGED <<memory, args, dasm>>
Fill == /\ call # NULL
        /\ call.loop = "fill"
        /\ More(call.addr)
        /\ FillOne
        /\ UNCHANGED <<memory, args, dasm>>

\* The second malloc; when it fails the ops are lost with the locals.
AllocDasm ==
  /\ call # NULL
  /\ call.loop = "fill"
  /\ ~More(call.addr)
  /\ dasm' \in {NULL, [num_ops |-> call.num_ops, ops |-> call.ops]}
  /\ call' = NULL
  /\ UNCHANGED <<memory, args>>

\* Of a disassembly only: the code reads through *dasm before it frees it.
adc_8080_dasm_free == /\ dasm # NULL
                      /\ dasm' = NULL
                      /\ UNCHANGED <<memory, args, call>>

Loops == Count \/ AllocOps \/ Fill \/ AllocDasm

Next == \/ \E mem \in {memory, NULL}, program_size \in Sizes, org_addr \in Orgs :
             adc_8080_dasm_disassemble(mem, program_size, org_addr)
        \/ Loops
        \/ adc_8080_dasm_free

Spec == Init /\ [][Next]_vars

\* A call goes on; when the host makes or frees one is up to the host.
FairSpec == Spec /\ WF_vars(Loops)

-----------------------------------------------------------------------------
(* Looking up.  These calls change nothing; d is a disassembly or NULL.     *)

\* slip: the wrong way around.
compareopsReversed(addr, op) ==
  IF addr < op.addr THEN 1 ELSE IF addr = op.addr THEN 0 ELSE -1
compareops(addr, op) ==
  IF addr < op.addr THEN -1 ELSE IF addr = op.addr THEN 0 ELSE 1

\* bsearch of the C library: the position of a match in ops, or 0.  A part is
\* what lies between two positions.
bsearch(addr, ops) ==
  LET look[part \in (0..Len(ops)) \X (0..Len(ops))] ==
        LET mid == (part[1] + part[2]) \div 2
            c == compareops(addr, ops[mid + 1])
        IN IF part[1] >= part[2] THEN 0
           ELSE IF c = 0 THEN mid + 1
           ELSE IF c < 0 THEN look[<<part[1], mid>>]
           ELSE look[<<mid + 1, part[2]>>]
  IN look[<<0, Len(ops)>>]

\* s_op_notfound; its size of 0 is what the macro tests.
op_notfound == [code |-> 0, addr |-> 0, index |-> 0, size |-> 0]

\* ADC_8080_DASM_OP_NOTFOUND
NotFound(op) == op = op_notfound

adc_8080_dasm_find(d, addr) ==
  IF d = NULL THEN op_notfound
  ELSE LET k == bsearch(addr, d.ops)
       IN IF k = 0 THEN op_notfound ELSE d.ops[k]

\* slip: rounded up.
HalfUp(num_lines) == (num_lines + 1) \div 2
Half(num_lines) == num_lines \div 2

\* An int or a size_t converted to a size_t, and a size_t to an int.
ToSize(i) == i % CountSpace
ToInt(c) == ((c + IntMax + 1) % (2 * (IntMax + 1))) - (IntMax + 1)

\* What the call writes to dst from its first entry on, and what it returns.
\* The sum and the difference are of size_t, as is the comparison with num_ops.
adc_8080_dasm_list(d, num_lines, addr) ==
  LET op == adc_8080_dasm_find(d, addr) IN
  IF NotFound(op) THEN [dst |-> <<>>, returned |-> 0]
  ELSE LET low == ToInt(ToSize(op.index - Half(num_lines)))
           high == ToInt(ToSize(op.index + Half(num_lines)))
           imin == IF low < 0 THEN 0 ELSE low
           imax == IF ToSize(high) >= d.num_ops THEN ToInt(d.num_ops - 1) ELSE high
       IN [dst |-> SubSeq(d.ops, imin + 1, imax + 1), returned |-> imax - imin]

-----------------------------------------------------------------------------
(* Properties.                                                              *)

\* The bytes of the program.
Program == args.org_addr..(args.org_addr + args.program_size - 1)

\* Where the instructions of the program begin: at its origin, and behind each
\* other as long as there is program.
Begins(starts) ==
  /\ args.program_size > 0 => args.org_addr \in starts
  /\ \A a \in starts : LET next == a + size(memory[a])
                       IN next \in Program => next \in starts

\* Neither the program nor an instruction of it reaches the end of the address
\* space, where the addresses of the loops wrap.
Fits ==
  /\ args.org_addr + args.program_size < AddrSpace
  /\ \E starts \in SUBSET Program :
       Begins(starts) /\ \A a \in starts : a + size(memory[a]) < AddrSpace

\* Every member is of its type, and the fill loop never writes behind the
\* array: it makes no more ops than were counted, wherever addresses wrap.
TypeOK == /\ memory \in Memories
          /\ args \in [program_size : Sizes, org_addr : Orgs]
          /\ call # NULL => /\ call \in Locals
                            /\ call.loop = "fill" => Len(call.ops) <= call.num_ops
          /\ dasm # NULL => /\ dasm.ops \in Seq(Op)
                            /\ dasm.num_ops = Len(dasm.ops)

Covers(op, a) == op.addr <= a /\ a < op.addr + size(op.code)

\* A disassembly is its program: every op lies in the program, no two ops
\* overlap and they are in the order of their addresses, and every byte of the
\* program belongs to one.
ListingIsProgram ==
  dasm # NULL /\ Fits =>
    /\ \A k \in 1..Len(dasm.ops) :
         /\ dasm.ops[k].addr \in Program
         /\ dasm.ops[k].code = memory[dasm.ops[k].addr]
         /\ dasm.ops[k].index = k - 1
    /\ \A j, k \in 1..Len(dasm.ops) :
         j < k => dasm.ops[j].addr + size(dasm.ops[j].code) <= dasm.ops[k].addr
    /\ \A a \in Program : \E k \in 1..Len(dasm.ops) : Covers(dasm.ops[k], a)

\* adc_8080_dasm_find finds the op at an address when there is one, and says
\* that there is none only then.
FindExact ==
  Fits => \A addr \in Addr :
    LET op == adc_8080_dasm_find(dasm, addr)
        there == IF dasm = NULL THEN {}
                 ELSE {k \in 1..Len(dasm.ops) : dasm.ops[k].addr = addr}
    IN IF there = {} THEN NotFound(op) ELSE \E k \in there : op = dasm.ops[k]

\* The number of lines a host asks for, up to more than there can be ops.
Lines == 0..(AddrSpace + 1)

\* adc_8080_dasm_list gives ops around the one at the address, in the order of
\* the program: all that are nearer than half the number of lines, and none
\* that is further.  For an odd number that is "num_lines/2 ops before and
\* after"; for an even one the ops at num_lines/2 are one too many, see ListAsSaid.
ListAround ==
  dasm # NULL /\ Fits => \A addr \in Addr, num_lines \in Lines :
    LET op == adc_8080_dasm_find(dasm, addr)
        dst == adc_8080_dasm_list(dasm, num_lines, addr).dst
        near(h) == {k \in 1..Len(dasm.ops) :
                      ~NotFound(op) /\ dasm.ops[k].index - op.index \in -h..h}
        shown == {dst[i] : i \in 1..Len(dst)}
    IN /\ {dasm.ops[k] : k \in near((num_lines - 1) \div 2)} \subseteq shown
       /\ shown \subseteq {dasm.ops[k] : k \in near(num_lines \div 2)}
       /\ \A i, j \in 1..Len(dst) : i < j => dst[i].addr < dst[j].addr

\* Both loops end on a program that fits, whatever its bytes are.
DisassembleReturns == (call # NULL /\ Fits) ~> call = NULL

-----------------------------------------------------------------------------
(* What the header says of the disassembler and it does not do.             *)

\* adc_8080_dasm_list: "List n disassembled ops around the given address", into
\* a buffer of n.
ListFits(num_lines, listed) == Len(listed.dst) <= num_lines

\* adc_8080_dasm_list: "Returns the number of ops filled into the dst buffer."
ListCounts(listed) == listed.returned = Len(listed.dst)

\* Both, of every listing of two lines or more with an op before and behind the
\* one at the address.
ListAsSaid ==
  dasm # NULL =>
    \A addr \in Addr, num_lines \in Lines \ {0, 1} :
      LET op == adc_8080_dasm_find(dasm, addr)
          listed == adc_8080_dasm_list(dasm, num_lines, addr)
      IN ~NotFound(op) /\ op.index \in 1..(Len(dasm.ops) - 2)
           => ListFits(num_lines, listed) /\ ListCounts(listed)
=============================================================================
