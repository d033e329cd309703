# Verification of adc-libs

TLA+ models of the libraries in this repository, the TLC runs that check them on
small instances, and proofs checked by TLAPS that hold for every instance.

- [1. The system](#1-the-system): components, state, operations, hazards
- [2. The modules](#2-the-modules): which module models which code, and how
- [3. The runs](#3-the-runs): what is checked, with which bounds and fairness
- [4. What disagrees](#4-what-disagrees): documentation against code
- [5. The proofs](#5-the-proofs)
- [6. Not modelled](#6-not-modelled)
- [7. Plan](#7-plan)

Parse with SANY, check with `tlc -config X.cfg M`, prove with `tlapm M.tla`.
`PROJECT.json` lists the runs, maps every definition to the source lines it
translates, and lists the hazards of the code with the properties aimed at them.

## 1. The system

Five independent C99 libraries. Nothing is shared between them; the cpu and the
disassembler describe the same instruction set twice, by hand.

### adc_8080_cpu: an Intel 8080 emulator

State: the struct `adc_8080_cpu`. Seven 8 bit registers, five condition bits,
16 bit `pc` and `sp`, the cycle count of the current instruction, and five
members for interrupts: `halted`, `inte` (the enable flip-flop),
`interrupt_pending`, `interrupt_opcode`, `interrupt_delay`. Memory and devices
belong to the host, behind four handlers.

Operations: `adc_8080_cpu_init`, `adc_8080_cpu_step` (recognise an interrupt, or
fetch, or idle when halted; then `exec_next`), `adc_8080_cpu_interrupt`,
`adc_8080_cpu_print`.

Interaction: the host steps in a loop. `exec_next` calls the host's handlers in
the middle of an instruction, and a handler may call `adc_8080_cpu_interrupt`.

Hard: a request may come at any point of any instruction, also in the shadow of
an EI, in a halt, or in a critical section. Recognition resets three members
before the opcode runs, and the delay after EI must be cleared by exactly the
next instruction. Beyond interrupts: wrap-around of 8 and 16 bit values, flags
computed by tricks (subtraction as addition of the complement, compare by a
negative 16 bit difference, decimal adjust).

Correct means: an interrupted program cannot tell; services do not nest without
bound; requests are neither dropped nor starved; a halted cpu stands still until
woken; DI protects; arithmetic is arithmetic.

### adc_8080_dasm: a disassembler

State: a constant table `s_dasm_lut`, and a disassembly (array of operations with
their addresses) per program. Operations: `disassemble`, `find` (binary search by
address), `list` (a window around an address), `op_to_string`, `free`.

Hard: addresses are `uint16_t` and the end of the program is one too, so both
wrap; one loop counts the operations and a second one, which must make the same
steps, fills the array; two allocations may fail; the window arithmetic mixes
`int` and `size_t`; the table duplicates the cpu's decoder.

Correct means: the table agrees with the cpu, a disassembly partitions the
program, `find` finds exactly the addresses in it, `list` fills what it says.

### adc_vector: a generic vector in macros

State: size and capacity in a header in front of the items. Operations: `push`,
`pop`, `reserve`, `insert`, `erase`, `erasen`, `free`, `size`, `capacity`,
`empty`. Hard: byte counts of `memmove`, growth, reallocation with the header.
Correct means: it behaves as the sequence its comments describe, whatever moves
and reallocations happen underneath, and what it holds fits.

### adc_log: a logger

State: one static `s_logger` (lock handler, level, table of callbacks), plus the
static result of `localtime` and the streams. Operations: `adc_log_set_level`,
`adc_log_set_lock_handler`, `adc_log_add_callback`, `adc_log_add_fp`, `adc__log`.
Interaction: several threads log; the lock is the program's, called through the
handler. Hard: a line takes three stdio calls; a message keeps a pointer to
the static time; every path has to unlock. Correct means: whole lines
with their own time, delivery to every output that wants the message, in order,
and a lock that is always given back.

### adc_argp: a command-line parser

State: the option table, the program's option variables, up to
`ADC_ARGP_MAX_ERRORS` recorded errors. Operations: `new_parser`, `parse`,
`print_errors`, `destroy_parser`. Hard: options at the end of the line without
their argument, arguments that look like options, values at the ends of the C
types and negative values for unsigned ones, the cap on errors, parsing again
with the same parser, booleans given as numbers. Correct means: the word-by-word
loop does what the whole line means, and every word it could make nothing of is
reported, once and in order, as long as there is room.

### The rest

The `*_test.c` files are the hosts and clients of the libraries; the models take
their environment from them. `greatest.h` is a vendored test framework and the
8080 programs under `roms/` are other people's diagnostics.

## 2. The modules

| Module | Models | EXTENDS or instantiates |
|---|---|---|
| `Machine8080` | registers, flags, memory, stack and operand helpers | |
| `Alu8080` | the arithmetic, logic, rotate, PSW and DAA helpers | `Machine8080` |
| `Isa8080` | `exec_next`: the 256 opcodes and their cycles | `Alu8080` |
| `Cpu8080` | init, step and interrupt, with the host's loop and handlers | `Isa8080` |
| `InterruptLine8080` | abstract: what the cpu promises about interrupts | |
| `DasmTable8080` | sizes and condition bits of the disassembler's table | |
| `Dasm8080` | the disassembler's loops, `find`, `list` and `free` | `DasmTable8080` |
| `Argp` | `adc_argp.c`, a word of the line per step | |
| `CommandLine` | abstract: what a parser of command lines promises | |
| `Vector` | `adc_vector.h` over a buffer of bytes | |
| `ItemSequence` | abstract: what `adc_vector.h` promises | |
| `Log` | `adc_log.h` with threads | |
| `MCInterrupts`, `MCSweep` | instances of the cpu for TLC | `Cpu8080`, `InterruptLine8080`; `Cpu8080`, `DasmTable8080` |
| `MCDasm`, `MCArgp`, `MCVector`, `MCLog` | instances of the others for TLC | the module named, and `CommandLine` by `MCArgp` |
| `*_proofs` | theorems | the module named, and TLAPS; `MCSweep_proofs` and `MCInterrupts_proofs` also `Cpu8080_proofs`, which is about `Alu8080` and `Isa8080` too; `Argp_proofs` `MCArgp` and `NatInduction` |
| `NatInduction` | lemmas: induction and recursion over the naturals | |

A definition marked `slip:` in a comment is not part of a model: it is a
plausible mistake in the definition below it, kept to show which property would
notice it. `PROJECT.json` pairs each with its property under "mutants".

### The cpu

`cpu` is one record with the members of the struct and the host's memory. A C
helper that updates the cpu in place is an operator from a machine to the machine
after it. `uint8_t` and `uint16_t` wrap as `% 256` and `% 65536`; C's unsigned
arithmetic before the wrap is exact in `Int`. Opcodes are decoded by their bit
fields where the switch spells out each case; the lengths, cycles and bodies are
those of the cases. Bitwise AND, OR and XOR are computed bit by bit from
weights, so that no `RECURSIVE` operator stands between the model and the prover.

A call of `adc_8080_cpu_step` is two actions: `Acknowledge`, `Fetch` or `Idle`
decides, `Execute` runs the opcode (`executing` is the opcode between the two).
`Interrupt` is enabled at every point, which covers a host that calls it between
steps and a handler that calls it inside one: the interrupt members are read only
before the handlers are called, and written in `exec_next` only by assignments
the request does not depend on. `handed` is the pointer the last handler
was given, and `returned` what the step returned. `inte` is uninitialised at
first, a nondeterministic Boolean, and `Reset` is a host that initialises the same
cpu again, as the test harness does for every program. The byte a device handler
returns is chosen from `DeviceBytes`; memory has `MemSize` cells, so that a small
instance still wraps.

`InterruptLine8080` forgets registers, memory and the instruction set: a
request, a flip-flop, a shadow, a halt state and the opcode running. `Cpu8080`
implements it with `request` the pending opcode or none, `shadow` the delay.

### The disassembler

An iteration of either loop of `adc_8080_dasm_disassemble` is a step (`Count`,
`Fill`), and so is the allocation that follows each (`AllocOps`, `AllocDasm`),
which may fail: a loop that does not end can be seen, and so can an op written
behind the array the first loop asked for. `call` is `NULL` or the locals, `dasm`
what was returned. `AddrSpace` is the number of values of a `uint16_t` and
`CountSpace` that of a `size_t`, some times those of an `int`; addresses and the
count wrap there. The memory and the arguments are arbitrary, so the end of a
program may wrap, an instruction may cross the end of the program, and the memory
may be `NULL`. `find` and `list` change nothing and are operators: the binary
search is a recursive function over the positions, and `list` gives both what it
writes to the buffer, from its first entry on, and what it returns. `ToSize` and
`ToInt` are the conversions between `int` and `size_t` that its sums, its
difference and its comparison go through.

A property that speaks of the bytes of a program has the precondition `Fits`:
neither the program nor one of its instructions, those from its origin on one
behind the other, reaches the end of the address space. What happens without it is
the code's: the whole address space at 0 disassembles to nothing, because the end
wraps to 0, and an instruction across 0xFFFF takes `addr` to 0,
below the end, and the loop over the program starts again; on a program full of
such bytes it never ends. `TypeOK`, that the fill loop stays in its array, is
claimed there too.

`ListAround` bounds a listing from both sides: it holds every op nearer than half
of `num_lines` and none that is further. For an odd number of lines that is exactly
the comment of the header; for an even one it leaves open the op at
`num_lines/2` that is one too many, which `ListFits` refuses. `ListAsSaid` joins
`ListFits` and `ListCounts`, and both fail: of two lines around the second of three
ops, all three are written and 2 is returned.

### The command-line parser

A word is a number of dashes and a text, which is all `find_opt` looks at. The
loop of `adc_argp_parse` is a step per option: `Unknown`, `Help` (which exits the
program), `Flag`, `Missing` (`ARGV_NEXT` at the end of the line, where the index
still moves by two) and `Given`. What `strtol`, `strtof` and `strtod` make of a
word is given by the constants `Number`, `strtof` and `strtod`; the clamping of
`strtol`, the wrap of `strtoul` and the order of the tests on their results are
the code's, with `IntMax`, `UintMax` and `LongMax` scaled down. So are the
details a reader would not expect: `INT_MAX` itself is refused (`>=`), a word
with a minus sign anywhere is no unsigned number, `parse_double` stores through a
`float` (adc_argp.c:396), and `parse_bool` overwrites the variable before it
refuses the argument.

`CommandLine` reads a line at once: which places of the line hold options, what
each variable's last good argument means, and which words get reported. Of the
return value it promises what the header does, that it is 0 only if the line had
no errors, and that it is their number as long as there is room for them and
no earlier line had any. Behind an earlier line's errors and above the cap it
promises no number, for there the code returns another (run `argp_again`). Nor
does it say whether a bool takes '1' and '0' (`Contested`), which the message for
an invalid bool says and the code does not do (run `argp_bool`), or how precise a
double is (`Means`). A bool that was refused an argument behind its last good one
may hold anything (`Spoilt`), since that is what the code leaves. The reports are
what `adc_argp_print_errors` prints, and are those since the parser was made:
only `adc_argp_destroy_parser` takes them away.

`Argp` implements it through `seen`, which shows of a parse in progress what the
program can see of it, nothing, until it returns. A line may be empty, that
is, have a null `argv[0]`: then the program's name stays what it was.

### The vector

`vec` is `NULL` or a record of size, capacity and the bytes of the buffer. Byte
`k` of an item `x` is `<<x, k>>`, so a half-moved item is visible; a byte nobody
wrote, or read from beyond the allocation, is `Junk`. `Contents` reads back the
items as `vec[i]` would, and is the refinement mapping to `ItemSequence`. The
caller's indices range from -1 beyond the end. `realloc` succeeds and `pop` is
called on a vector with items, because the code checks neither.

`call` is the macro called last, with its arguments and what it returned. It ties
the two modules together: an `erasen` of `n` items at `i` has to be the
`ItemSequence` action of that `i` and that `n`, an insert that of its index and
item, and `reserve` may not touch the items. `adc_vector_erase` has no action in
`ItemSequence`: it expands to `erasen(vec, i, 0)` and is seen as that; what its own
comment promises is `EraseDeletes`. Neither `Contents` nor `TypeOK`
can see a move that ends behind the allocation, since what it overwrites there
belongs to no vector: `InsertStaysInside` and `ErasenStaysInside` compare the end
of the bytes written or read with that of the allocation. `RelocatesItems` joins
the three, of a vector with room for one more item at most, where a few bytes too
many leave the allocation; all three fail of the vector the run finds.

### The logger

Each thread runs `adc__log` one visible call at a time: the handler (`Lock`,
`Unlock`), `init_msg` with `localtime` (`InitMsg`), and three calls of stdio per
line (`PutHead`, `PutBody`, `PutNewline`), which stdio makes atomic each. `tm` is
`localtime`'s one static result; the time is formatted from it when the head is
put. Callbacks are those of `adc_log_add_fp`, and a callback may have no handler,
which the loop skips; with the table full, `adc_log_add_callback` refuses and changes
nothing. The set-up functions run while nothing is logged, and
several threads log only with a lock handler installed: without either the code has data races
and nothing can be said.

## 3. The runs

| Run | Instance | Shows |
|---|---|---|
| `interrupts` | 64 bytes of memory, a program with a critical section, a halt and an interrupt service, requests of NOP and RST 1 at every point, restarts | types; the delay always ends; services never nest; DI protects the two stores; a halted cpu is frozen; requests are not dropped; RET gives back registers, flags, `pc` and `sp`; `InterruptLine8080` is implemented; halts are left; requests are served |
| `isa` | all 256 opcodes from 144 machines at the ends of the address space; DAA, and the operands of each ALU operation, on every accumulator with 106 operands and both carries | types; call and return, PUSH and POP PSW, XCHG and XTHL undo each other; ADD, ADC, SUB, SBB, CMP, INR and DCR against integers, AND, OR, XOR and the rotates against bits, DAA against decimals; the cpu goes to the next instruction of the disassembler's listing, also from a branch it does not take, and to the target from one it takes, and changes only condition bits the table lists; cycles depend on the branch |
| `dasm` | an address space of 7, every memory of NOP, MVI and JMP bytes (one, two and three bytes long), programs of 0, 1, 3, 6 and 7 bytes at 0 and 3, failing allocations | the fill loop stays in its array, wrapped or not; a listing is its program; `find` is exact; `list` gives the ops around an address; both loops end |
| `argp` | the table of `argp_test.c`, an empty one, and one with an option of each converted type; every line of up to two words (three for the flag, the string and an unknown option) and the empty one, at most two errors, several lines to a parser | types and the cap on errors; every error can be printed; `CommandLine` is implemented |
| `vector` | two items of two bytes, five items at most, capacities 4, 5 and 8, reserve of 5, every index from -1 to 5, `erasen` of -1, 0, 1 and 2 | what it holds fits; capacity doubles; `ItemSequence` is implemented, action by action |
| `log` | two threads, two files, levels 0 and 1, a table of two callbacks and a third refused | types; whole lines with their own time; delivery in order; the lock is given back |
| `reinit`, `userdata`, `dasm_list`, `argp_bool`, `argp_again`, `vector_moves` | the instances above; `reinit` from a cpu whose `inte` is 0 | the disagreements below |

Why the bounds are enough. *interrupts*: the program visits every combination of
flip-flop, delay and halt state, and a request can be outstanding in each; one
service routine suffices because services do not nest, which is itself checked.
*isa*: behaviour depends on the address only through wrap-around, and the
machines stand at 65534, 65535 and 0; for the ALU the accumulator is exhaustive,
and the operands are every packed decimal and the bytes at the edges of a nibble,
of the sign and of the range. *dasm*: the loops look at nothing of an
instruction but its length, and every pattern of lengths occurs; seven addresses
let an instruction cross the end of the program and the end of the address space,
and a program wrap. `IntMax` is 15, so that a sum of an index and a number of
lines is an `int`, and `CountSpace` 32: a difference below 0 is a large `size_t`
and a negative `int` again. Listings of up to 8 lines are asked for, more than
there are ops; more than `INT_MAX` of them are not. *argp*: no conversion depends on another option, so a table with one
option per type is enough, and a second line on the same parser shows what the
first leaves behind; widths of 7, 15 and 31 keep the ends of `int` and `unsigned`
inside those of `long`, and the words stand at each of them. One line can fill an
array of two errors, and three words or a second line overflow it. *vector*: size
5 exceeds the first capacity, so that a push, an insert and a reserve each cause a
growth; two bytes per item tell items from bytes; runs of 0, 1 and 2 items are
cut by the end of the vector or not. The run tells states apart by `vec` alone
(`VIEW`), since `call` is read by no step; every step, with its call, is still
checked. *log*: two threads make every race, two callbacks an order.

History variables live in the MC modules: `frames` in `MCInterrupts` records what
each acknowledged service has to return to.

Fairness. `WF(Step)` in `Cpu8080` is the host's loop (`8080_cpu_test.c`,
`while (!s_test_complete)`): the host calls `adc_8080_cpu_step` again and again,
and a step returns. It suffices for `HaltWakes` because the recognition is tested
before the halt state; `RequestsServed` further needs that the program enables
interrupts again and again, as the one in `MCInterrupts` does. Each thread
that is inside `adc__log` goes on, `WF(Inside(t))` in `Log`: scheduling is weakly fair and the
lock is not required to be fair, for what is claimed is that it is given back,
not that each thread gets it. `WF(Loops)` in `Dasm8080` is one thread in a
function that does not block: it goes on, and that both loops end is to be shown
of the bytes. Only `argp`, `argp_bool` and `argp_again` disable the deadlock
check: after `exit` there is no program.

`CondbitsAgree` leaves out DAA, CMC and POP PSW (`Unlisted`), which change flags
their entries in `s_dasm_lut` (adc_8080_dasm.c:242, 266 and 444) do not list,
although the column is for the "Condition bits affected by an operation."
(adc_8080_dasm.h:19).

## 4. What disagrees

| Run | Code | Documentation |
|---|---|---|
| `reinit` | `adc_8080_cpu_init` does not assign `inte` | "Init the cpu state to all zero values." (adc_8080_cpu.c:104) |
| `userdata` | IN and OUT pass the cpu, not its userdata | "Custom user data for function handlers." (adc_8080_cpu.h:44) |
| `dasm_list` | `adc_8080_dasm_list` returns one less than it fills in | "Returns the number of ops filled into the dst buffer." (adc_8080_dasm.h:84) |
| `dasm_list` | for an even `num_lines` it writes one op more, behind a buffer of `num_lines` | "List n disassembled ops around the given address." (adc_8080_dasm.h:77), and the `ops[16]` with 16 of 8080_dasm_test.c:47-48 |
| `argp_bool` | `parse_bool` compares an error code with 1 and 0 | "expected 'true', 'false', '1' or '0'" (adc_argp.c:238) |
| `argp_again` | a parser used again returns the errors of earlier lines too | "Returns the number of errors. Will be 0 if there were no errors." (adc_argp.h:57) |
| `vector_moves` | `adc_vector_erase` erases 0 items | "Delete item at index i." (adc_vector.h:110) |
| `vector_moves` | the byte count of insert takes items for bytes, and the move writes behind the allocation | "relocate all the items after i" (adc_vector.h:91) |
| `vector_moves` | the same of `erasen`, which reads behind it, and writes there when the vector is full | "relocate all the items after i" (adc_vector.h:118) |

## 5. The proofs

Everything below holds for every value of the constants, under the assumptions
the modules name: `MemSize` is a positive number, the program is a
memory image, request opcodes and device bytes are bytes, an item has at least
one byte, requested capacities are naturals, an `int` holds twice the
number of addresses and a `size_t` has some times its values, the C library's conversions say in range, over or under of a number
they find, an integer is negative only if its word has a minus sign, `IntMax` is
at most `LongMax` and `UintMax` at most `ULONG_MAX`, and there is a thread.
Theorems about the interrupted program also assume `ProgramAssumption`.

**Cpu.** `TypeCorrect` (`[]TypeOK`), `DelayAlwaysEnds` (`[]DelayEnds`),
`NoRequestDropped`, `HaltFreezes` (action properties) and `ImplementsLine`
(`Spec => LineSpec`, the refinement).

All rest on one idea. `Quiet(n, m)` says that `n` is a machine that
differs from the machine `m` in nothing the interrupt logic reads. `Cpu8080_proofs`
shows every helper and every arithmetic operation quiet, then
each quarter of the switch, one opcode family per step. Since
`Quiet` is transitive, `ExecNextOnTheLine` follows: whatever the opcode,
`exec_next` yields a machine, and acts on the interrupt members as EI, DI and HLT
do and otherwise only ends the delay. Each theorem about `Spec` then has one
step per action. `TypeOK` is inductive with no strengthening. `DelayEnds` is
proved inductive relative to `TypeOK`: its second conjunct, that an opcode is executed
only by a cpu that is awake, is what the first needs, because an EI executed by a
halted cpu would leave it halted with the delay set. The
refinement maps `Acknowledge` to `Recognise`, `Fetch` to `Begin`, `Execute` to
`Complete`, `Interrupt` to `Request`, `Reset` to `Reinit` and `Idle` to a
stutter; it needs the types of the opcodes to tell an opcode from none.

**Instructions.** `StackRoundTrip` (what is pushed is on top and dropping it
restores `sp`, wherever the stack wraps), `PswRestored` (POP PSW after PUSH PSW
restores every register and flag) and `CompareIsSubtract` (CMP, computed another
way, leaves the flags of SUB). The first two assume that the host keeps
neighbouring addresses in different cells, `CellsApart`: a host that does not
loses the byte itself. `FullMemoryCells` shows it for a byte per address, the
memory of `8080_cpu_test.c`; 32 cells, as in the run, do as well.

`MCSweep_proofs` proves every property of the run `isa`. There the machines are
two constants, `Samples` and `Operands`, of which nothing is assumed
(`SweepAssumption`) but that they are machines between two steps: the theorems
hold with all machines for both.

- `SweepTypes`: the sweep stays among machines.
- `CallsComeBack` (`CallsReturn`) and `PswComesBack` (`PswRoundTrip`), under
  `CellsApart`.
- `ArithmeticExact` (`ArithmeticIsExact`). `ResultIs` and `FlagsAre` give the
  flags of a result, with `CountBits` for the number of its one bits;
  `NibbleCarry` shows that the exclusive or the code takes of operands and result
  is the carry between the nibbles; `AddIs`, `SubIs`, `CmpIs` and `CountIs` follow.
- `LogicBitwise` (`LogicIsBitwise`), bit by bit, and `RotatesBack`.
- `DecimalAddition` (`DecimalAdjusts`): `Adjusted` is the case analysis, on the
  sum of the low digits with the carry and that of the high ones.
- `DecoderFollowsTheListing` (`LengthsAgree`, under `CellsApart` since a call
  leaves the next instruction's address in two cells): where every opcode goes,
  each branch taken and not taken; `DecoderKeepsTheFlags`
  (`CondbitsAgree`) and `CyclesAreExact` (`CyclesFollowTheBranch`). `Keeps(n, m,
  F)` says that `n` has the `pc`, the cycles and, but for those in `F`, the flags
  of `m`, and is as transitive as `Quiet`; `Follows` is what the table says of an
  instruction that does not branch. `LowFollows`, `MiddleFollows` and
  `OtherFollows` show it of three quarters of the switch; `BranchCosts`,
  `BranchIs` and `BranchLands` do the last one family by family, what a branch
  costs and where it lands, taken or not, and `BranchGoes` puts them together; and the lemmas on the tables
  (`LowTable`, `TopTable`, `BranchTable`) which row an opcode is in.

**The interrupted program.** `NestingIsBounded` (`[]NestingBounded`),
`CriticalSectionIsKept` (`[]CriticalSectionKept`) and `InterruptsAreTransparent`
(`Transparent`, an action property): the program of `MCInterrupts` cannot tell
that it is interrupted, whatever the device sends, whenever requests and restarts
come, and in every memory. `ProgramAssumption` says of the memory only that the
program's cells are as loaded and that the four bytes of stack below address 0
have cells of their own, which the run's 64 cells give as well as 65536 do; the
requests are NOP and RST 1.

None of the three is inductive: that the service is not interrupted depends on
the delay of its EI, on the RET being the next instruction, on memory
still holding it there, and so on the stack staying out of the program. `PInv`
adds all of that. `Kept` says that the program is where it was loaded
and that a pending request is one the host makes. `Somewhere` says that the
machine is at one of three kinds of place: at an instruction of the program
with nothing interrupted and `sp` 0 (`InLoop`), behind a request taken where the
program is open (`Taken`), or at an instruction of the service with one frame
waiting, its return address on the stack and what it saved still in the cpu or on
the stack (`InService`, `Saved`). Interrupts are enabled only where the program is
`Open`, in the shadow of its own two EIs, and between the EI and the RET of the
service, where the delay is set. Between the two stores, where the bytes differ,
the accumulator holds the byte the second one lacks. TLC was asked for `PInv`
first, on the instance of the run `interrupts`.

`LowBodies` to `OtherBodies` find the body of each opcode of the program in the
switch, and a lemma per kind of instruction (`SimpleEffects` to `RetEffects`) says
what it does to registers, flags, `pc`, `sp` and memory; `PushEffects` is where
stack and program are kept apart, and `PopPswEffects` where the flags come back
from their byte. `LoopGoesOn`, `TakenGoesOn` and `ServiceGoesOn` take each place to the
next, `FetchGoesOn`, `AcknowledgeGoesOn` and `StaysThere` are the other actions,
`ProgramRestarts` a restart, and `ProgramGoesOn` puts them together.
`ProgramIsARun` (`MCSpec => Spec`) gives the program everything proved of the cpu,
its types among them.

**Induction over data.** The induction theorems of the library take an operator
as a parameter, which the installed provers cannot instantiate. `NatInduction`
states what is needed of values: a predicate is the set of numbers that satisfy
it, a step of a recursion a function. `UpFrom` and `Descent` come from the least
element of a set of naturals (`NatMin`), and the lemma `RecursionExists` shows that a
function defined by recursion exists, so that one defined by `CHOOSE`, as every
recursive function is, satisfies its equation. The logger, the parser, the binary
search and the count on a wrapping program rest on it.

**Vector.** `HoldsWhatFits` (`[]TypeOK`) and `ReallocationsDouble`. `TypeOK` is
not inductive enough: `NewCapacity` doubles only if the old capacity is 0 or at
least 4, so `IInv` adds that an allocation has capacity 4 or more. One lemma per
helper (`ReallocType`, `AddgrowFits`, `StoreType`, `MemmoveType`, `InsertFits`,
`ErasenFits`), then one step per action in `StepGrows`.

`ImplementsSequence` is the refinement: `Spec =>
SequenceSpec`, for items of every size. A buffer `Represents` a sequence when
every byte of every slot is that of the item; `ContentsAre` reads the sequence
back, and `ItemsInv` says that the vector represents its contents. The bytes are
located by `ByteOfItem` and `SlotInBuffer`; `ReallocKeeps`, `StoreHolds` and
`MemmoveHolds` say which slots keep or take which items; one lemma per macro
(`PushAppends`, `PopTakesLast`, `InsertInserts`, `EraseDeletesRun`) puts them
together, and `StepKeepsPromise` maps each action to the action of `ItemSequence`
with the same arguments. `InsertInserts` also shows that the byte count insert uses, which
the run `vector_moves` finds too large, harms no item of the vector: the bytes it moves
too many lie behind the last item, in the buffer or beyond it. The theorem
assumes `NullIsNoVector`, that `NULL` is not itself a header: TLC's `NULL` is a
model value.

**Disassembler.** `DisassemblesTheProgram` (`[]ListingIsProgram`) and
`FillStaysInItsArray`, for every memory, origin and size, of programs that fit.
Neither the listing nor the count is inductive alone. The invariant says that
there is a path of instruction addresses from the origin, as long as the count
(`Counting`), that the fill loop is somewhere on the path that was counted
(`Filling`), and that the ops so far list the program up to the loop's address
(`Listed`). The path makes the two loops comparable without an induction over
it: `WalkOn` lengthens a path by one address and `ListOn` a listing by one op.
`Counting` also bounds the count by the distance gone, so that it cannot wrap.
`Ends` does the arithmetic of a program that fits, and `WalkBegins` shows that the
loops come by its instructions only: nothing in it wraps.

`CountIsExact` (`[]TypeOK`) has no such precondition: on every memory, also when
the program wraps, the fill loop makes exactly the ops the count loop asked for. A
loop that comes by an address twice never ends (`TourIsNoRound`), so one that
ended has come by each address at most once and its count, which is no larger
than the number of addresses, has not wrapped (`TourIsShort`).

`FindsTheOp` (`[]FindExact`) and `ListsAround` (`[]ListAround`) are about what is
computed from a disassembly. Of a program that fits the ops ascend
(`DisassemblyAscends`). `BsearchFinds` is an induction on the length of the
interval that is searched: a solution of the recursion exists, the search is one,
and each half of an ascending interval holds the address if the interval does
(`PlaceHalves`). `LinesAround` does the arithmetic of the window, with `ConvertsBack`: an `int` that
is made a `size_t` and an `int` again is itself, below 0 too.

**Command-line parser.** `ErrorsFit` (`[]TypeOK`) and `EveryErrorPrintable`
(`[]ErrorsPrintable`), for every table and every line, and whatever the library
makes of a word. `AddError` shows that `add_error` keeps a parser good when it is
told the option, `ConvertErrors` that a conversion reports none or one of the
errors about an argument, never the one about an unknown option; then one step
per action.

`ParserImplementsCommandLine` (`MCSpec => ParserSpec`) is the refinement. `Of(t,
s)` is `CommandLine` about a table `t` and a line `s`. `ConvertIs` shows of every
conversion what it takes, what it stores and what it leaves when it refuses: the
tests on the clamped or wrapped result of `strtol` and `strtoul` are those on the
number itself, because a `long` holds an `int` and an `unsigned` is no wider than an `unsigned
long`. `NamedIs` does so for `find_opt`, and `PlaceIs` and `UpToIs` turn the two
recursions of `CommandLine` into facts about each word. `Reading` is the
invariant of the loop: it stands where an option is expected, no option before
asked for help, each variable is spoilt or `Told`, that is, holds what the last
good argument before means, and the reports are those of the words before, cut
at `MaxErrors`. `Onward` says that from an option to the next nothing else is
read, `ToldOn` and `CutGrows` what that does to a variable and to the reports,
`ReadingOn` puts them together, and `UnknownReads`, `FlagReads`, `MissingReads`
and `GivenReads` show that each way through the loop body does just that. `RInv`
adds that the program sees the state of before the parse; with it a step of the
loop is a stutter, `Help` is `Exit`, and `Return` is `Parse` with no contested argument
taken, since the code refuses them all (`ReturnParses`, which also shows that a
parse that reported something returns more than 0).

**Logger.** `CallbacksFit` (`[]TypeOK`) and `LinesAreWhole` (`[]WholeLines`), for
any number of threads, streams and callbacks. `WholeLines` is not inductive: it
does not say who is writing. `Exclusion` says that the thread behind the lock is
the one the mutex names, or without a handler the only one in `adc__log`;
`Timing` that the static time is that of its message; `Pieces` that each stream
holds what its one writer has put there. `HolderStep` keeps the three for every
step behind the lock, and each action is a case of it, of taking the lock or of
giving it back.

`MessagesAreDelivered` (`[]DeliveredInOrder`) adds `Progress`: at each point of
`adc__log` a message has been sent to what the callbacks so far were to get of it.
That list is a recursive function of the number of callbacks, `WantedUpTo`, whose
equation `WantedUpToIs` derives; `WantedBegins` shows each list a prefix of
the next.

**Only model-checked.** The liveness properties `HaltWakes`, `RequestsServed`,
`LockIsReleased`, `DisassembleReturns`: liveness under fairness and ENABLED are
out of the prover's reach. Every other property of a passing run is a theorem.

## 6. Not modelled

- `adc_8080_cpu_print`, `adc_8080_dasm_op_to_string`, `adc_log_level_string`,
  `adc_argp_print_errors`, mnemonics and descriptions: wording.
- Data races: `adc_8080_cpu_interrupt` from another thread than the stepping one,
  set-up of the logger while another thread logs, a lock handler exchanged under a
  lock. The behaviour is undefined and the headers promise nothing.
- Callbacks of the logger other than `adc_log_add_fp`'s; one that logs deadlocks
  on a lock that is not recursive.
- Failure of `realloc`, `pop` on an empty vector: the code does not check.
- The bytes of a word on a command line, and what `strtol`, `strtof` and `strtod`
  read in them: library code, given by constants.
- `adc_argp_print_errors` and `adc_argp_print_help` beyond the assertions the
  first makes (`ErrorsPrintable`) and the `exit` after the second; a null `val` in
  an option table, which the code does not check.
- `greatest.h`, the tests and the 8080 programs: not the code under verification.

## 7. Plan

Done, in this order, the most important behaviour first: `Machine8080`,
`Alu8080`, `Isa8080`, `Cpu8080`, its abstraction `InterruptLine8080` and the
proofs; `DasmTable8080` against the cpu; `Vector` with `ItemSequence` and
proofs; `Log`; `Dasm8080` on `DasmTable8080`; `Argp` with `CommandLine`; the
proofs of these three, and that of the refinement of `ItemSequence`; the proofs
of what the sweep checks, of `find` and `list`, and of delivery; the proof that
an interrupt is transparent to the program of `MCInterrupts`.

What would come next: the composition of
`Dasm8080` and `Cpu8080`, that the listing of a program is where the cpu fetches
from as long as it does not branch, which `LengthsAgree` shows step by step; and
handlers of the program's own in `Log`, if the header ever says what they may
do.
