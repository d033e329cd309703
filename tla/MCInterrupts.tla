----------------------------- MODULE MCInterrupts -----------------------------
(***************************************************************************)
(* Cpu8080 running a small program with an interrupt service routine, for  *)
(* TLC: every interleaving of the program with requests and restarts.      *)
(*                                                                         *)
(*  08  PUSH PSW; IN 0; ORA A; POP PSW; EI; RET          the service       *)
(*  10  EI                                               the entry         *)
(*  11  DI; LDA 30; CMA; STA 30; STA 31; ORA A; JZ 26    the loop          *)
(*  21  EI; HLT; JMP 11                                                    *)
(*  26  EI; JMP 11                                                         *)
(*  30  two bytes the program keeps equal whenever the service may look    *)
(***************************************************************************)
EXTENDS Cpu8080, SequencesExt

MCMemSize == 64

Code(a) ==
  CASE a \in 8..14 -> <<245, 219, 0, 183, 241, 251, 201>>[a - 7]
    [] a \in 16..40 ->
         <<251, 243, 58, 48, 0, 47, 50, 48, 0, 50, 49, 0, 183, 202, 38, 0, 0,
           251, 118, 195, 17, 0, 251, 195, 17>>[a - 15]
    [] OTHER -> 0

MCImage == [a \in 0..(MCMemSize - 1) |-> Code(a)]
MCEntry == 16
MCRequestOps == {0, 207}        \* NOP and RST 1
MCDeviceBytes == {0, 128}

\* The program, its two bytes and the four bytes of stack it uses, below 0,
\* have cells of their own.  The rest of memory is the host's.
ASSUME ProgramAssumption ==
  /\ MemSize > 49
  /\ \A a \in 0..49 : Image[a] = Code(a)
  /\ \A s \in 65532..65535 :
       Cell(s) > 49 /\ \A t \in 65532..65535 : Cell(s) = Cell(t) => s = t
  /\ Entry = MCEntry
  /\ RequestOps \subseteq MCRequestOps

RET == 201

\* The interrupted programs the service has still to return to, innermost
\* last, with the registers, flags, pc and sp each was stopped with.
VARIABLE frames

mcvars == <<cpu, executing, handed, returned, frames>>

Frame(m) == [reg |-> m.reg, cf |-> m.cf, pc |-> m.pc, sp |-> m.sp]

MCInit == Init /\ frames = <<>>

MCNext == \/ /\ Acknowledge
             /\ frames' = IF cpu.interrupt_opcode = 0 THEN frames
                          ELSE Append(frames, Frame(cpu))
          \/ /\ Execute
             /\ frames' = IF executing = RET /\ frames # <<>>
                          THEN Front(frames) ELSE frames
          \/ (Fetch \/ Idle \/ Interrupt) /\ UNCHANGED frames
          \/ Reset /\ frames' = <<>>

MCSpec == MCInit /\ [][MCNext]_mcvars
                 /\ WF_mcvars(MCNext /\ Step)

\* The memory the host hands to the first adc_8080_cpu_init happens to be
\* clear, so inte is set by an EI or not at all.
ClearSpec == MCSpec /\ ~cpu.inte

-----------------------------------------------------------------------------
\* A service routine that ends in EI, RET is never interrupted itself: the
\* delay after EI covers the RET, so the stack of interrupted programs holds
\* one frame however fast requests come.
NestingBounded == Len(frames) <= 1

\* An interrupt is transparent: the RET of the service gives the program back
\* its registers, flags, pc and sp, whatever the service did with them.
Transparent ==
  [][executing = RET /\ executing' = NoOp /\ frames # <<>>
       => Frame(cpu') = Last(frames)]_mcvars

\* The service never sees the program between the two stores it makes with
\* interrupts disabled.
CriticalSectionKept ==
  frames # <<>> => cpu.mem[48] = cpu.mem[49]

\* The program enables interrupts again and again, and so does the service:
\* no request waits for ever.
RequestsServed == cpu.interrupt_pending ~> ~cpu.interrupt_pending
=============================================================================
