------------------------------- MODULE Cpu8080 -------------------------------
(***************************************************************************)
(* adc_8080_cpu and the host that drives it: adc_8080_cpu_init, _step and  *)
(* _interrupt.                                                             *)
(*                                                                         *)
(* A call of adc_8080_cpu_step is two actions.  The first decides what to  *)
(* run (Acknowledge, Fetch or Idle), the second runs it (Execute).  The    *)
(* host's handlers are called in between and may call                      *)
(* adc_8080_cpu_interrupt, so Interrupt is possible at every point.        *)
(***************************************************************************)
EXTENDS Isa8080

CONSTANTS RequestOps,   \* Opcodes the host passes to adc_8080_cpu_interrupt.
          DeviceBytes,  \* Bytes the host's read_device handler returns.
          Entry,        \* The pc at which the host starts its program.
          Image         \* The memory the host loads before it starts.

ASSUME HostAssumption == /\ RequestOps \subseteq Byte
                         /\ DeviceBytes \subseteq Byte /\ DeviceBytes # {}
                         /\ Entry \in Word
                         /\ Image \in Memory

NoOp == 256             \* No opcode is being executed.

VARIABLES cpu,        \* The machine: the adc_8080_cpu and the host's memory.
          executing,  \* The opcode passed to exec_next, or NoOp.
          handed,     \* The pointer the last handler called was given.
          returned    \* What the last adc_8080_cpu_step returned.

vars == <<cpu, executing, handed, returned>>

\* The machine after adc_8080_cpu_init and the host's start-up: every member
\* is set but inte.
Initialised(inte) ==
  [reg |-> [r \in RegName |-> 0], cf |-> [f \in Flag |-> FALSE],
   pc |-> Entry, sp |-> 0, halted |-> FALSE, inte |-> inte,
   interrupt_pending |-> FALSE, interrupt_opcode |-> 0,
   interrupt_delay |-> FALSE, cycles |-> 0, mem |-> Image]

\* At first inte is an uninitialised bool.
Init == /\ \E inte \in BOOLEAN : cpu = Initialised(inte)
        /\ executing = NoOp
        /\ handed = "userdata"
        /\ returned = 0

\* The host initialises the same cpu again, between two steps.
Reset == /\ executing = NoOp
         /\ cpu' = Initialised(cpu.inte)
         /\ UNCHANGED <<executing, handed, returned>>

\* adc_8080_cpu_interrupt: a second request replaces the first.
Interrupt == \E op \in RequestOps :
  /\ cpu' = [cpu EXCEPT !.interrupt_pending = TRUE, !.interrupt_opcode = op]
  /\ UNCHANGED <<executing, handed, returned>>

-----------------------------------------------------------------------------
(* adc_8080_cpu_step.                                                       *)

\* slip: the delay is not looked at.
RecognisableInDelay(m) == m.interrupt_pending /\ m.inte
\* slip: the flip-flop is not looked at.
RecognisableDisabled(m) == m.interrupt_pending /\ ~m.interrupt_delay
\* slip: the halt state is looked at first.
RecognisableAwake(m) ==
  m.interrupt_pending /\ m.inte /\ ~m.interrupt_delay /\ ~m.halted
Recognisable(m) == m.interrupt_pending /\ m.inte /\ ~m.interrupt_delay

\* slip: the cpu stays halted.
AcknowledgeHalted ==
  /\ executing = NoOp
  /\ Recognisable(cpu)
  /\ executing' = cpu.interrupt_opcode
  /\ cpu' = [cpu EXCEPT !.interrupt_pending = FALSE, !.inte = FALSE]
  /\ UNCHANGED <<handed, returned>>

\* slip: the opcode is read after the request was cleared away.
AcknowledgeCleared ==
  /\ executing = NoOp
  /\ Recognisable(cpu)
  /\ cpu' = [cpu EXCEPT !.interrupt_pending = FALSE, !.interrupt_opcode = 0,
                        !.inte = FALSE, !.halted = FALSE]
  /\ executing' = cpu'.interrupt_opcode
  /\ UNCHANGED <<handed, returned>>

Acknowledge == /\ executing = NoOp
               /\ Recognisable(cpu)
               /\ executing' = cpu.interrupt_opcode
               /\ cpu' = [cpu EXCEPT !.interrupt_pending = FALSE,
                                     !.inte = FALSE, !.halted = FALSE]
               /\ UNCHANGED <<handed, returned>>

\* slip: a halted cpu goes on fetching.
FetchHalted == /\ executing = NoOp
               /\ ~Recognisable(cpu)
               /\ executing' = NextByte(cpu)
               /\ cpu' = SkipByte(cpu)
               /\ handed' = "userdata"
               /\ UNCHANGED returned

\* slip: an instruction may go before a recognisable request.
FetchFirst == /\ executing = NoOp
              /\ ~cpu.halted
              /\ executing' = NextByte(cpu)
              /\ cpu' = SkipByte(cpu)
              /\ handed' = "userdata"
              /\ UNCHANGED returned

Fetch == /\ executing = NoOp
         /\ ~Recognisable(cpu)
         /\ ~cpu.halted
         /\ executing' = NextByte(cpu)
         /\ cpu' = SkipByte(cpu)
         /\ handed' = "userdata"
         /\ UNCHANGED returned

Idle == /\ executing = NoOp
        /\ ~Recognisable(cpu)
        /\ cpu.halted
        /\ returned' = cpu.cycles
        /\ UNCHANGED <<cpu, executing, handed>>

\* The device handlers are given the cpu itself, the memory handlers its
\* userdata; an opcode that calls none counts as one that calls the latter, as
\* the fetch before it did.
HandlerArg(op) == IF op \in {IN_, OUT} THEN "cpu" ELSE "userdata"

Execute == /\ executing # NoOp
           /\ \E in \in DeviceBytes :
                LET m == exec_next(cpu, executing, in)
                IN /\ cpu' = [m EXCEPT !.cycles = 0]
                   /\ returned' = m.cycles
           /\ handed' = HandlerArg(executing)
           /\ executing' = NoOp

Step == Acknowledge \/ Fetch \/ Idle \/ Execute

Next == Step \/ Interrupt \/ Reset

Spec == Init /\ [][Next]_vars

\* The host calls adc_8080_cpu_step again and again, and a step returns.
FairSpec == Spec /\ WF_vars(Step)

-----------------------------------------------------------------------------
(* Properties.                                                              *)

\* Every member of the cpu stays within the type it has in adc_8080_cpu.h,
\* and between steps the cycle count is back to zero.
TypeOK == /\ cpu \in Machine
          /\ cpu.cycles = 0
          /\ executing \in Byte \cup {NoOp}
          /\ handed \in {"userdata", "cpu"}
          /\ returned \in Nat

\* The delay set by EI always ends: the cpu it is set on has interrupts
\* enabled and is not halted, so the next step runs an instruction, which
\* clears it.  An opcode is executed only by a cpu that is awake.
DelayEnds == /\ cpu.interrupt_delay => cpu.inte /\ ~cpu.halted
             /\ executing # NoOp => ~cpu.halted

\* A halted cpu stands still: until a recognisable interrupt is taken or the
\* host starts over, only the request itself may change.
HaltedIsFrozen ==
  [][cpu.halted =>
       \/ cpu' = [cpu EXCEPT !.interrupt_pending = cpu'.interrupt_pending,
                             !.interrupt_opcode = cpu'.interrupt_opcode]
       \/ Recognisable(cpu) /\ executing' = cpu.interrupt_opcode
       \/ cpu' = Initialised(cpu.inte)]_vars

\* A pending request is given up only to be executed: it leaves the cpu with
\* its own opcode as the next to run, with interrupts disabled and the cpu
\* awake, or with a host that starts over.
RequestNotDropped ==
  [][cpu.interrupt_pending /\ ~cpu'.interrupt_pending
       => \/ executing' = cpu.interrupt_opcode /\ ~cpu'.inte /\ ~cpu'.halted
          \/ cpu' = Initialised(cpu.inte)]_vars

\* HLT with interrupts enabled is left once a request arrives.
HaltWakes ==
  (cpu.halted /\ cpu.inte /\ cpu.interrupt_pending) ~> ~cpu.halted

\* The cpu implements the interrupt line it promises.
Line == INSTANCE InterruptLine8080
          WITH Opcode <- Byte, None <- NoOp,
               request <- IF cpu.interrupt_pending THEN cpu.interrupt_opcode
                          ELSE NoOp,
               enabled <- cpu.inte,
               shadow <- cpu.interrupt_delay,
               halted <- cpu.halted,
               running <- executing

LineSpec == Line!Spec

-----------------------------------------------------------------------------
(* What the sources say of the cpu and it does not do.                      *)

\* adc_8080_cpu_init: "Init the cpu state to all zero values."
ReinitClearsInte == [][Reset => ~cpu'.inte]_vars

\* adc_8080_cpu.h: "Custom user data for function handlers."
HandlersGetUserdata == handed = "userdata"
=============================================================================
