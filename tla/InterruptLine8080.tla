-------------------------- MODULE InterruptLine8080 --------------------------
(***************************************************************************)
(* What adc_8080_cpu promises the host about interrupts, without registers,*)
(* memory or an instruction set: the three conditions of the comment in    *)
(* adc_8080_cpu_step, the one-instruction shadow of EI and the halt state. *)
(* Cpu8080 is shown to implement it.                                       *)
(***************************************************************************)
CONSTANTS Opcode,      \* All opcodes.
          EI, DI, HLT, \* The three, all different, that act on the line.
          None         \* No opcode, and not a member of Opcode.

VARIABLES request,  \* The opcode of the unserved request, or None.
          enabled,  \* The interrupt enable flip-flop.
          shadow,   \* The last instruction completed was EI.
          halted,   \* The cpu waits for an interrupt.
          running   \* The opcode begun and not completed, or None.

line == <<request, enabled, shadow, halted, running>>

TypeOK == /\ request \in Opcode \cup {None}
          /\ enabled \in BOOLEAN
          /\ shadow \in BOOLEAN
          /\ halted \in BOOLEAN
          /\ running \in Opcode \cup {None}

Init == /\ request = None
        /\ enabled \in BOOLEAN
        /\ shadow = FALSE
        /\ halted = FALSE
        /\ running = None

\* A request replaces the one before it, at any time.
Request == /\ request' \in Opcode
           /\ UNCHANGED <<enabled, shadow, halted, running>>

Recognisable == request # None /\ enabled /\ ~shadow

\* Between instructions a recognisable request always goes first.
Recognise == /\ running = None
             /\ Recognisable
             /\ running' = request
             /\ request' = None
             /\ enabled' = FALSE
             /\ halted' = FALSE
             /\ UNCHANGED shadow

Begin == /\ running = None
         /\ ~Recognisable
         /\ ~halted
         /\ running' \in Opcode
         /\ UNCHANGED <<request, enabled, shadow, halted>>

\* Only EI, DI and HLT leave a mark when they complete.
Complete == /\ running # None
            /\ running' = None
            /\ shadow' = (running = EI)
            /\ enabled' = ((enabled \/ running = EI) /\ running # DI)
            /\ halted' = (running = HLT)
            /\ UNCHANGED request

\* The host initialises the cpu again; the flip-flop keeps its value.
Reinit == /\ running = None
          /\ request' = None
          /\ shadow' = FALSE
          /\ halted' = FALSE
          /\ UNCHANGED <<enabled, running>>

Next == Request \/ Recognise \/ Begin \/ Complete \/ Reinit

Spec == Init /\ [][Next]_line
=============================================================================
