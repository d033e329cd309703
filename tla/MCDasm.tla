------------------------------- MODULE MCDasm -------------------------------
(***************************************************************************)
(* The disassembler over every memory of NOP, MVI B and JMP bytes.          *)
(***************************************************************************)
EXTENDS Dasm8080

MCMemories == [0..(AddrSpace - 1) -> {0, 6, 195}]

\* Nothing, one byte, a part, all but one byte, and the whole address space.
MCSizes == {0, 1, 3, AddrSpace - 1, AddrSpace}
MCOrgs == {0, 3}
=============================================================================
