---------------------------- MODULE DasmTable8080 ----------------------------
(***************************************************************************)
(* s_dasm_lut of adc_8080_dasm.c: for every opcode its size in bytes and   *)
(* the condition bits it is said to affect.  It is written independently   *)
(* of the cpu's decoder, so the two can be held against each other.        *)
(***************************************************************************)
EXTENDS Integers

Quarter(from, columns) == {op \in from..(from + 63) : op % 16 \in columns}

TwoBytes == Quarter(0, {6, 14}) \cup Quarter(192, {6, 14}) \cup {211, 219}
ThreeBytes == Quarter(0, {1}) \cup {34, 42, 50, 58}
                \cup Quarter(192, {2, 10, 4, 12})
                \cup {195, 203, 205, 221, 237, 253}

size(op) == IF op \in TwoBytes THEN 2 ELSE IF op \in ThreeBytes THEN 3 ELSE 1

CY == {"c"}
SZACP == {"s", "z", "a", "p"}
ALL == CY \cup SZACP

condbits_affected(op) ==
  CASE op \in Quarter(0, {9}) \cup {7, 15, 23, 31, 55} -> CY
    [] op \in Quarter(0, {4, 5, 12, 13}) -> SZACP
    [] op \in 128..191 \cup Quarter(192, {6, 14}) -> ALL
    [] OTHER -> {}
=============================================================================
