------------------------------- MODULE MCVector -------------------------------
(***************************************************************************)
(* Vector for TLC: items of two bytes, as many of them as make the buffer  *)
(* grow twice, by push, insert and reserve.                                *)
(***************************************************************************)
EXTENDS Vector, TLC

MCRequests == {5}
MCCounts == {-1, 1, 2}
MCSymmetry == Permutations(Item)

\* The call is written by a step and read by none: states are told apart by
\* the vector alone.  TLC still checks each step, with its call, that it makes.
MCView == vec
=============================================================================
