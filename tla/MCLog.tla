-------------------------------- MODULE MCLog --------------------------------
(***************************************************************************)
(* Log for TLC: two threads, two files, two levels and a table of two.     *)
(***************************************************************************)
EXTENDS Log
=============================================================================
