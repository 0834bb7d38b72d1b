------------------------------ MODULE MCTimer ------------------------------
(* A 16-tick counter with 2 ms to the tick; the constants are given in the *)
(* .cfg files.                                                             *)
EXTENDS Timer
=============================================================================
