------------------------------ MODULE MCSched ------------------------------
(* Small instances of Sched; the constants are given in the .cfg files.    *)
EXTENDS Sched
=============================================================================
