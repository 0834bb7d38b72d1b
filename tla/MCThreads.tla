---------------------------- MODULE MCThreads ------------------------------
(* Small instances of Threads; the constants are given in the .cfg file.   *)
EXTENDS Threads
=============================================================================
