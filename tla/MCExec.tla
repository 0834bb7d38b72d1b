------------------------------ MODULE MCExec ------------------------------
(* Small instance of Exec: two programs of different sizes, an ELF file    *)
(* for another machine, a text file, a file larger than the load buffer    *)
(* and an empty one.                                                       *)
EXTENDS Exec

MCFiles == {"shell", "app", "arm", "text", "huge", "empty"}
MCFileSize == [f \in MCFiles |-> CASE f = "shell" -> 2 [] f = "app" -> 1
                                   [] f = "arm" -> 1   [] f = "text" -> 1
                                   [] f = "huge" -> 3  [] f = "empty" -> 0]
MCElf   == {"shell", "app", "arm"}
MCValid == {"shell", "app"}
=============================================================================
