------------------------------- MODULE MCIde -------------------------------
(* Two polls before a timeout, two sectors a call, a disk of three.        *)
EXTENDS Ide
=============================================================================
