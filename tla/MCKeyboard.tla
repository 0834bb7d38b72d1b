---------------------------- MODULE MCKeyboard ----------------------------
(* A small instance of Keyboard: a ring of two characters, a letter and    *)
(* both shift keys, and a terminal that sends CR and NUL.                  *)
EXTENDS Keyboard

FewKeys  == {"a"} \cup ShiftKeys
TwoBytes == {"cr", NUL}
=============================================================================
