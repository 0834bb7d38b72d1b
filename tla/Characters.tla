---------------------------- MODULE Characters ----------------------------
(* The characters that the screen, the editors and the parsers single out. *)
NL == "\n"
CR == "\r"
BS == "BS"
HT == "\t"
SP == " "
DOT == "."
DEL == "DEL"
=============================================================================
