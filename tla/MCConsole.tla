----------------------------- MODULE MCConsole -----------------------------
(* A screen of 3 rows of 4 columns and 2.1 names over one letter: a line   *)
(* wraps and scrolls, "aa.a" is a full name, and "a.a" names no file.       *)
EXTENDS Console

MCGlyphs == {"a", "A", DOT, ">", "m", SP, DEL}
MCPrompt == <<">">>
MCClear == <<DOT>>
MCExit == <<DOT, DOT>>
MCUpper == [c \in {"a"} |-> "A"]
MCKeyChars == {"a", DOT, SP, HT}
MCDirectory == {<<"A", SP, SP>>, <<"A", "A", SP>>, <<"A", "A", "A">>}
MCShell == <<"A", "A", SP>>
MCOutputs == {<<>>, <<"m">>}
=============================================================================
