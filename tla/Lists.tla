------------------------------- MODULE Lists -------------------------------
(* The three operations on lists that Heap and Fat32 need, as in the       *)
(* community module SequencesExt.  That module also brings in Bags, whose  *)
(* definitions multiply the time the provers take for every step.          *)
EXTENDS Sequences, FiniteSetsExt

(* The first index of seq whose element passes Test, or 0.                 *)
SelectInSeq(seq, Test(_)) ==
  LET I == {i \in 1 .. Len(seq) : Test(seq[i])} IN IF I # {} THEN Min(I) ELSE 0

InsertAt(s, i, e) == SubSeq(s, 1, i - 1) \o <<e>> \o SubSeq(s, i, Len(s))
RemoveAt(s, i) == SubSeq(s, 1, i - 1) \o SubSeq(s, i + 1, Len(s))
=============================================================================
