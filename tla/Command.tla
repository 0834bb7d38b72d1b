------------------------------ MODULE Command ------------------------------
(***************************************************************************)
(* What the kernel makes of a command line: parse_command_line (args.c),   *)
(* the arguments a program can ask for (GET_ARGS), and the way from the    *)
(* typed name to a directory entry (execute_command and EXEC, and the 8.3  *)
(* conversions of fat32.c).  Strings are sequences of characters.          *)
(***************************************************************************)
EXTENDS Characters, Integers, Sequences, FiniteSetsExt

CONSTANTS
  MAX_ARGS, MAX_ARG_LEN,   \* 16 and 64
  BASE, EXT,               \* the lengths of an 8.3 name's two parts
  UPPER                    \* lower-case letters to upper-case ones

ASSUME CommandAssumption ==
  /\ MAX_ARGS \in Nat /\ MAX_ARG_LEN \in Nat \ {0, 1}
  /\ BASE \in Nat \ {0} /\ EXT \in Nat \ {0}
  /\ \A c \in DOMAIN UPPER : {c, UPPER[c]} \cap {SP, DOT} = {}

(* Skip spaces from i on; the end of a word from i on, which is also where *)
(* its buffer is full.                                                     *)
SkipSpaces(line, i) ==
  Min({j \in i .. Len(line) + 1 : j > Len(line) \/ line[j] # SP})

WordEnd_OneShort(line, i) ==
  Min({j \in i .. Len(line) + 1 :
         j > Len(line) \/ line[j] = SP \/ j - i >= MAX_ARG_LEN - 2})
WordEnd(line, i) ==
  Min({j \in i .. Len(line) + 1 :
         j > Len(line) \/ line[j] = SP \/ j - i >= MAX_ARG_LEN - 1})

(* The end of the program's name, and of each argument the loop finds; at  *)
(* the end of the line the scan stays where it is.                         *)
ScanAfter(line) ==
  LET after[k \in 0 .. MAX_ARGS] ==
        WordEnd(line, SkipSpaces(line, IF k = 0 THEN 1 ELSE after[k - 1]))
  IN  after

parse_command_line(line) ==
  LET after == ScanAfter(line)
      from(k) == SkipSpaces(line, after[k - 1])
      count == Cardinality({k \in 1 .. MAX_ARGS : from(k) <= Len(line)})
  IN  [program |-> SubSeq(line, SkipSpaces(line, 1), after[0] - 1),
       args |-> [k \in 1 .. count |-> SubSeq(line, from(k), after[k] - 1)]]

(* GET_ARGS: index -1 asks for their number; any other for an argument,    *)
(* cut to the caller's buffer, or -1.                                      *)
get_arg(args, k, size) ==
  CASE k = -1 -> Len(args)
    [] k # -1 /\ (size = 0 \/ k < 0 \/ k >= Len(args)) -> -1
    [] OTHER -> SubSeq(args[k + 1], 1, Min({Len(args[k + 1]), size - 1}))
-----------------------------------------------------------------------------
(* char filename[12]: at most 11 characters of the name, in upper case.    *)
KEPT == BASE + EXT
Upper(c) == IF c \in DOMAIN UPPER THEN UPPER[c] ELSE c
filename(program) == [i \in 1 .. Min({Len(program), KEPT}) |-> Upper(program[i])]

(* From a string to the name field of a directory entry: up to BASE        *)
(* characters before the first dot and EXT after it, padded with spaces.   *)
FirstDot(s) == Min({i \in 1 .. Len(s) + 1 : i > Len(s) \/ s[i] = DOT})
fat32_string_to_name_ShortBase(s) ==
  [i \in 1 .. BASE + EXT |->
     LET j == IF i <= BASE THEN i ELSE FirstDot(s) + i - BASE
     IN  IF j <= Len(s) /\ (i <= BASE => i < Min({BASE, FirstDot(s)})) THEN s[j] ELSE SP]
fat32_string_to_name(s) ==
  [i \in 1 .. BASE + EXT |->
     LET j == IF i <= BASE THEN i ELSE FirstDot(s) + i - BASE
     IN  IF j <= Len(s) /\ (i <= BASE => i < FirstDot(s)) THEN s[j] ELSE SP]

(* And back, for listings.                                                 *)
UntilSpace(n, from, to) ==
  SubSeq(n, from, Min({i \in from .. to + 1 : i > to \/ n[i] = SP}) - 1)
fat32_name_to_string(n) ==
  UntilSpace(n, 1, BASE)
    \o (IF n[BASE + 1] # SP THEN <<DOT>> \o UntilSpace(n, BASE + 1, BASE + EXT)
        ELSE <<>>)
-----------------------------------------------------------------------------
(* Reference definitions.  The words of a line are its longest runs of     *)
(* characters other than the space.                                        *)
Starts(line) == {i \in 1 .. Len(line) : line[i] # SP /\ (i > 1 => line[i - 1] = SP)}
EndOf(line, i) == Min({j \in i .. Len(line) : j < Len(line) => line[j + 1] = SP})
Start(line, k) ==
  CHOOSE i \in Starts(line) : Cardinality({j \in Starts(line) : j <= i}) = k
Words(line) ==
  [k \in 1 .. Cardinality(Starts(line)) |->
     SubSeq(line, Start(line, k), EndOf(line, Start(line, k)))]

(* A name a listing could show: BASE.EXT or BASE, neither part empty.      *)
Is83(s) ==
  /\ FirstDot(s) \in 2 .. BASE + 1
  /\ FirstDot(s) <= Len(s) =>
       /\ Len(s) - FirstDot(s) \in 1 .. EXT
       /\ \A i \in FirstDot(s) + 1 .. Len(s) : s[i] # DOT
=============================================================================
