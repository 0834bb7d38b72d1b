------------------------------ MODULE Console ------------------------------
(***************************************************************************)
(* The two line editors, of the user shell (shell.c) and of the kernel's   *)
(* fallback shell (kernel.c), on the text screen, and what happens to a    *)
(* line when Enter is pressed.                                             *)
(*                                                                         *)
(* What is in a message is left out: it is one character and a newline.    *)
(* Whether a file that was found can be loaded is a free choice here;      *)
(* module Exec says when.  A shell started from the user shell is a        *)
(* program like any other.                                                 *)
(***************************************************************************)
EXTENDS Vga, Command

CONSTANTS
  Glyphs,            \* the characters that are shown, blank or not
  PROMPT,            \* "MagnOS> "
  CLEAR, EXIT,       \* the shell's own commands
  CMD_BUF,           \* sizeof(cmd_buf): 64
  KeyChars,          \* printable characters of the keyboard, and HT
  Directory,         \* the names in the root directory
  SHELL,             \* the name of the shell's file
  Outputs,           \* what a program may print before it exits
  MAX_BOOT_LINES,    \* bound: lines on the screen when the shell starts
  MAX_TABS           \* bound: tabs typed on a line

NoFile == <<>>

Chars == Glyphs \cup {NL, CR, BS, HT}

ASSUME ConsoleAssumption ==
  /\ CMD_BUF \in Nat \ {0} /\ CMD_BUF <= MAX_ARG_LEN
  /\ CMD_BUF - 1 <= (HEIGHT - 1) * WIDTH
  /\ Glyphs \cap {NL, CR, BS, HT} = {} /\ {SP, DOT, DEL, "m"} \subseteq Glyphs
  /\ PROMPT \in Seq(Glyphs) /\ KeyChars \subseteq Glyphs \cup {HT}
  /\ Outputs \subseteq Seq(Chars) /\ MAX_BOOT_LINES \in Nat

(* No program leaves the cursor before something it has printed.           *)
ASSUME OutputsAssumption ==
  \A text \in Outputs : \A i \in 1 .. Len(text) : text[i] \notin {BS, CR}

(* Names in the directory are padded with spaces and hold no dot.          *)
ASSUME DirectoryAssumption ==
  \A n \in Directory :
    /\ n \in [1 .. BASE + EXT -> Glyphs \ {DOT}] /\ n[1] # SP
    /\ \A i, j \in 1 .. BASE + EXT :
         i < j /\ (j <= BASE \/ i > BASE) /\ n[i] = SP => n[j] = SP

VARIABLES
  screen,
  editor,     \* who reads the line: the "shell" that boot started, the
              \* "kernel", or a "subshell" that the kernel shell started
  buf,        \* cmd_buf[0 .. cmd_pos - 1]
  running,    \* TRUE while a program the editor started runs
  home,       \* history: where the prompt ended on the screen
  tabs        \* history: tabs typed since the prompt

vars == <<screen, editor, buf, running, home, tabs>>

MESSAGE == <<"m", NL>>
EXIT_MESSAGE == <<NL>> \o MESSAGE

(* Print text, then the prompt, and start a new line.  What is above the   *)
(* prompt is never read again and is forgotten.                            *)
Forget(s) ==
  [s EXCEPT !.up = 0,
            !.cells = [i \in Cells |-> IF i + Len(PROMPT) < Pos(s) THEN SP ELSE @[i]]]
NewLine(s, text) ==
  /\ screen' = Forget(vga_puts(s, text \o PROMPT))
  /\ home' = Pos(screen')
  /\ buf' = <<>> /\ tabs' = 0

(* kernel_main: after its messages it runs "shell"; when that fails, and   *)
(* when it exits, the kernel shell says so and takes over.                 *)
StartShell(s, as) == NewLine(s, MESSAGE \o <<NL>> \o MESSAGE) /\ editor' = as
FallBack(s) == NewLine(s, MESSAGE) /\ editor' = "kernel"

Init ==
  /\ \E n \in 0 .. MAX_BOOT_LINES :
       screen = vga_puts(vga_clear(0), [i \in 1 .. 2 * n |-> MESSAGE[1 + ((i - 1) % 2)]])
  /\ editor = "boot" /\ running = FALSE
  /\ buf = <<>>
  /\ home = 0 /\ tabs = 0

(* What is searched for, and what is found.                                *)
SearchName(line) == fat32_string_to_name(filename(parse_command_line(line).program))
Found(line) == IF SearchName(line) \in Directory THEN SearchName(line) ELSE NoFile

Boot ==
  /\ editor = "boot"
  /\ \/ SHELL \in Directory /\ StartShell(screen, "shell")
     \/ FallBack(vga_puts(screen, MESSAGE))
  /\ UNCHANGED running
-----------------------------------------------------------------------------
Editing == editor # "boot" /\ ~running

(* GETCHAR turns a carriage return from the serial line into a newline;    *)
(* the kernel shell also turns DEL into a backspace.                       *)
Received(source, c) ==
  CASE source = "serial" /\ c = CR                        -> NL
    [] source = "serial" /\ c = DEL /\ editor = "kernel"  -> BS
    [] OTHER                                              -> c

ERASE == <<BS, SP, BS>>
EraseGuard_None == TRUE
EraseGuard == Len(buf) > 0
Erase ==
  /\ EraseGuard
  /\ buf' = SubSeq(buf, 1, Len(buf) - 1)
  /\ screen' = vga_puts(screen, ERASE)
  /\ UNCHANGED <<editor, running, home, tabs>>

Insert(c) ==
  /\ Len(buf) < CMD_BUF - 1
  /\ buf' = Append(buf, c)
  /\ screen' = vga_putchar(screen, c)
  /\ tabs' = tabs + (IF c = HT THEN 1 ELSE 0) /\ tabs' <= MAX_TABS
  /\ UNCHANGED <<editor, running, home>>

(* The arguments parsed from the line, until the next command.             *)
current_program_args == parse_command_line(buf).args

(* exec(cmd_buf), or execute_command: not found, found and refused, or     *)
(* started.  The kernel shell waits for the user shell as for any program. *)
Execute(s) ==
  /\ \/ NewLine(s, MESSAGE) /\ UNCHANGED <<editor, running>>
     \/ /\ Found(buf) = SHELL /\ editor = "kernel"
        /\ StartShell(s, "subshell") /\ UNCHANGED running
     \/ /\ Found(buf) # NoFile /\ ~(Found(buf) = SHELL /\ editor = "kernel")
        /\ running' = TRUE /\ screen' = vga_puts(s, MESSAGE)
        /\ UNCHANGED <<editor, buf, home, tabs>>

Enter ==
  LET s == vga_putchar(screen, NL)
      builtin == editor # "kernel" /\ buf \in {CLEAR, EXIT}
  IN  \/ /\ buf = <<>>
         /\ NewLine(s, <<>>) /\ UNCHANGED <<editor, running>>
      \/ /\ builtin /\ buf = CLEAR
         /\ NewLine(vga_clear(0), <<>>) /\ UNCHANGED <<editor, running>>
      \/ /\ builtin /\ buf = EXIT
         /\ \/ editor = "shell" /\ FallBack(vga_puts(s, EXIT_MESSAGE))
            \/ editor = "subshell" /\ NewLine(s, EXIT_MESSAGE) /\ editor' = "kernel"
         /\ UNCHANGED running
      \/ buf # <<>> /\ ~builtin /\ Execute(s)

Key(source, raw) ==
  LET c == Received(source, raw)
  IN  /\ Editing
      /\ \/ c = BS /\ Erase
         \/ c = NL /\ Enter
         \/ c \notin {BS, NL} /\ Insert(c)

(* The program prints and exits.                                           *)
ProgramExits ==
  /\ running /\ running' = FALSE
  /\ \E text \in Outputs : NewLine(screen, text \o EXIT_MESSAGE)
  /\ UNCHANGED editor

Next ==
  \/ Boot
  \/ \E c \in KeyChars \cup {BS, NL} : Key("keyboard", c)
  \/ \E c \in {CR, DEL} : Key("serial", c)
  \/ ProgramExits

Spec == Init /\ [][Next]_vars
-----------------------------------------------------------------------------
(* A place on the screen when the prompt was printed, where it is now.     *)
Now(i) == i - screen.up * WIDTH

(* The line the user sees is the line that Enter will execute: from the    *)
(* prompt on the screen shows exactly cmd_buf, the cursor stands behind it *)
(* and the rest is blank, whatever was typed and erased, across line ends  *)
(* and scrolling, as long as no tab was typed.                             *)
EchoIsBuffer ==
  Editing /\ tabs = 0 =>
    /\ Pos(screen) = Now(home) + Len(buf)
    /\ \A i \in Cells : i >= Now(home) =>
         screen.cells[i] = IF i < Pos(screen) THEN buf[i - Now(home) + 1] ELSE SP

(* Erasing never goes back beyond the prompt, tabs included: what is       *)
(* still on the screen of the prompt is intact.                            *)
PromptSurvives ==
  Editing => \A i \in 1 .. Len(PROMPT) :
    LET place == Now(home) - Len(PROMPT) + i - 1
    IN  place \in Cells => screen.cells[place] = PROMPT[i]

(* A program finds as its arguments the words after its name, in order and *)
(* whole: a word the editors can produce never fills an argument buffer,   *)
(* and words beyond MAX_ARGS are dropped.  GET_ARGS counts them right,     *)
(* refuses any other index and cuts an argument only to the caller's       *)
(* buffer.                                                                 *)
ArgsAreWords ==
  running =>
    LET args == current_program_args
        words == Words(buf)
        count == Min({Len(words) - 1, MAX_ARGS})
    IN  /\ Len(args) = count
        /\ \A size \in 0 .. CMD_BUF : get_arg(args, -1, size) = count
        /\ \A k \in -2 .. MAX_ARGS, size \in 0 .. CMD_BUF :
             k # -1 => get_arg(args, k, size) =
               IF k \in 0 .. count - 1 /\ size > 0
               THEN SubSeq(words[k + 2], 1, Min({Len(words[k + 2]), size - 1}))
               ELSE -1

(* Typing a listed name, in either case, finds that entry, and nothing     *)
(* that was not named: as long as the name has at most KEPT characters,    *)
(* the dot included.                                                       *)
UpperWord(w) == [i \in 1 .. Len(w) |-> Upper(w[i])]
NamedBy(w) == {n \in Directory : fat32_name_to_string(n) = UpperWord(w)}
FindsListedName ==
  Editing /\ Words(buf) # <<>> =>
    LET w == Words(buf)[1]
    IN  Is83(w) /\ Len(w) <= KEPT =>
          {Found(buf)} = IF NamedBy(w) = {} THEN {NoFile} ELSE NamedBy(w)

(* kernel.c and syscall.c: the name is made a "FAT32 8.3 filename": every  *)
(* listed name can be typed.                                               *)
FindsEveryName ==
  Editing /\ Words(buf) # <<>> =>
    LET w == Words(buf)[1]
    IN  Is83(w) => NamedBy(w) \subseteq {Found(buf)}

(* shell.c: backspace is to "remove character from buffer", and its echo   *)
(* to remove it from the screen: the cursor stands where the line ends.    *)
EchoWithTabs == Editing /\ buf = <<>> => Pos(screen) = Now(home)
=============================================================================
