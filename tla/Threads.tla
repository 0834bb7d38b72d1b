------------------------------ MODULE Threads ------------------------------
(***************************************************************************)
(* The kernel threads of TEST_KERNEL_THREADS (kernel.c), which print       *)
(* without a lock: Sched, with each process running vga_putchar (vga.c)    *)
(* access by access.  The build does not optimise, so ++vga_row >= HEIGHT  *)
(* is a load, a store and a second load, and the tick may come between any *)
(* two of them.                                                            *)
(*                                                                         *)
(* The threads print printable characters only.  What they write is left   *)
(* out; where they may write follows from vga_row and vga_column.          *)
(***************************************************************************)
EXTENDS Sched

CONSTANTS
  WIDTH, HEIGHT,
  MAX_OVER       \* bound: how far beyond the screen the cursor is followed

ASSUME ThreadsAssumption ==
  /\ WIDTH \in Nat \ {0} /\ HEIGHT \in Nat \ {0} /\ MAX_OVER \in Nat

VARIABLES
  vga_row, vga_column,
  at,      \* where each process is in vga_putchar
  reg      \* the value it has loaded and not yet stored

screen == <<vga_row, vga_column, at, reg>>

ThreadsTypeOK ==
  /\ vga_row \in Nat /\ vga_column \in Nat
  /\ at \in [Slots -> {"char", "col_store", "col_test", "col_zero",
                       "row_load", "row_store", "row_test", "scroll"}]
  /\ reg \in [Slots -> Nat]

ThreadsInit ==
  /\ Init
  /\ vga_row = 0 /\ vga_column = 0
  /\ at = [p \in Slots |-> "char"] /\ reg = [p \in Slots |-> 0]
-----------------------------------------------------------------------------
(* p has the CPU; kernel_main prints when it is not in process_create.     *)
Runs(p) == cpu = "ok" /\ current_proc = p /\ (p = 0 => main = "idle")

(* A step of p from one place in vga_putchar to the next.                  *)
Goes(p, from, to) == Runs(p) /\ at[p] = from /\ at' = [at EXCEPT ![p] = to]

(* The character is written at the cursor, and vga_column is loaded.       *)
WriteChar(p) ==
  /\ Goes(p, "char", "col_store")
  /\ reg' = [reg EXCEPT ![p] = vga_column]
  /\ UNCHANGED <<vga_row, vga_column>>

StoreColumn(p) ==
  /\ Goes(p, "col_store", "col_test")
  /\ reg[p] + 1 <= WIDTH + MAX_OVER
  /\ vga_column' = reg[p] + 1 /\ reg' = [reg EXCEPT ![p] = 0]
  /\ UNCHANGED vga_row

ColumnOver == vga_column >= WIDTH
TestColumn(p) ==
  /\ Goes(p, "col_test", IF ColumnOver THEN "col_zero" ELSE "char")
  /\ UNCHANGED <<vga_row, vga_column, reg>>

ZeroColumn(p) ==
  /\ Goes(p, "col_zero", "row_load")
  /\ vga_column' = 0
  /\ UNCHANGED <<vga_row, reg>>

LoadRow(p) ==
  /\ Goes(p, "row_load", "row_store")
  /\ reg' = [reg EXCEPT ![p] = vga_row]
  /\ UNCHANGED <<vga_row, vga_column>>

StoreRow(p) ==
  /\ Goes(p, "row_store", "row_test")
  /\ reg[p] + 1 <= HEIGHT + MAX_OVER
  /\ vga_row' = reg[p] + 1 /\ reg' = [reg EXCEPT ![p] = 0]
  /\ UNCHANGED vga_column

RowOver_OneLate == vga_row > HEIGHT
RowOver == vga_row >= HEIGHT
TestRow(p) ==
  /\ Goes(p, "row_test", IF RowOver THEN "scroll" ELSE "char")
  /\ UNCHANGED <<vga_row, vga_column, reg>>

(* The loops of vga_scroll, then the row is set.                           *)
ScrollRow_StaysOver == vga_row
ScrollRow == HEIGHT - 1
Scroll(p) ==
  /\ Goes(p, "scroll", "char")
  /\ vga_row' = ScrollRow
  /\ UNCHANGED <<vga_column, reg>>

Putchar(p) ==
  \/ WriteChar(p) \/ StoreColumn(p) \/ TestColumn(p) \/ ZeroColumn(p)
  \/ LoadRow(p) \/ StoreRow(p) \/ TestRow(p) \/ Scroll(p)
ThreadStep(p) == Putchar(p) /\ UNCHANGED vars

(* kernel_main goes on to process_create only between two characters.      *)
Kernel ==
  /\ Next
  /\ main = "idle" /\ main' # "idle" => at[0] = "char"
  /\ UNCHANGED screen

ThreadsNext == Kernel \/ \E p \in Slots : ThreadStep(p)

all == <<vars, screen>>

ThreadsSpec == ThreadsInit /\ [][ThreadsNext]_all

(* The tick as in Sched; and a time slice is long enough for the process   *)
(* that has it to execute an instruction.                                  *)
ThreadsFairSpec ==
  /\ ThreadsSpec
  /\ WF_vars(TimerIrq)
  /\ \A p \in Slots : SF_screen(Putchar(p))
-----------------------------------------------------------------------------
(* The cursor is off the screen only while some process is on its way to   *)
(* put it back, however the threads' increments and tests interleave: a    *)
(* process that finds the cursor in range can rely on another one to have  *)
(* repaired it.                                                            *)
OffScreenIsRepaired ==
  /\ vga_row >= HEIGHT => \E p \in Slots : at[p] \in {"row_test", "scroll"}
  /\ vga_column >= WIDTH => \E p \in Slots : at[p] \in {"col_test", "col_zero"}

(* And it is put back: the cursor is below the screen never for good,      *)
(* unless a process has been entered without a stack.                      *)
RowRecovers == []<>(vga_row < HEIGHT \/ cpu = "lost")

(* One step of an unlucky process too far is all that could be expected of *)
(* unlocked increments; but a process may hold a row from beyond the       *)
(* screen while the others repair it, and store it back one higher.        *)
RowBounded == vga_row <= HEIGHT - 1 + MAX_PROCESSES
=============================================================================
