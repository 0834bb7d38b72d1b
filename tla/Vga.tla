-------------------------------- MODULE Vga --------------------------------
(***************************************************************************)
(* The text screen (vga.c) as operators on a record: the cells in memory   *)
(* order and the cursor.  Colours are left out.  `up' is not in the code:  *)
(* it counts the rows scrolled away, so that a place on the screen can be  *)
(* followed.                                                               *)
(***************************************************************************)
EXTENDS Characters, Integers, Sequences

CONSTANTS
  WIDTH, HEIGHT,   \* 80 and 25
  TAB              \* distance of the tab stops: 4

ASSUME VgaAssumption ==
  /\ WIDTH \in Nat \ {0} /\ HEIGHT \in Nat \ {0}
  /\ TAB \in Nat \ {0} /\ WIDTH % TAB = 0

Cells == 0 .. WIDTH * HEIGHT - 1

(* Where the hardware cursor is put.                                       *)
Pos(s) == s.row * WIDTH + s.col

vga_clear(up) == [cells |-> [i \in Cells |-> SP], row |-> 0, col |-> 0, up |-> up]

vga_scroll(s) ==
  [s EXCEPT !.cells = [i \in Cells |-> IF i + WIDTH \in Cells THEN s.cells[i + WIDTH]
                                       ELSE SP],
            !.row = HEIGHT - 1, !.up = @ + 1]

(* vga_column = 0; if (++vga_row >= VGA_HEIGHT) vga_scroll();              *)
NewRow(s) ==
  LET t == [s EXCEPT !.col = 0, !.row = @ + 1]
  IN  IF t.row >= HEIGHT THEN vga_scroll(t) ELSE t

(* The cursor goes to column col of this row, or wraps.                    *)
MoveTo(s, col) == IF col >= WIDTH THEN NewRow(s) ELSE [s EXCEPT !.col = col]

Backspace_StaysInRow(s) == IF s.col > 0 THEN [s EXCEPT !.col = @ - 1] ELSE s
Backspace(s) ==
  CASE s.col > 0                -> [s EXCEPT !.col = @ - 1]
    [] s.col = 0 /\ s.row > 0   -> [s EXCEPT !.row = @ - 1, !.col = WIDTH - 1]
    [] s.col = 0 /\ s.row = 0   -> s

vga_putchar(s, c) ==
  CASE c = NL -> NewRow(s)
    [] c = CR -> [s EXCEPT !.col = 0]
    [] c = BS -> Backspace(s)
    [] c = HT -> MoveTo(s, ((s.col + TAB) \div TAB) * TAB)
    [] OTHER  -> MoveTo([s EXCEPT !.cells[Pos(s)] = c], s.col + 1)

vga_puts(s, str) ==
  LET after[n \in 0 .. Len(str)] ==
        IF n = 0 THEN s ELSE vga_putchar(after[n - 1], str[n])
  IN  after[Len(str)]
=============================================================================
