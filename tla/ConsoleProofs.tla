--------------------------- MODULE ConsoleProofs ---------------------------
(***************************************************************************)
(* The line on the screen is the line in the buffer, for every screen,     *)
(* prompt and sequence of keys; a listed name that is typed is found; and  *)
(* a program gets the words of its line.  The argument for the screen: a   *)
(* place is counted from the first row ever shown, scrolled away or not,   *)
(* and what is printed stands just before the cursor in that count.  What  *)
(* vga_puts does to a string is by induction on its length.                *)
(***************************************************************************)
EXTENDS Console, FiniteSetTheorems, WellFoundedInduction, TLAPS

(* Every set of numbers that is not empty has a least element.             *)
LEMMA LowestExists ==
  ASSUME NEW T, T \subseteq Nat, T # {}
  PROVE  \E x \in T : \A y \in T : x <= y
<1> DEFINE R == OpToRel(<, Nat)
<1>1. \A x, y \in Nat : x < y => <<x, y>> \in R
  BY DEF OpToRel
<1>2. IsWellFoundedOn(R, Nat)
  BY NatLessThanWellFounded
<1> HIDE DEF R
<1>3. \E x \in T : \A y \in T : ~ (<<y, x>> \in R)
  BY <1>2, WFMin, Zenon
<1>4. PICK x \in T : \A y \in T : ~ (<<y, x>> \in R)
  BY <1>3
<1>5. \A y \in T : ~ (y < x)
  BY <1>1, <1>4, Zenon
<1> QED
  BY <1>5

(* Induction, for a set of numbers.                                        *)
LEMMA Induction ==
  ASSUME NEW S, 0 \in S, \A n \in Nat : n \in S => n + 1 \in S
  PROVE  Nat \subseteq S
<1> SUFFICES ASSUME Nat \ S # {} PROVE FALSE
  OBVIOUS
<1>1. PICK x \in Nat \ S : \A y \in Nat \ S : x <= y
  BY LowestExists, Zenon
<1>2. x # 0 /\ x - 1 \in Nat /\ x - 1 + 1 = x
  BY <1>1
<1> QED
  BY <1>1, <1>2
-----------------------------------------------------------------------------
(* Screens, and the place of the cursor counted from the first row ever    *)
(* shown.                                                                  *)
Screens == [cells : [Cells -> Chars], row : 0 .. HEIGHT - 1, col : 0 .. WIDTH - 1,
            up : Nat]

First(s) == s.up * WIDTH
Cursor(s) == First(s) + Pos(s)

(* text[1 .. n] stands on s from place a on, as far as it is still shown.  *)
Shows(s, a, n, text) ==
  \A k \in 1 .. n :
    LET p == a + k - 1 - First(s) IN p \in Cells => s.cells[p] = text[k]

(* Nothing stands from place a on; nothing at the cursor or behind it.     *)
BlankFrom(s, a) == \A i \in Cells : First(s) + i >= a => s.cells[i] = SP
Blank(s) == BlankFrom(s, Cursor(s))

LEMMA Multiply ==
  ASSUME NEW a \in Int, NEW b \in Int, a <= b, NEW w \in Nat
  PROVE  a * w \in Int /\ b * w \in Int /\ a * w <= b * w /\ (a + 1) * w = a * w + w
  BY SMT

LEMMA PosIn ==
  ASSUME NEW s \in Screens
  PROVE  /\ Pos(s) \in Cells /\ First(s) \in Nat /\ Cursor(s) \in Nat
         /\ s.row * WIDTH \in Nat /\ Pos(s) = s.row * WIDTH + s.col
         /\ Pos(s) + (WIDTH - s.col) <= HEIGHT * WIDTH
         /\ WIDTH \in Nat \ {0} /\ HEIGHT \in Nat \ {0}
<1>1. /\ s.row \in 0 .. HEIGHT - 1 /\ s.col \in 0 .. WIDTH - 1 /\ s.up \in Nat
      /\ WIDTH \in Nat \ {0} /\ HEIGHT \in Nat \ {0}
  BY VgaAssumption DEF Screens
<1> DEFINE r == s.row
           c == s.col
           u == s.up
<1> HIDE DEF r, c, u
<1>2. r \in 0 .. HEIGHT - 1 /\ c \in 0 .. WIDTH - 1 /\ u \in Nat
  BY <1>1 DEF r, c, u
<1>3. r * WIDTH \in Nat /\ u * WIDTH \in Nat /\ r * WIDTH + WIDTH <= HEIGHT * WIDTH /\ HEIGHT * WIDTH \in Nat
  <2>1. r * WIDTH \in Nat /\ u * WIDTH \in Nat /\ HEIGHT * WIDTH \in Nat
    BY <1>1, <1>2
  <2>2. (r + 1) * WIDTH <= HEIGHT * WIDTH /\ (r + 1) * WIDTH = r * WIDTH + WIDTH
    BY <1>1, <1>2, Multiply
  <2> QED
    BY <2>1, <2>2
<1>4. Pos(s) = r * WIDTH + c /\ First(s) = u * WIDTH /\ Cursor(s) = u * WIDTH + (r * WIDTH + c)
  BY DEF Pos, First, Cursor, r, c, u
<1>5. WIDTH * HEIGHT = HEIGHT * WIDTH
  BY <1>1
<1> DEFINE rw == r * WIDTH
           uw == u * WIDTH
           hw == HEIGHT * WIDTH
<1>6. rw \in Nat /\ uw \in Nat /\ hw \in Nat /\ rw + WIDTH <= hw /\ Cells = 0 .. hw - 1
  BY <1>3, <1>5, Zenon DEF Cells
<1>7. Pos(s) = rw + c /\ First(s) = uw /\ Cursor(s) = uw + (rw + c)
  BY <1>4
<1> HIDE DEF rw, uw, hw
<1>8. Pos(s) \in Cells /\ First(s) \in Nat /\ Cursor(s) \in Nat /\ Pos(s) + (WIDTH - c) <= hw
  BY <1>1, <1>2, <1>6, <1>7
<1> QED
  BY <1>1, <1>3, <1>4, <1>8 DEF hw, r, c

(* t is s, possibly one row further down: what is still shown is as it     *)
(* was, and a new row is blank.                                            *)
Follows(s, t) ==
  /\ t.up \in {s.up, s.up + 1}
  /\ \A i \in Cells :
       t.cells[i] = IF i + (First(t) - First(s)) \in Cells
                    THEN s.cells[i + (First(t) - First(s))] ELSE SP

(* The fields of a screen, and what changing one of them does.             *)
LEMMA ScreenFields ==
  ASSUME NEW s \in Screens
  PROVE  /\ s.cells \in [Cells -> Chars] /\ s.row \in 0 .. HEIGHT - 1
         /\ s.col \in 0 .. WIDTH - 1 /\ s.up \in Nat
  BY DEF Screens

LEMMA SetCells ==
  ASSUME NEW s \in Screens, NEW x \in [Cells -> Chars], NEW t, t = [s EXCEPT !.cells = x]
  PROVE  t \in Screens /\ t.cells = x /\ t.row = s.row /\ t.col = s.col /\ t.up = s.up
  BY DEF Screens

LEMMA SetRow ==
  ASSUME NEW s \in Screens, NEW x \in 0 .. HEIGHT - 1, NEW t, t = [s EXCEPT !.row = x]
  PROVE  t \in Screens /\ t.cells = s.cells /\ t.row = x /\ t.col = s.col /\ t.up = s.up
  BY DEF Screens

LEMMA SetCol ==
  ASSUME NEW s \in Screens, NEW x \in 0 .. WIDTH - 1, NEW t, t = [s EXCEPT !.col = x]
  PROVE  t \in Screens /\ t.cells = s.cells /\ t.row = s.row /\ t.col = x /\ t.up = s.up
  BY DEF Screens

LEMMA SetUp ==
  ASSUME NEW s \in Screens, NEW x \in Nat, NEW t, t = [s EXCEPT !.up = x]
  PROVE  t \in Screens /\ t.cells = s.cells /\ t.row = s.row /\ t.col = s.col /\ t.up = x
  BY DEF Screens

LEMMA FirstOf ==
  ASSUME NEW s, NEW t, s.up \in Nat, t.up \in {s.up, s.up + 1}
  PROVE  /\ t.up = s.up => First(t) = First(s)
         /\ t.up = s.up + 1 => First(t) = First(s) + WIDTH
         /\ First(s) \in Nat /\ First(t) \in Nat
<1> DEFINE u == s.up
<1>1. u \in Nat /\ WIDTH \in Nat
  BY VgaAssumption
<1> HIDE DEF u
<1>2. (u + 1) * WIDTH = u * WIDTH + WIDTH /\ u * WIDTH \in Nat /\ (u + 1) * WIDTH \in Nat
  BY <1>1
<1> QED
  BY <1>2 DEF First, u

LEMMA SameUp ==
  ASSUME NEW s \in Screens, NEW t, t.up = s.up, t.cells = s.cells
  PROVE  Follows(s, t) /\ First(t) = First(s)
<1>1. First(t) = First(s) /\ First(s) \in Nat
  BY PosIn DEF First
<1>2. ASSUME NEW i \in Cells PROVE i + (First(t) - First(s)) = i
  BY <1>1 DEF Cells
<1> QED
  BY <1>1, <1>2, Zenon DEF Follows

LEMMA NewRowMoves ==
  ASSUME NEW s \in Screens
  PROVE  /\ NewRow(s) \in Screens /\ Follows(s, NewRow(s))
         /\ Cursor(NewRow(s)) = Cursor(s) + (WIDTH - s.col)
         /\ NewRow(s).up # s.up => Pos(NewRow(s)) = (HEIGHT - 1) * WIDTH
<1> DEFINE t == NewRow(s)
<1>1. /\ s.row \in 0 .. HEIGHT - 1 /\ s.col \in 0 .. WIDTH - 1 /\ s.up \in Nat
      /\ s.cells \in [Cells -> Chars]
  BY ScreenFields
<1>2. /\ WIDTH \in Nat \ {0} /\ HEIGHT \in Nat \ {0} /\ s.row * WIDTH \in Nat
      /\ Pos(s) = s.row * WIDTH + s.col /\ First(s) \in Nat
  BY PosIn
<1> DEFINE left == [s EXCEPT !.col = 0]
           below == [s EXCEPT !.col = 0, !.row = @ + 1]
<1>5. /\ left \in Screens /\ left.cells = s.cells /\ left.row = s.row /\ left.col = 0
      /\ left.up = s.up
  <2>1. 0 \in 0 .. WIDTH - 1
    BY <1>2
  <2> QED
    BY <2>1, SetCol, Zenon
<1>6. below = [left EXCEPT !.row = @ + 1]
  BY SMT
<1>7. below = [left EXCEPT !.row = s.row + 1] /\ below.row = s.row + 1
  BY <1>5, <1>6 DEF Screens
<1>8. t = IF below.row >= HEIGHT THEN vga_scroll(below) ELSE below
  BY DEF NewRow
<1> HIDE DEF left, below, t
<1>3. CASE s.row + 1 < HEIGHT
  <2>1. t = [left EXCEPT !.row = s.row + 1]
    BY <1>1, <1>2, <1>3, <1>7, <1>8
  <2>2. t.cells = s.cells /\ t.up = s.up /\ t.row = s.row + 1 /\ t.col = 0 /\ t \in Screens
    <3>1. s.row + 1 \in 0 .. HEIGHT - 1
      BY <1>1, <1>2, <1>3
    <3> QED
      BY <2>1, <3>1, <1>5, SetRow
  <2>3. Follows(s, t) /\ First(t) = First(s)
    BY <2>2, SameUp
  <2>4. Pos(t) = s.row * WIDTH + WIDTH
    <3>1. (s.row + 1) * WIDTH = s.row * WIDTH + WIDTH
      BY <1>1, <1>2, Multiply
    <3> QED
      BY <3>1, <2>2, <1>2 DEF Pos
  <2>5. Cursor(t) = Cursor(s) + (WIDTH - s.col)
    BY <2>3, <2>4, <1>1, <1>2 DEF Cursor
  <2> QED
    BY <2>2, <2>3, <2>5 DEF t
<1>4. CASE ~ (s.row + 1 < HEIGHT)
  <2>1. s.row = HEIGHT - 1
    BY <1>1, <1>2, <1>4
  <2> DEFINE shifted == [i \in Cells |-> IF i + WIDTH \in Cells THEN s.cells[i + WIDTH] ELSE SP]
  <2>2. t = [below EXCEPT !.cells = shifted, !.row = HEIGHT - 1, !.up = s.up + 1]
    <3>1. t = vga_scroll(below) /\ below.cells = s.cells /\ below.up = s.up
      BY <1>1, <1>2, <1>4, <1>5, <1>7, <1>8
    <3> QED
      BY <3>1 DEF vga_scroll
  <2>3. shifted \in [Cells -> Chars]
    <3>1. ASSUME NEW i \in Cells
          PROVE  (IF i + WIDTH \in Cells THEN s.cells[i + WIDTH] ELSE SP) \in Chars
      BY <1>1, ConsoleAssumption DEF Chars
    <3> QED
      BY <3>1, Zenon
  <2> HIDE DEF shifted
  <2>4. t.cells = shifted /\ t.row = HEIGHT - 1 /\ t.col = 0 /\ t.up = s.up + 1 /\ t \in Screens
    <3> DEFINE one == [left EXCEPT !.cells = shifted]
               two == [one EXCEPT !.row = HEIGHT - 1]
    <3>1. /\ one \in Screens /\ one.cells = shifted /\ one.row = left.row
          /\ one.col = left.col /\ one.up = left.up
      BY <1>5, <2>3, SetCells
    <3> HIDE DEF one
    <3>2. HEIGHT - 1 \in 0 .. HEIGHT - 1 /\ s.up + 1 \in Nat
      BY <1>1, <1>2
    <3>3. /\ two \in Screens /\ two.cells = shifted /\ two.row = HEIGHT - 1
          /\ two.col = left.col /\ two.up = left.up
      BY <3>1, <3>2, SetRow
    <3>4. t = [two EXCEPT !.up = s.up + 1]
      BY <2>2, <1>7, Zenon DEF one
    <3> HIDE DEF two
    <3> QED
      BY <3>2, <3>3, <3>4, <1>5, SetUp
  <2>5. t.up = s.up + 1 /\ First(t) = First(s) + WIDTH
    BY <2>4, <1>1, FirstOf
  <2>6. Follows(s, t)
    <3>1. First(t) - First(s) = WIDTH
      BY <2>5, <1>2
    <3>2. \A i \in Cells : t.cells[i] = IF i + WIDTH \in Cells THEN s.cells[i + WIDTH] ELSE SP
      BY <2>4 DEF shifted
    <3> QED
      BY <2>5, <3>1, <3>2, Zenon DEF Follows
  <2>7. Pos(t) = s.row * WIDTH /\ Pos(t) = (HEIGHT - 1) * WIDTH
    BY <2>1, <2>4, <1>2 DEF Pos
  <2>8. Cursor(t) = Cursor(s) + (WIDTH - s.col)
    BY <2>5, <2>7, <1>1, <1>2 DEF Cursor
  <2> QED
    BY <2>4, <2>6, <2>7, <2>8 DEF t
<1> QED
  BY <1>3, <1>4
-----------------------------------------------------------------------------
(* What stands before the cursor goes up with the screen.                  *)
LEMMA FollowsShows ==
  ASSUME NEW s \in Screens, NEW t \in Screens, Follows(s, t),
         NEW a \in Int, NEW n \in Nat, NEW text, a + n <= Cursor(s) + 1, Shows(s, a, n, text)
  PROVE  Shows(t, a, n, text)
<1> SUFFICES ASSUME NEW k \in 1 .. n, a + k - 1 - First(t) \in Cells
             PROVE  t.cells[a + k - 1 - First(t)] = text[k]
  BY DEF Shows
<1> DEFINE p == a + k - 1 - First(t)
           q == a + k - 1 - First(s)
<1>1. /\ First(s) \in Nat /\ First(t) \in Nat /\ Pos(s) \in Cells /\ WIDTH \in Nat
      /\ Cursor(s) = First(s) + Pos(s)
  BY PosIn DEF Cursor
<1>2. First(t) = First(s) \/ First(t) = First(s) + WIDTH
  BY FirstOf, ScreenFields DEF Follows
<1>3. p + (First(t) - First(s)) = q /\ q \in Cells
  <2>1. p + (First(t) - First(s)) = q
    BY <1>1
  <2>2. q <= Pos(s) /\ q >= 0 /\ q \in Int
    BY <1>1, <1>2 DEF Cells
  <2>3. \A x \in Int : x >= 0 /\ x <= Pos(s) => x \in Cells
    BY <1>1, VgaAssumption DEF Cells
  <2> QED
    BY <2>1, <2>2, <2>3
<1>4. t.cells[p] = s.cells[q]
  <2> HIDE DEF p, q
  <2> QED
    BY <1>3, Zenon DEF Follows, p
<1>5. s.cells[q] = text[k]
  BY <1>3 DEF Shows
<1> QED
  BY <1>4, <1>5

LEMMA FollowsBlank ==
  ASSUME NEW s \in Screens, NEW t \in Screens, Follows(s, t), NEW a \in Int, BlankFrom(s, a)
  PROVE  BlankFrom(t, a)
<1> SUFFICES ASSUME NEW i \in Cells, First(t) + i >= a PROVE t.cells[i] = SP
  BY DEF BlankFrom
<1> DEFINE j == i + (First(t) - First(s))
<1>1. First(s) \in Nat /\ First(t) \in Nat
  BY PosIn
<1>2. First(s) + j >= a
  BY <1>1 DEF Cells
<1>3. t.cells[i] = IF j \in Cells THEN s.cells[j] ELSE SP
  BY Zenon DEF Follows
<1> HIDE DEF j
<1> QED
  BY <1>2, <1>3 DEF BlankFrom
-----------------------------------------------------------------------------
(* The cursor goes on by at least n places; it is in the last row when the *)
(* screen was scrolled for it.                                             *)
Advances(s, t, n) ==
  /\ t \in Screens /\ Follows(s, t)
  /\ Cursor(t) >= Cursor(s) + n
  /\ t.up # s.up => Pos(t) = (HEIGHT - 1) * WIDTH

LEMMA MoveToAdvances ==
  ASSUME NEW s \in Screens, NEW col \in Nat, col > s.col
  PROVE  /\ Advances(s, MoveTo(s, col), 1)
         /\ col = s.col + 1 => Cursor(MoveTo(s, col)) = Cursor(s) + 1
<1>1. /\ s.col \in 0 .. WIDTH - 1 /\ WIDTH \in Nat \ {0} /\ First(s) \in Nat
      /\ s.row * WIDTH \in Nat /\ Pos(s) = s.row * WIDTH + s.col
      /\ Cursor(s) = First(s) + Pos(s)
  BY PosIn, ScreenFields DEF Cursor
<1>2. CASE col >= WIDTH
  <2>1. MoveTo(s, col) = NewRow(s)
    BY <1>2 DEF MoveTo
  <2>2. /\ NewRow(s) \in Screens /\ Follows(s, NewRow(s))
        /\ Cursor(NewRow(s)) = Cursor(s) + (WIDTH - s.col)
        /\ NewRow(s).up # s.up => Pos(NewRow(s)) = (HEIGHT - 1) * WIDTH
    BY NewRowMoves
  <2> QED
    BY <1>1, <1>2, <2>1, <2>2 DEF Advances
<1>3. CASE ~ (col >= WIDTH)
  <2> DEFINE t == [s EXCEPT !.col = col]
  <2>1. MoveTo(s, col) = t
    BY <1>3 DEF MoveTo
  <2>2. t \in Screens /\ t.cells = s.cells /\ t.row = s.row /\ t.col = col /\ t.up = s.up
    <3>1. col \in 0 .. WIDTH - 1
      BY <1>1, <1>3
    <3> QED
      BY <3>1, SetCol
  <2> HIDE DEF t
  <2>3. Follows(s, t) /\ First(t) = First(s)
    BY <2>2, SameUp
  <2>4. Cursor(t) = Cursor(s) + (col - s.col)
    BY <1>1, <2>2, <2>3 DEF Cursor, Pos
  <2> QED
    BY <1>1, <2>1, <2>2, <2>3, <2>4 DEF Advances
<1> QED
  BY <1>2, <1>3
(* A character that is shown replaces what stood at the cursor, and the    *)
(* cursor goes on one place.                                               *)
LEMMA GlyphStored ==
  ASSUME NEW s \in Screens, NEW c \in Chars, NEW m, m = [s EXCEPT !.cells[Pos(s)] = c]
  PROVE  /\ m \in Screens /\ m.cells = [s.cells EXCEPT ![Pos(s)] = c]
         /\ m.up = s.up /\ m.col = s.col /\ First(m) = First(s) /\ Pos(m) = Pos(s)
         /\ Cursor(m) = Cursor(s)
<1> DEFINE cells == [s.cells EXCEPT ![Pos(s)] = c]
<1>1. cells \in [Cells -> Chars]
  BY PosIn, ScreenFields
<1>2. m = [s EXCEPT !.cells = cells]
  BY DEF Screens
<1> HIDE DEF cells
<1>3. m \in Screens /\ m.cells = cells /\ m.row = s.row /\ m.col = s.col /\ m.up = s.up
  <2>1. \A t : t = [s EXCEPT !.cells = cells] =>
          t \in Screens /\ t.cells = cells /\ t.row = s.row /\ t.col = s.col /\ t.up = s.up
    BY <1>1, SetCells, Zenon
  <2> QED
    BY <1>2, <2>1, Zenon
<1> QED
  BY <1>3 DEF cells, First, Pos, Cursor

LEMMA GlyphShows ==
  ASSUME NEW s \in Screens, NEW c \in Chars, NEW m, m = [s EXCEPT !.cells[Pos(s)] = c],
         NEW a \in Int, NEW n \in Nat, NEW text, Shows(s, a, n, text)
  PROVE  /\ a + n <= Cursor(s) => Shows(m, a, n, text)
         /\ a + n = Cursor(s) /\ text[n + 1] = c => Shows(m, a, n + 1, text)
<1>1. m.cells = [s.cells EXCEPT ![Pos(s)] = c] /\ First(m) = First(s)
  BY GlyphStored, Zenon
<1>2. /\ Pos(s) \in Cells /\ First(s) \in Nat /\ Cursor(s) = First(s) + Pos(s)
      /\ s.cells \in [Cells -> Chars] /\ Cells \subseteq Int
  BY PosIn, ScreenFields DEF Cursor, Cells
<1>3. /\ m.cells[Pos(s)] = c
      /\ \A i \in Cells : i # Pos(s) => m.cells[i] = s.cells[i]
  BY <1>1, <1>2
<1>4. ASSUME NEW k \in 1 .. n, a + n <= Cursor(s), a + k - 1 - First(m) \in Cells
      PROVE  m.cells[a + k - 1 - First(m)] = text[k]
  <2> DEFINE p == a + k - 1 - First(s)
  <2>1. p # Pos(s) /\ p \in Cells
    BY <1>1, <1>2, <1>4
  <2>2. s.cells[p] = text[k]
    BY <2>1 DEF Shows
  <2> QED
    BY <2>1, <2>2, <1>1, <1>3
<1>5. a + n <= Cursor(s) => Shows(m, a, n, text)
  BY <1>4 DEF Shows
<1>6. ASSUME a + n = Cursor(s), text[n + 1] = c, NEW k \in 1 .. n + 1,
             a + k - 1 - First(m) \in Cells
      PROVE  m.cells[a + k - 1 - First(m)] = text[k]
  <2>1. CASE k \in 1 .. n
    BY <1>2, <1>4, <1>6, <2>1
  <2>2. CASE k = n + 1
    <3>1. a + k - 1 - First(m) = Pos(s)
      BY <1>1, <1>2, <1>6, <2>2
    <3> QED
      BY <3>1, <1>3, <1>6, <2>2
  <2> QED
    BY <2>1, <2>2
<1> QED
  BY <1>5, <1>6 DEF Shows

LEMMA GlyphBlank ==
  ASSUME NEW s \in Screens, NEW c \in Chars, NEW m, m = [s EXCEPT !.cells[Pos(s)] = c],
         Blank(s)
  PROVE  BlankFrom(m, Cursor(s) + 1)
<1>1. m.cells = [s.cells EXCEPT ![Pos(s)] = c] /\ First(m) = First(s)
  BY GlyphStored, Zenon
<1>2. /\ Pos(s) \in Cells /\ First(s) \in Nat /\ Cursor(s) = First(s) + Pos(s)
      /\ s.cells \in [Cells -> Chars] /\ Cells \subseteq Int
  BY PosIn, ScreenFields DEF Cursor, Cells
<1> SUFFICES ASSUME NEW i \in Cells, First(m) + i >= Cursor(s) + 1 PROVE m.cells[i] = SP
  BY DEF BlankFrom
<1>3. i # Pos(s) /\ First(s) + i >= Cursor(s)
  BY <1>1, <1>2
<1>4. s.cells[i] = SP
  BY <1>3 DEF Blank, BlankFrom
<1> QED
  BY <1>1, <1>2, <1>3, <1>4

LEMMA PutGlyph ==
  ASSUME NEW s \in Screens, NEW c \in Glyphs, NEW t, t = vga_putchar(s, c)
  PROVE  /\ t \in Screens /\ Cursor(t) = Cursor(s) + 1
         /\ t.up # s.up => Pos(t) = (HEIGHT - 1) * WIDTH
         /\ Blank(s) => Blank(t)
<1> DEFINE m == [s EXCEPT !.cells[Pos(s)] = c]
<1>1. c \in Chars /\ c \notin {NL, CR, BS, HT}
  BY ConsoleAssumption DEF Chars
<1>2. t = MoveTo(m, s.col + 1)
  BY <1>1, Zenon DEF vga_putchar
<1>3. /\ m \in Screens /\ m.up = s.up /\ m.col = s.col /\ Cursor(m) = Cursor(s)
  BY <1>1, GlyphStored, Zenon
<1>4. Blank(s) => BlankFrom(m, Cursor(s) + 1)
  BY <1>1, GlyphBlank
<1> HIDE DEF m
<1>5. Advances(m, t, 1) /\ Cursor(t) = Cursor(s) + 1
  <2>1. s.col + 1 \in Nat /\ s.col + 1 > m.col /\ s.col + 1 = m.col + 1
    BY <1>3, ScreenFields
  <2> QED
    BY <1>2, <1>3, <2>1, MoveToAdvances
<1>6. Cursor(s) + 1 \in Int
  BY PosIn
<1>7. Blank(s) => Blank(t)
  BY <1>3, <1>4, <1>5, <1>6, FollowsBlank DEF Advances, Blank
<1> QED
  BY <1>3, <1>5, <1>7 DEF Advances

LEMMA PutGlyphShows ==
  ASSUME NEW s \in Screens, NEW c \in Glyphs, NEW t, t = vga_putchar(s, c),
         NEW a \in Int, NEW n \in Nat, NEW text, Shows(s, a, n, text)
  PROVE  /\ a + n <= Cursor(s) => Shows(t, a, n, text)
         /\ a + n = Cursor(s) /\ text[n + 1] = c => Shows(t, a, n + 1, text)
<1> DEFINE m == [s EXCEPT !.cells[Pos(s)] = c]
<1>1. c \in Chars /\ c \notin {NL, CR, BS, HT}
  BY ConsoleAssumption DEF Chars
<1>2. t = MoveTo(m, s.col + 1)
  BY <1>1, Zenon DEF vga_putchar
<1>3. /\ m \in Screens /\ m.up = s.up /\ m.col = s.col /\ Cursor(m) = Cursor(s)
  BY <1>1, GlyphStored, Zenon
<1>4. /\ a + n <= Cursor(s) => Shows(m, a, n, text)
      /\ a + n = Cursor(s) /\ text[n + 1] = c => Shows(m, a, n + 1, text)
  BY <1>1, GlyphShows, Zenon
<1> HIDE DEF m
<1>5. t \in Screens /\ Follows(m, t)
  <2>1. s.col + 1 \in Nat /\ s.col + 1 > m.col /\ s.col + 1 = m.col + 1
    BY <1>3, ScreenFields
  <2> QED
    BY <1>2, <1>3, <2>1, MoveToAdvances DEF Advances
<1>6. Cursor(s) \in Nat
  BY PosIn
<1>7. ASSUME a + n <= Cursor(s) PROVE Shows(t, a, n, text)
  <2>1. a + n <= Cursor(m) + 1
    BY <1>3, <1>6, <1>7
  <2> QED
    BY <1>3, <1>4, <1>5, <1>7, <2>1, FollowsShows
<1>8. ASSUME a + n = Cursor(s), text[n + 1] = c PROVE Shows(t, a, n + 1, text)
  <2>1. a + (n + 1) <= Cursor(m) + 1 /\ n + 1 \in Nat
    BY <1>3, <1>6, <1>8
  <2> QED
    BY <1>3, <1>4, <1>5, <1>8, <2>1, FollowsShows
<1> QED
  BY <1>7, <1>8

(* The other characters.                                                   *)
LEMMA PutNewline ==
  ASSUME NEW s \in Screens
  PROVE  Advances(s, vga_putchar(s, NL), 1)
<1>1. vga_putchar(s, NL) = NewRow(s)
  BY Zenon DEF vga_putchar, HT, NL, CR, BS
<1>2. /\ s.col \in 0 .. WIDTH - 1 /\ WIDTH \in Nat /\ Cursor(s) \in Nat
      /\ NewRow(s) \in Screens /\ Follows(s, NewRow(s))
      /\ Cursor(NewRow(s)) = Cursor(s) + (WIDTH - s.col)
      /\ NewRow(s).up # s.up => Pos(NewRow(s)) = (HEIGHT - 1) * WIDTH
  BY PosIn, ScreenFields, NewRowMoves
<1> QED
  BY <1>1, <1>2 DEF Advances

LEMMA PutTab ==
  ASSUME NEW s \in Screens
  PROVE  Advances(s, vga_putchar(s, HT), 1)
<1> DEFINE col == ((s.col + TAB) \div TAB) * TAB
<1>1. s.col \in Nat /\ TAB \in Nat \ {0}
  BY ScreenFields, VgaAssumption
<1>2. \A x \in Nat, y \in Nat \ {0} : ((x + y) \div y) * y \in Nat /\ ((x + y) \div y) * y > x
  BY SMT
<1>3. col \in Nat /\ col > s.col
  BY <1>1, <1>2, Zenon
<1>4. vga_putchar(s, HT) = MoveTo(s, col)
  BY Zenon DEF vga_putchar, HT, NL, CR, BS
<1> HIDE DEF col
<1> QED
  BY <1>3, <1>4, MoveToAdvances

LEMMA AdvancesBlank ==
  ASSUME NEW s \in Screens, NEW t, Advances(s, t, 1), Blank(s)
  PROVE  Blank(t)
<1>1. Cursor(s) \in Nat /\ Cursor(t) \in Nat /\ First(t) \in Nat /\ Cursor(t) >= Cursor(s)
  BY PosIn DEF Advances
<1>2. BlankFrom(t, Cursor(s))
  BY <1>1, FollowsBlank DEF Advances, Blank
<1>3. ASSUME NEW i \in Cells, First(t) + i >= Cursor(t) PROVE First(t) + i >= Cursor(s)
  BY <1>1, <1>3 DEF Cells
<1> QED
  BY <1>2, <1>3 DEF Blank, BlankFrom

LEMMA BackspaceIs ==
  ASSUME NEW s \in Screens, NEW t, t = vga_putchar(s, BS)
  PROVE  /\ t \in Screens /\ t.cells = s.cells /\ t.up = s.up
         /\ Pos(t) = IF Pos(s) = 0 THEN 0 ELSE Pos(s) - 1
<1>1. /\ s.col \in 0 .. WIDTH - 1 /\ s.row \in 0 .. HEIGHT - 1 /\ WIDTH \in Nat \ {0}
      /\ HEIGHT \in Nat /\ s.row * WIDTH \in Nat /\ Pos(s) = s.row * WIDTH + s.col
  BY PosIn, ScreenFields
<1>2. t = Backspace(s)
  BY Zenon DEF vga_putchar, HT, NL, CR, BS
<1>3. CASE s.col > 0
  <2>1. t = [s EXCEPT !.col = s.col - 1]
    BY <1>2, <1>3 DEF Backspace, Screens
  <2>2. s.col - 1 \in 0 .. WIDTH - 1
    BY <1>1, <1>3
  <2>3. t \in Screens /\ t.cells = s.cells /\ t.row = s.row /\ t.col = s.col - 1 /\ t.up = s.up
    BY <2>1, <2>2, SetCol
  <2> QED
    BY <1>1, <1>3, <2>3 DEF Pos
<1>4. CASE s.col = 0 /\ s.row > 0
  <2> DEFINE m == [s EXCEPT !.row = s.row - 1]
  <2>1. t = [m EXCEPT !.col = WIDTH - 1]
    BY <1>2, <1>4 DEF Backspace, Screens
  <2>2. s.row - 1 \in 0 .. HEIGHT - 1 /\ WIDTH - 1 \in 0 .. WIDTH - 1
    BY <1>1, <1>4
  <2>3. m \in Screens /\ m.cells = s.cells /\ m.row = s.row - 1 /\ m.col = s.col /\ m.up = s.up
    BY <2>2, SetRow
  <2> HIDE DEF m
  <2>4. t \in Screens /\ t.cells = s.cells /\ t.row = s.row - 1 /\ t.col = WIDTH - 1 /\ t.up = s.up
    BY <2>1, <2>2, <2>3, SetCol
  <2>5. (s.row - 1) * WIDTH = s.row * WIDTH - WIDTH /\ s.row * WIDTH >= WIDTH
    <3>1. \A r \in Nat, w \in Nat : r > 0 => (r - 1) * w = r * w - w /\ r * w >= w
      BY SMT
    <3> QED
      BY <1>1, <1>4, <3>1
  <2> QED
    BY <1>1, <1>4, <2>4, <2>5 DEF Pos
<1>5. CASE s.col = 0 /\ s.row = 0
  <2>1. t = s
    BY <1>2, <1>5 DEF Backspace
  <2> QED
    BY <1>1, <1>5, <2>1
<1> QED
  BY <1>1, <1>3, <1>4, <1>5

LEMMA PutcharScreen ==
  ASSUME NEW s \in Screens, NEW c \in Chars
  PROVE  /\ vga_putchar(s, c) \in Screens
         /\ c \notin {BS, CR} /\ Blank(s) => Blank(vga_putchar(s, c))
<1>1. CASE c \in Glyphs
  BY <1>1, PutGlyph
<1>2. CASE c = NL
  BY <1>2, PutNewline, AdvancesBlank DEF Advances
<1>3. CASE c = HT
  BY <1>3, PutTab, AdvancesBlank DEF Advances
<1>4. CASE c = BS
  BY <1>4, BackspaceIs
<1>5. CASE c = CR
  <2>1. vga_putchar(s, CR) = [s EXCEPT !.col = 0]
    BY Zenon DEF vga_putchar, HT, NL, CR, BS
  <2>2. 0 \in 0 .. WIDTH - 1
    BY VgaAssumption
  <2> QED
    BY <1>5, <2>1, <2>2, SetCol
<1> QED
  BY <1>1, <1>2, <1>3, <1>4, <1>5 DEF Chars
-----------------------------------------------------------------------------
(* The screens that vga_puts goes through.                                 *)
Through(f, s, str, n) ==
  /\ f[0] = s
  /\ \A k \in 1 .. n : f[k] = vga_putchar(f[k - 1], str[k])

LEMMA PutsThrough ==
  ASSUME NEW s, NEW str, Len(str) \in Nat
  PROVE  \E f : Through(f, s, str, Len(str)) /\ vga_puts(s, str) = f[Len(str)]
<1> DEFINE IsPuts(f, n) ==
             f = [k \in 0 .. n |-> IF k = 0 THEN s ELSE vga_putchar(f[k - 1], str[k])]
           S == {n \in Nat : \E f : IsPuts(f, n)}
<1>1. 0 \in S
  <2> DEFINE f == [k \in 0 .. 0 |-> s]
  <2>1. \A k \in 0 .. 0 : k = 0
    OBVIOUS
  <2>2. IsPuts(f, 0)
    BY <2>1, Zenon
  <2> QED
    BY <2>2, Zenon
<1>2. ASSUME NEW n \in Nat, n \in S PROVE n + 1 \in S
  <2>1. PICK f : IsPuts(f, n)
    BY <1>2
  <2> DEFINE g == [k \in 0 .. n + 1 |->
                     IF k = n + 1 THEN vga_putchar(f[n], str[n + 1]) ELSE f[k]]
  <2>2. \A k \in 0 .. n : f[k] = IF k = 0 THEN s ELSE vga_putchar(f[k - 1], str[k])
    BY <2>1, Zenon
  <2>3. ASSUME NEW k \in 0 .. n + 1
        PROVE  g[k] = IF k = 0 THEN s ELSE vga_putchar(g[k - 1], str[k])
    <3>1. CASE k = n + 1
      <4>1. n \in 0 .. n + 1 /\ n # n + 1 /\ k # 0 /\ k - 1 = n
        BY <3>1
      <4> QED
        BY <3>1, <4>1
    <3>2. CASE k # n + 1
      <4>1. k \in 0 .. n /\ (k # 0 => k - 1 \in 0 .. n + 1 /\ k - 1 # n + 1)
        BY <3>2
      <4>2. g[k] = f[k] /\ (k # 0 => g[k - 1] = f[k - 1])
        BY <3>2, <4>1
      <4> QED
        BY <2>2, <4>1, <4>2, Zenon
    <3> QED
      BY <3>1, <3>2
  <2>4. g = [k \in 0 .. n + 1 |-> g[k]]
    OBVIOUS
  <2> HIDE DEF g
  <2>5. IsPuts(g, n + 1)
    BY <2>3, <2>4, Zenon
  <2> QED
    BY <2>5
<1> HIDE DEF S
<1>3. Len(str) \in S
  BY <1>1, <1>2, Induction
<1> DEFINE f == CHOOSE f : IsPuts(f, Len(str))
<1>4. IsPuts(f, Len(str))
  BY <1>3, Zenon DEF S
<1>5. vga_puts(s, str) = f[Len(str)]
  BY Zenon DEF vga_puts
<1> HIDE DEF f
<1>6. \A k \in 0 .. Len(str) : f[k] = IF k = 0 THEN s ELSE vga_putchar(f[k - 1], str[k])
  BY <1>4, Zenon
<1> HIDE DEF IsPuts
<1>7. 0 \in 0 .. Len(str) /\ \A k \in 1 .. Len(str) : k \in 0 .. Len(str) /\ k # 0
  OBVIOUS
<1>8. Through(f, s, str, Len(str))
  BY <1>6, <1>7, Zenon DEF Through
<1> QED
  BY <1>5, <1>8

(* What every character keeps, a string keeps.                             *)
LEMMA PutsInduction ==
  ASSUME NEW S, NEW s \in S, NEW str, Len(str) \in Nat,
         \A x \in S : \A k \in 1 .. Len(str) : vga_putchar(x, str[k]) \in S
  PROVE  vga_puts(s, str) \in S
<1>1. PICK f : Through(f, s, str, Len(str)) /\ vga_puts(s, str) = f[Len(str)]
  BY PutsThrough, Zenon
<1> DEFINE T == {n \in Nat : n <= Len(str) => f[n] \in S}
<1>2. 0 \in T
  BY <1>1 DEF Through
<1>3. ASSUME NEW n \in Nat, n \in T PROVE n + 1 \in T
  <2> SUFFICES ASSUME n + 1 <= Len(str) PROVE f[n + 1] \in S
    OBVIOUS
  <2>1. f[n] \in S /\ n + 1 \in 1 .. Len(str) /\ n + 1 - 1 = n
    BY <1>3
  <2>2. f[n + 1] = vga_putchar(f[n], str[n + 1])
    BY <1>1, <2>1 DEF Through
  <2> QED
    BY <2>1, <2>2
<1> HIDE DEF T
<1>4. Len(str) \in T
  BY <1>2, <1>3, Induction
<1> QED
  BY <1>1, <1>4 DEF T

LEMMA PutsScreen ==
  ASSUME NEW s \in Screens, NEW str \in Seq(Chars)
  PROVE  vga_puts(s, str) \in Screens
<1>1. Len(str) \in Nat /\ \A k \in 1 .. Len(str) : str[k] \in Chars
  OBVIOUS
<1>2. \A x \in Screens : \A k \in 1 .. Len(str) : vga_putchar(x, str[k]) \in Screens
  BY <1>1, PutcharScreen
<1> QED
  BY <1>1, <1>2, PutsInduction

LEMMA PutsBlank ==
  ASSUME NEW s \in Screens, Blank(s), NEW str \in Seq(Chars),
         \A k \in 1 .. Len(str) : str[k] \notin {BS, CR}
  PROVE  Blank(vga_puts(s, str))
<1> DEFINE S == {x \in Screens : Blank(x)}
<1>1. Len(str) \in Nat /\ \A k \in 1 .. Len(str) : str[k] \in Chars
  OBVIOUS
<1>2. \A x \in S : \A k \in 1 .. Len(str) : vga_putchar(x, str[k]) \in S
  BY <1>1, PutcharScreen
<1>3. s \in S
  OBVIOUS
<1> HIDE DEF S
<1>4. vga_puts(s, str) \in S
  BY <1>1, <1>2, <1>3, PutsInduction
<1> QED
  BY <1>4 DEF S

(* The last characters of a string, if they are shown, stand just before   *)
(* the cursor when it has been printed.                                    *)
LEMMA PutsShows ==
  ASSUME NEW s \in Screens, NEW str \in Seq(Chars), NEW m \in 0 .. Len(str),
         NEW text, \A k \in 1 .. Len(str) - m : str[m + k] \in Glyphs /\ text[k] = str[m + k]
  PROVE  LET t == vga_puts(s, str)
         IN  Shows(t, Cursor(t) - (Len(str) - m), Len(str) - m, text)
<1>0. Len(str) \in Nat /\ \A k \in 1 .. Len(str) : str[k] \in Chars
  OBVIOUS
<1>1. PICK f : Through(f, s, str, Len(str)) /\ vga_puts(s, str) = f[Len(str)]
  BY <1>0, PutsThrough
<1> DEFINE T == {n \in Nat : n <= Len(str) =>
                    /\ f[n] \in Screens
                    /\ n >= m => Shows(f[n], Cursor(f[n]) - (n - m), n - m, text)}
<1>2. 0 \in T
  <2>1. f[0] \in Screens
    BY <1>1 DEF Through
  <2>2. Shows(f[0], Cursor(f[0]) - (0 - 0), 0 - 0, text)
    BY DEF Shows
  <2> QED
    BY <2>1, <2>2
<1>3. ASSUME NEW n \in Nat, n \in T PROVE n + 1 \in T
  <2> SUFFICES ASSUME n + 1 <= Len(str)
               PROVE  /\ f[n + 1] \in Screens
                      /\ n + 1 >= m => Shows(f[n + 1], Cursor(f[n + 1]) - (n + 1 - m), n + 1 - m, text)
    OBVIOUS
  <2>1. /\ f[n] \in Screens /\ n + 1 \in 1 .. Len(str) /\ n + 1 - 1 = n
        /\ n >= m => Shows(f[n], Cursor(f[n]) - (n - m), n - m, text)
    BY <1>3
  <2>2. f[n + 1] = vga_putchar(f[n], str[n + 1]) /\ str[n + 1] \in Chars
    BY <1>0, <1>1, <2>1 DEF Through
  <2>3. f[n + 1] \in Screens
    BY <2>1, <2>2, PutcharScreen
  <2>4. CASE n + 1 = m
    BY <2>3, <2>4 DEF Shows
  <2>5. CASE n >= m
    <3> DEFINE k == n - m
               a == Cursor(f[n]) - k
    <3>1. k \in Nat /\ k + 1 \in 1 .. Len(str) - m /\ m + (k + 1) = n + 1
      BY <2>5
    <3>2. str[n + 1] \in Glyphs /\ text[k + 1] = str[n + 1]
      BY <3>1
    <3>3. Cursor(f[n]) \in Nat /\ Cursor(f[n + 1]) = Cursor(f[n]) + 1
      BY <2>1, <2>2, <3>2, PosIn, PutGlyph, Zenon
    <3>4. a \in Int /\ a + k = Cursor(f[n]) /\ a = Cursor(f[n + 1]) - (n + 1 - m) /\ k + 1 = n + 1 - m
      <4> DEFINE x == Cursor(f[n])
                 y == Cursor(f[n + 1])
      <4>1. x \in Nat /\ y = x + 1 /\ a = x - k
        BY <3>3
      <4>2. k + 1 = n + 1 - m /\ k \in Nat
        BY <3>1
      <4> HIDE DEF x, y, k, a
      <4>3. a \in Int /\ a + k = x /\ a = y - (k + 1)
        BY <4>1, <4>2
      <4> QED
        BY <4>2, <4>3, Zenon DEF x, y
    <3>5. Shows(f[n], a, k, text)
      BY <2>1, <2>5
    <3> HIDE DEF a, k
    <3>6. Shows(f[n + 1], a, k + 1, text)
      BY <2>1, <2>2, <3>1, <3>2, <3>4, <3>5, PutGlyphShows, SMTT(30)
    <3> QED
      BY <2>3, <3>4, <3>6
  <2> QED
    BY <2>3, <2>4, <2>5
<1> HIDE DEF T
<1>4. Len(str) \in T
  BY <1>0, <1>2, <1>3, Induction, SMTT(30)
<1> QED
  BY <1>1, <1>4 DEF T
-----------------------------------------------------------------------------
(* A new line: the prompt stands before the cursor.                        *)
LEMMA ForgetIs ==
  ASSUME NEW u \in Screens, NEW t, t = Forget(u)
  PROVE  /\ t \in Screens /\ t.up = 0 /\ First(t) = 0 /\ Pos(t) = Pos(u)
         /\ \A i \in Cells : i + Len(PROMPT) >= Pos(u) => t.cells[i] = u.cells[i]
<1> DEFINE keep == [i \in Cells |-> IF i + Len(PROMPT) < Pos(u) THEN SP ELSE u.cells[i]]
           m == [u EXCEPT !.up = 0]
<1>0. /\ Len(PROMPT) \in Nat /\ Pos(u) \in Cells /\ u.cells \in [Cells -> Chars]
      /\ SP \in Chars /\ Cells \subseteq Int /\ WIDTH \in Nat
  BY PosIn, ScreenFields, ConsoleAssumption DEF Chars, Cells
<1>1. t = [m EXCEPT !.cells = keep]
  BY DEF Forget
<1>2. keep \in [Cells -> Chars]
  BY <1>0
<1>3. m \in Screens /\ m.cells = u.cells /\ m.row = u.row /\ m.col = u.col /\ m.up = 0
  BY SetUp
<1> HIDE DEF m
<1>4. \A i \in Cells : i + Len(PROMPT) >= Pos(u) => keep[i] = u.cells[i]
  <2>1. ASSUME NEW i \in Cells, i + Len(PROMPT) >= Pos(u) PROVE ~ (i + Len(PROMPT) < Pos(u))
    <3>1. i \in Int /\ Pos(u) \in Int /\ Len(PROMPT) \in Nat
      BY <1>0, Zenon
    <3> QED
      BY <2>1, <3>1
  <2> QED
    BY <2>1, Zenon
<1> HIDE DEF keep
<1>5. t \in Screens /\ t.cells = keep /\ t.row = m.row /\ t.col = m.col /\ t.up = m.up
  BY <1>1, <1>2, <1>3, SetCells
<1>6. First(t) = 0 /\ Pos(t) = Pos(u)
  BY <1>0, <1>3, <1>5 DEF First, Pos
<1> QED
  BY <1>3, <1>4, <1>5, <1>6

LEMMA NewLineShows ==
  ASSUME NEW s \in Screens, NEW text \in Seq(Chars), NewLine(s, text)
  PROVE  /\ screen' \in Screens /\ home' \in Nat /\ tabs' = 0 /\ buf' = <<>>
         /\ (Shows(screen, home - Len(PROMPT), Len(PROMPT), PROMPT))'
         /\ Cursor(screen') = home'
<1> DEFINE str == text \o PROMPT
           u == vga_puts(s, str)
           m == Len(text)
<1>0. /\ PROMPT \in Seq(Glyphs) /\ PROMPT \in Seq(Chars) /\ Len(PROMPT) \in Nat /\ m \in Nat
      /\ str \in Seq(Chars) /\ Len(str) = m + Len(PROMPT)
  BY ConsoleAssumption DEF Chars
<1>1. screen' = Forget(u) /\ home' = Pos(screen') /\ tabs' = 0 /\ buf' = <<>>
  BY DEF NewLine
<1>2. \A k \in 1 .. Len(PROMPT) : str[m + k] \in Glyphs /\ PROMPT[k] = str[m + k]
  BY <1>0
<1>3. Len(str) - m = Len(PROMPT) /\ m \in 0 .. Len(str)
  BY <1>0
<1> HIDE DEF str
<1>4. u \in Screens
  BY <1>0, PutsScreen
<1>5. Shows(u, Cursor(u) - Len(PROMPT), Len(PROMPT), PROMPT)
  <2>1. \A k \in 1 .. Len(str) - m : str[m + k] \in Glyphs /\ PROMPT[k] = str[m + k]
    BY <1>2, <1>3, SMTT(30)
  <2>2. Shows(u, Cursor(u) - (Len(str) - m), Len(str) - m, PROMPT)
    BY <1>0, <1>3, <2>1, PutsShows, Zenon
  <2> QED
    BY <1>3, <2>2
<1> HIDE DEF u
<1> DEFINE t == screen'
<1>6. /\ t \in Screens /\ First(t) = 0 /\ Pos(t) = Pos(u)
      /\ \A i \in Cells : i + Len(PROMPT) >= Pos(u) => t.cells[i] = u.cells[i]
  BY <1>1, <1>4, ForgetIs
<1>7. Pos(u) \in Nat /\ First(u) \in Nat /\ Cursor(u) = First(u) + Pos(u) /\ Cursor(t) = Pos(u)
  BY <1>4, <1>6, PosIn DEF Cursor, Cells
<1>8. home' = Pos(u)
  BY <1>1, <1>6
<1> HIDE DEF t
<1>9. Shows(t, Pos(u) - Len(PROMPT), Len(PROMPT), PROMPT)
  <2> SUFFICES ASSUME NEW k \in 1 .. Len(PROMPT), Pos(u) - Len(PROMPT) + k - 1 - First(t) \in Cells
               PROVE  t.cells[Pos(u) - Len(PROMPT) + k - 1 - First(t)] = PROMPT[k]
    BY DEF Shows
  <2> DEFINE p == Pos(u) - Len(PROMPT) + k - 1
  <2>1. p - First(t) = p /\ p \in Cells /\ p + Len(PROMPT) >= Pos(u)
    BY <1>0, <1>6, <1>7
  <2>2. p = Cursor(u) - Len(PROMPT) + k - 1 - First(u)
    BY <1>0, <1>7
  <2>3. u.cells[p] = PROMPT[k]
    BY <1>5, <2>1, <2>2 DEF Shows
  <2> HIDE DEF p
  <2> QED
    BY <1>6, <2>1, <2>3 DEF p
<1>10. (Shows(screen, home - Len(PROMPT), Len(PROMPT), PROMPT))'
  BY <1>8, <1>9 DEF t, Shows, First
<1> QED
  BY <1>1, <1>6, <1>7, <1>8, <1>10 DEF t

LEMMA NewLineBlank ==
  ASSUME NEW s \in Screens, NEW text \in Seq(Chars), NewLine(s, text),
         Blank(s), \A k \in 1 .. Len(text) : text[k] \notin {BS, CR}
  PROVE  Blank(screen')
<1> DEFINE str == text \o PROMPT
           u == vga_puts(s, str)
<1>0. /\ PROMPT \in Seq(Glyphs) /\ PROMPT \in Seq(Chars) /\ Len(PROMPT) \in Nat
      /\ str \in Seq(Chars) /\ Len(str) = Len(text) + Len(PROMPT)
  BY ConsoleAssumption DEF Chars
<1>1. \A k \in 1 .. Len(str) : str[k] \notin {BS, CR}
  <2>1. ASSUME NEW k \in 1 .. Len(str) PROVE str[k] \in Glyphs \/ str[k] \notin {BS, CR}
    <3>1. CASE k <= Len(text)
      BY <1>0, <3>1
    <3>2. CASE k > Len(text)
      BY <1>0, <3>2
    <3> QED
      BY <1>0, <3>1, <3>2
  <2> QED
    BY <2>1, ConsoleAssumption
<1> HIDE DEF str
<1>2. u \in Screens /\ Blank(u)
  BY <1>0, <1>1, PutsScreen, PutsBlank, SMTT(30)
<1>3. screen' = Forget(u)
  BY DEF NewLine, str
<1> HIDE DEF u
<1> DEFINE t == screen'
<1>4. /\ t \in Screens /\ First(t) = 0 /\ Pos(t) = Pos(u)
      /\ \A i \in Cells : i + Len(PROMPT) >= Pos(u) => t.cells[i] = u.cells[i]
  BY <1>2, <1>3, ForgetIs
<1>5. Pos(u) \in Nat /\ First(u) \in Nat /\ Cursor(u) = First(u) + Pos(u) /\ Cursor(t) = Pos(u)
  BY <1>2, <1>4, PosIn DEF Cursor, Cells
<1> HIDE DEF t
<1>6. ASSUME NEW i \in Cells, First(t) + i >= Cursor(t) PROVE t.cells[i] = SP
  <2>1. i + Len(PROMPT) >= Pos(u) /\ First(u) + i >= Cursor(u)
    BY <1>0, <1>4, <1>5, <1>6 DEF Cells
  <2> QED
    BY <1>2, <1>4, <2>1 DEF Blank, BlankFrom
<1> QED
  BY <1>6 DEF Blank, BlankFrom, t
-----------------------------------------------------------------------------
(* Backspace, space, backspace: the last character is gone.                *)
LEMMA PutGlyphCells ==
  ASSUME NEW s \in Screens, NEW c \in Glyphs, NEW t, t = vga_putchar(s, c)
  PROVE  /\ t.up \in {s.up, s.up + 1}
         /\ t.up = s.up =>
              \A i \in Cells : t.cells[i] = IF i = Pos(s) THEN c ELSE s.cells[i]
<1> DEFINE m == [s EXCEPT !.cells[Pos(s)] = c]
<1>1. c \in Chars /\ c \notin {NL, CR, BS, HT}
  BY ConsoleAssumption DEF Chars
<1>2. t = MoveTo(m, s.col + 1)
  BY <1>1, Zenon DEF vga_putchar
<1>3. /\ m \in Screens /\ m.up = s.up /\ m.col = s.col
      /\ m.cells = [s.cells EXCEPT ![Pos(s)] = c]
  BY <1>1, GlyphStored, ZenonT(30)
<1> HIDE DEF m
<1>4. t \in Screens /\ Follows(m, t)
  <2>1. s.col + 1 \in Nat /\ s.col + 1 > m.col
    BY <1>3, ScreenFields
  <2> QED
    BY <1>2, <1>3, <2>1, MoveToAdvances DEF Advances
<1>5. \A i \in Cells : m.cells[i] = IF i = Pos(s) THEN c ELSE s.cells[i]
  BY <1>3, ScreenFields
<1>6. ASSUME t.up = s.up, NEW i \in Cells PROVE t.cells[i] = m.cells[i]
  <2>1. First(t) = First(m) /\ First(m) \in Nat
    BY <1>3, <1>6, PosIn DEF First
  <2>2. i + (First(t) - First(m)) = i
    BY <2>1 DEF Cells
  <2> QED
    BY <1>4, <2>2, Zenon DEF Follows
<1> QED
  BY <1>3, <1>4, <1>5, <1>6 DEF Follows

LEMMA EraseMoves ==
  ASSUME NEW s \in Screens, Pos(s) > 0, NEW t, t = vga_puts(s, ERASE)
  PROVE  /\ t \in Screens /\ t.up = s.up /\ Pos(t) = Pos(s) - 1
         /\ \A i \in Cells : t.cells[i] = IF i = Pos(s) - 1 THEN SP ELSE s.cells[i]
<1>1. Len(ERASE) = 3 /\ ERASE[1] = BS /\ ERASE[2] = SP /\ ERASE[3] = BS
  BY DEF ERASE
<1>2. PICK f : Through(f, s, ERASE, 3) /\ t = f[3]
  <2>1. Len(ERASE) \in Nat
    BY <1>1
  <2> QED
    BY <1>1, <2>1, PutsThrough, Zenon
<1> DEFINE x == f[1]
           y == f[2]
<1>3. x = vga_putchar(s, BS) /\ y = vga_putchar(x, SP) /\ t = vga_putchar(y, BS)
  <2>1. \A k \in 1 .. 3 : f[k] = vga_putchar(f[k - 1], ERASE[k])
    BY <1>2 DEF Through
  <2>2. f[0] = s
    BY <1>2 DEF Through
  <2>3. f[1] = vga_putchar(f[1 - 1], ERASE[1]) /\ f[2] = vga_putchar(f[2 - 1], ERASE[2])
        /\ f[3] = vga_putchar(f[3 - 1], ERASE[3])
    BY <2>1
  <2>4. 1 - 1 = 0 /\ 2 - 1 = 1 /\ 3 - 1 = 2
    OBVIOUS
  <2> QED
    BY <1>1, <1>2, <2>2, <2>3, <2>4, Zenon
<1> HIDE DEF x, y
<1>4. /\ Pos(s) \in Nat /\ First(s) \in Nat /\ WIDTH \in Nat \ {0} /\ HEIGHT \in Nat \ {0}
      /\ Pos(s) < HEIGHT * WIDTH /\ HEIGHT * WIDTH = (HEIGHT - 1) * WIDTH + WIDTH
      /\ (HEIGHT - 1) * WIDTH \in Nat
  <2>1. Pos(s) \in Cells /\ First(s) \in Nat /\ WIDTH \in Nat \ {0} /\ HEIGHT \in Nat \ {0}
    BY PosIn
  <2>2. \A h \in Nat \ {0}, w \in Nat \ {0} : h * w = (h - 1) * w + w /\ (h - 1) * w \in Nat /\ w * h = h * w /\ h * w \in Nat
    BY SMT
  <2> QED
    BY <2>1, <2>2 DEF Cells
<1>5. x \in Screens /\ x.cells = s.cells /\ x.up = s.up /\ Pos(x) = Pos(s) - 1
  BY <1>3, <1>4, BackspaceIs
<1>6. First(x) = First(s) /\ Cursor(x) = First(s) + (Pos(s) - 1)
  BY <1>5 DEF First, Cursor
<1>7. /\ y \in Screens /\ Cursor(y) = Cursor(x) + 1 /\ y.up \in {x.up, x.up + 1}
      /\ y.up # x.up => Pos(y) = (HEIGHT - 1) * WIDTH
      /\ y.up = x.up => \A i \in Cells : y.cells[i] = IF i = Pos(x) THEN SP ELSE x.cells[i]
  <2>1. SP \in Glyphs
    BY ConsoleAssumption
  <2>2. /\ y \in Screens /\ Cursor(y) = Cursor(x) + 1
        /\ y.up # x.up => Pos(y) = (HEIGHT - 1) * WIDTH
    BY <1>3, <1>5, <2>1, PutGlyph, Zenon
  <2>3. /\ y.up \in {x.up, x.up + 1}
        /\ y.up = x.up => \A i \in Cells : y.cells[i] = IF i = Pos(x) THEN SP ELSE x.cells[i]
    BY <1>3, <1>5, <2>1, PutGlyphCells
  <2> QED
    BY <2>2, <2>3, Zenon
<1>8. y.up = s.up
  <2>1. ASSUME y.up # x.up PROVE FALSE
    <3>1. First(y) = First(x) + WIDTH /\ Pos(y) = (HEIGHT - 1) * WIDTH
      BY <1>5, <1>7, <2>1, FirstOf, ScreenFields
    <3>2. Cursor(y) = First(s) + WIDTH + (HEIGHT - 1) * WIDTH
      BY <3>1, <1>6 DEF Cursor
    <3> QED
      BY <3>2, <1>4, <1>6, <1>7, SMTT(30)
  <2> QED
    BY <2>1, <1>5
<1>9. Pos(y) = Pos(s)
  <2>1. Cursor(y) = First(s) + Pos(y) /\ Pos(y) \in Int
    BY <1>7, <1>8, PosIn DEF Cursor, First, Cells
  <2>2. Cursor(y) = First(s) + (Pos(s) - 1) + 1 /\ First(s) \in Int /\ Pos(s) \in Int
    BY <1>4, <1>6, <1>7, SMTT(30)
  <2> QED
    BY <2>1, <2>2
<1>10. t \in Screens /\ t.cells = y.cells /\ t.up = y.up /\ Pos(t) = Pos(s) - 1
  BY <1>3, <1>4, <1>7, <1>9, BackspaceIs, SMTT(30)
<1> QED
  BY <1>5, <1>7, <1>8, <1>10

LEMMA EraseShows ==
  ASSUME NEW s \in Screens, Pos(s) > 0, NEW t, t = vga_puts(s, ERASE)
  PROVE  /\ Blank(s) => Blank(t)
         /\ \A a \in Int, n \in Nat : \A text :
              a + n < Cursor(s) /\ Shows(s, a, n, text) => Shows(t, a, n, text)
<1>1. /\ t \in Screens /\ t.up = s.up /\ Pos(t) = Pos(s) - 1
      /\ \A i \in Cells : t.cells[i] = IF i = Pos(s) - 1 THEN SP ELSE s.cells[i]
  BY EraseMoves
<1>2. /\ First(t) = First(s) /\ First(s) \in Nat /\ Pos(s) \in Nat
      /\ Cursor(s) = First(s) + Pos(s) /\ Cursor(t) = First(s) + (Pos(s) - 1)
  BY <1>1, PosIn DEF First, Cursor, Cells
<1>3. ASSUME Blank(s), NEW i \in Cells, First(t) + i >= Cursor(t) PROVE t.cells[i] = SP
  <2>1. i = Pos(s) - 1 \/ First(s) + i >= Cursor(s)
    BY <1>2, <1>3 DEF Cells
  <2> QED
    BY <1>1, <1>3, <2>1 DEF Blank, BlankFrom
<1>4. ASSUME NEW a \in Int, NEW n \in Nat, NEW text, a + n < Cursor(s), Shows(s, a, n, text),
             NEW k \in 1 .. n, a + k - 1 - First(t) \in Cells
      PROVE  t.cells[a + k - 1 - First(t)] = text[k]
  <2> DEFINE p == a + k - 1 - First(s)
  <2>1. p \in Cells /\ p # Pos(s) - 1
    BY <1>2, <1>4
  <2>2. s.cells[p] = text[k]
    BY <1>4, <2>1 DEF Shows
  <2> QED
    BY <1>1, <1>2, <2>1, <2>2
<1> QED
  BY <1>3, <1>4 DEF Blank, BlankFrom, Shows
-----------------------------------------------------------------------------
LEMMA ButLast ==
  ASSUME NEW S, NEW q \in Seq(S), Len(q) > 0
  PROVE  LET r == SubSeq(q, 1, Len(q) - 1)
         IN  /\ r \in Seq(S) /\ Len(r) = Len(q) - 1
             /\ \A k \in 1 .. Len(q) - 1 : r[k] = q[k]
<1> DEFINE n == Len(q) - 1
           r == SubSeq(q, 1, n)
<1>1. n \in Nat /\ n <= Len(q)
  OBVIOUS
<1>2. r = [k \in 1 .. n |-> q[k]]
  <2>1. r = [k \in 1 .. n |-> q[k + 0]]
    BY <1>1
  <2> QED
    BY <2>1, <1>1
<1>3. \A k \in 1 .. n : k \in 1 .. Len(q) /\ q[k] \in S
  BY <1>1
<1> HIDE DEF n
<1>4. r \in [1 .. n -> S]
  BY <1>2, <1>3, Zenon
<1>5. Len(r) = n
  BY <1>1, <1>2
<1>6. r \in Seq(S)
  BY <1>1, <1>4
<1>7. \A k \in 1 .. n : r[k] = q[k]
  BY <1>2, Zenon
<1> QED
  BY <1>5, <1>6, <1>7 DEF n

(* The prompt is where it was printed, and each character in the buffer    *)
(* has moved the cursor on by one place or more, without scrolling the     *)
(* line away.                                                              *)
Typed == Glyphs \cup {HT}
LineInv ==
  /\ screen \in Screens /\ home \in Nat /\ tabs \in Nat
  /\ buf \in Seq(Typed) /\ Len(buf) <= CMD_BUF - 1
PromptInv ==
  Editing => /\ Shows(screen, home - Len(PROMPT), Len(PROMPT), PROMPT)
             /\ Cursor(screen) >= home + Len(buf) /\ Pos(screen) >= Len(buf)

(* Without a tab it is one place exactly, and the buffer follows the       *)
(* prompt.                                                                 *)
EchoInv ==
  /\ Blank(screen)
  /\ Editing /\ tabs = 0 =>
       Cursor(screen) = home + Len(buf) /\ Shows(screen, home, Len(buf), buf)

LEMMA NewLineInv ==
  ASSUME NEW s \in Screens, NEW text \in Seq(Chars), NewLine(s, text)
  PROVE  /\ LineInv' /\ PromptInv'
         /\ (\A k \in 1 .. Len(text) : text[k] \notin {BS, CR}) /\ Blank(s) => EchoInv'
<1>1. /\ screen' \in Screens /\ home' \in Nat /\ tabs' = 0 /\ buf' = <<>>
      /\ (Shows(screen, home - Len(PROMPT), Len(PROMPT), PROMPT))'
      /\ Cursor(screen') = home'
  BY NewLineShows
<1>2. Len(buf') = 0 /\ buf' \in Seq(Typed) /\ 0 <= CMD_BUF - 1
  BY <1>1, ConsoleAssumption
<1>3. Pos(screen') \in Cells /\ Cells \subseteq Nat
  BY <1>1, PosIn DEF Cells
<1>4. LineInv'
  BY <1>1, <1>2 DEF LineInv
<1>5. PromptInv'
  <2>1. Cursor(screen') >= home' + Len(buf') /\ Pos(screen') >= Len(buf')
    <3>1. Cursor(screen') = home' /\ home' \in Nat
      BY <1>1
    <3>2. Pos(screen') \in Nat
      BY <1>3, Zenon
    <3>3. Len(buf') = 0
      BY <1>2
    <3>4. \A x, p \in Nat : x >= x + 0 /\ p >= 0
      BY SMT
    <3> QED
      BY <3>1, <3>2, <3>3, <3>4, Zenon
  <2> QED
    BY <1>1, <2>1 DEF PromptInv, Cursor, First, Pos
<1>6. ASSUME Blank(screen') PROVE EchoInv'
  <2>1. (Blank(screen))'
    BY <1>6 DEF Blank, BlankFrom, First, Cursor, Pos
  <2>2. (Cursor(screen) = home + Len(buf))'
    BY <1>1, <1>2 DEF Cursor, First, Pos
  <2>3. (Shows(screen, home, Len(buf), buf))'
    BY <1>2 DEF Shows
  <2> QED
    BY <2>1, <2>2, <2>3 DEF EchoInv
<1>7. (\A k \in 1 .. Len(text) : text[k] \notin {BS, CR}) /\ Blank(s) => Blank(screen')
  BY NewLineBlank
<1> QED
  BY <1>4, <1>5, <1>6, <1>7

LEMMA Step_Erase ==
  ASSUME LineInv, PromptInv, Editing, Erase
  PROVE  LineInv' /\ PromptInv' /\ (EchoInv => EchoInv')
<1>1. /\ Len(buf) > 0 /\ buf' = SubSeq(buf, 1, Len(buf) - 1)
      /\ screen' = vga_puts(screen, ERASE) /\ UNCHANGED <<editor, running, home, tabs>>
  BY DEF Erase, EraseGuard
<1>2. /\ screen \in Screens /\ home \in Nat /\ tabs \in Nat
      /\ buf \in Seq(Typed) /\ Len(buf) <= CMD_BUF - 1 /\ Len(buf) \in Nat
  BY DEF LineInv
<1>3. /\ buf' \in Seq(Typed) /\ Len(buf') = Len(buf) - 1
      /\ \A k \in 1 .. Len(buf) - 1 : buf'[k] = buf[k]
  BY <1>1, <1>2, ButLast
<1>4. /\ Shows(screen, home - Len(PROMPT), Len(PROMPT), PROMPT)
      /\ Cursor(screen) >= home + Len(buf) /\ Pos(screen) >= Len(buf)
  BY DEF PromptInv
<1>5. /\ Cursor(screen) \in Nat /\ Pos(screen) \in Nat /\ First(screen) \in Nat
      /\ Cursor(screen) = First(screen) + Pos(screen)
  BY <1>2, PosIn DEF Cursor, Cells
<1>6. Pos(screen) > 0
  BY <1>1, <1>2, <1>4, <1>5, SMTT(30)
<1> DEFINE t == screen'
<1>7. t \in Screens /\ t.up = screen.up /\ Pos(t) = Pos(screen) - 1
  BY <1>1, <1>2, <1>6, EraseMoves
<1>8. /\ Blank(screen) => Blank(t)
      /\ \A a \in Int, n \in Nat : \A text :
           a + n < Cursor(screen) /\ Shows(screen, a, n, text) => Shows(t, a, n, text)
  BY <1>1, <1>2, <1>6, EraseShows
<1> HIDE DEF t
<1>9. Cursor(t) = Cursor(screen) - 1
  BY <1>5, <1>7, SMTT(30) DEF Cursor, First
<1>10. LineInv'
  BY <1>1, <1>2, <1>3, <1>7, ConsoleAssumption, SMTT(30) DEF LineInv, t
<1>11. PromptInv'
  <2>1. Shows(t, home - Len(PROMPT), Len(PROMPT), PROMPT)
    <3>1. Len(PROMPT) \in Nat
      BY ConsoleAssumption
    <3>2. home - Len(PROMPT) \in Int /\ home - Len(PROMPT) + Len(PROMPT) < Cursor(screen)
      BY <3>1, <1>1, <1>2, <1>4, <1>5, SMTT(30)
    <3> QED
      BY <3>1, <3>2, <1>4, <1>8
  <2>2. Cursor(t) >= home + Len(buf') /\ Pos(t) >= Len(buf')
    BY <1>2, <1>3, <1>4, <1>5, <1>7, <1>9, SMTT(30)
  <2> QED
    BY <1>1, <2>1, <2>2 DEF PromptInv, Shows, Cursor, First, Pos, t
<1>12. ASSUME EchoInv PROVE EchoInv'
  <2>1. Blank(t)
    BY <1>8, <1>12 DEF EchoInv
  <2>2. ASSUME tabs = 0 PROVE Cursor(t) = home + Len(buf') /\ Shows(t, home, Len(buf'), buf')
    <3>1. Cursor(screen) = home + Len(buf) /\ Shows(screen, home, Len(buf), buf)
      BY <1>12, <2>2 DEF EchoInv
    <3>2. Shows(screen, home, Len(buf'), buf')
      BY <3>1, <1>2, <1>3, SMTT(30) DEF Shows
    <3>3. home + Len(buf') < Cursor(screen) /\ Len(buf') \in Nat
      BY <3>1, <1>1, <1>2, <1>3
    <3>4. Shows(t, home, Len(buf'), buf')
      BY <3>2, <3>3, <1>2, <1>8
    <3> QED
      BY <3>1, <3>4, <1>2, <1>3, <1>9
  <2> QED
    BY <1>1, <2>1, <2>2 DEF EchoInv, Blank, BlankFrom, Shows, Cursor, First, Pos, t
<1> QED
  BY <1>10, <1>11, <1>12

(* What a key that is typed does to the screen.                            *)
LEMMA PutTyped ==
  ASSUME NEW s \in Screens, NEW c \in Typed, NEW t, t = vga_putchar(s, c)
  PROVE  /\ t \in Screens /\ Cursor(t) >= Cursor(s) + 1
         /\ t.up # s.up => Pos(t) = (HEIGHT - 1) * WIDTH
         /\ Blank(s) => Blank(t)
<1>1. CASE c \in Glyphs
  <2>1. /\ t \in Screens /\ Cursor(t) = Cursor(s) + 1
        /\ t.up # s.up => Pos(t) = (HEIGHT - 1) * WIDTH
        /\ Blank(s) => Blank(t)
    BY <1>1, PutGlyph
  <2>2. Cursor(s) \in Nat
    BY PosIn
  <2> QED
    BY <2>1, <2>2
<1>2. CASE c = HT
  BY <1>2, PutTab, AdvancesBlank DEF Advances
<1> QED
  BY <1>1, <1>2 DEF Typed

LEMMA PutTypedShows ==
  ASSUME NEW s \in Screens, NEW c \in Typed, NEW t, t = vga_putchar(s, c),
         NEW a \in Int, NEW n \in Nat, NEW text, a + n <= Cursor(s), Shows(s, a, n, text)
  PROVE  Shows(t, a, n, text)
<1>1. CASE c \in Glyphs
  BY <1>1, PutGlyphShows
<1>2. CASE c = HT
  <2>1. Advances(s, t, 1)
    BY <1>2, PutTab
  <2>2. a + n <= Cursor(s) + 1
    BY PosIn
  <2> QED
    BY <2>1, <2>2, FollowsShows DEF Advances
<1> QED
  BY <1>1, <1>2 DEF Typed

LEMMA Step_Insert ==
  ASSUME LineInv, PromptInv, Editing, NEW c \in Typed, Insert(c)
  PROVE  LineInv' /\ PromptInv' /\ (EchoInv => EchoInv')
<1>1. /\ Len(buf) < CMD_BUF - 1 /\ buf' = Append(buf, c)
      /\ screen' = vga_putchar(screen, c) /\ tabs' = tabs + (IF c = HT THEN 1 ELSE 0)
      /\ UNCHANGED <<editor, running, home>>
  BY DEF Insert
<1>2. /\ screen \in Screens /\ home \in Nat /\ tabs \in Nat
      /\ buf \in Seq(Typed) /\ Len(buf) \in Nat /\ CMD_BUF \in Nat
  BY ConsoleAssumption DEF LineInv
<1>3. /\ buf' \in Seq(Typed) /\ Len(buf') = Len(buf) + 1 /\ buf'[Len(buf) + 1] = c
      /\ \A k \in 1 .. Len(buf) : buf'[k] = buf[k]
  BY <1>1, <1>2
<1>4. /\ Shows(screen, home - Len(PROMPT), Len(PROMPT), PROMPT)
      /\ Cursor(screen) >= home + Len(buf) /\ Pos(screen) >= Len(buf)
  BY DEF PromptInv
<1>5. /\ Cursor(screen) \in Nat /\ Pos(screen) \in Nat /\ First(screen) \in Nat
      /\ Cursor(screen) = First(screen) + Pos(screen)
  BY <1>2, PosIn DEF Cursor, Cells
<1> DEFINE t == screen'
<1>6. /\ t \in Screens /\ Cursor(t) >= Cursor(screen) + 1
      /\ t.up # screen.up => Pos(t) = (HEIGHT - 1) * WIDTH
      /\ Blank(screen) => Blank(t)
  BY <1>1, <1>2, PutTyped
<1>7. Shows(t, home - Len(PROMPT), Len(PROMPT), PROMPT)
  <2>1. Len(PROMPT) \in Nat
    BY ConsoleAssumption
  <2>2. home - Len(PROMPT) \in Int /\ home - Len(PROMPT) + Len(PROMPT) <= Cursor(screen)
    BY <2>1, <1>2, <1>4, <1>5
  <2> QED
    BY <2>1, <2>2, <1>1, <1>2, <1>4, PutTypedShows, SMTT(30)
<1>8. ASSUME EchoInv, tabs' = 0
      PROVE  Cursor(t) = home + Len(buf') /\ Shows(t, home, Len(buf'), buf')
  <2>1. tabs = 0 /\ c # HT
    BY <1>1, <1>2, <1>8
  <2>2. c \in Glyphs
    BY <2>1 DEF Typed
  <2>3. Cursor(screen) = home + Len(buf) /\ Shows(screen, home, Len(buf), buf)
    BY <1>8, <2>1 DEF EchoInv
  <2>4. Cursor(t) = Cursor(screen) + 1
    BY <1>1, <1>2, <2>2, PutGlyph, SMTT(30)
  <2>5. Shows(screen, home, Len(buf), buf')
    BY <2>3, <1>3, SMTT(30) DEF Shows
  <2>6. Shows(t, home, Len(buf) + 1, buf')
    <3>1. home \in Int /\ home + Len(buf) = Cursor(screen)
      BY <1>2, <2>3
    <3>2. t = vga_putchar(screen, c)
      BY <1>1, SMTT(30)
    <3> HIDE DEF t
    <3> QED
      BY <3>1, <3>2, <1>2, <1>3, <2>2, <2>5, PutGlyphShows, SMTT(30)
  <2> QED
    BY <1>2, <1>3, <2>3, <2>4, <2>6
<1> HIDE DEF t
<1>9. LineInv'
  <2>1. tabs' \in Nat /\ Len(buf') <= CMD_BUF - 1
    BY <1>1, <1>2, <1>3, SMTT(30)
  <2> QED
    BY <1>1, <1>2, <1>3, <1>6, <2>1, SMTT(30) DEF LineInv, t
<1>10. PromptInv'
  <2>1. Cursor(t) >= home + Len(buf')
    <3>1. Cursor(t) \in Nat /\ Cursor(t) >= Cursor(screen) + 1
      BY <1>6, PosIn
    <3> QED
      BY <3>1, <1>2, <1>3, <1>4, <1>5, SMTT(30)
  <2>2. Pos(t) >= Len(buf')
    <3>1. CASE t.up = screen.up
      <4>1. Cursor(t) = First(screen) + Pos(t) /\ Pos(t) \in Nat
        BY <3>1, <1>6, PosIn DEF Cursor, First, Cells
      <4> QED
        BY <4>1, <1>2, <1>3, <1>4, <1>5, <1>6, SMTT(30)
    <3>2. CASE t.up # screen.up
      <4>1. Pos(t) = (HEIGHT - 1) * WIDTH /\ Pos(t) \in Nat
        BY <3>2, <1>6, PosIn DEF Cells
      <4>2. CMD_BUF - 1 <= Pos(t)
        BY <4>1, ConsoleAssumption, SMTT(30)
      <4> QED
        BY <4>1, <4>2, <1>1, <1>2, <1>3, SMTT(30)
    <3> QED
      BY <3>1, <3>2, SMTT(30)
  <2> QED
    BY <1>1, <1>7, <2>1, <2>2, SMTT(30) DEF PromptInv, Shows, Cursor, First, Pos, t
<1>11. ASSUME EchoInv PROVE EchoInv'
  <2>1. Blank(t)
    BY <1>6, <1>11 DEF EchoInv
  <2>2. tabs' = 0 => Cursor(t) = home + Len(buf') /\ Shows(t, home, Len(buf'), buf')
    BY <1>8, <1>11
  <2> QED
    BY <1>1, <2>1, <2>2 DEF EchoInv, Blank, BlankFrom, Shows, Cursor, First, Pos, t
<1> QED
  BY <1>9, <1>10, <1>11
-----------------------------------------------------------------------------
(* Texts that never move the cursor back.                                  *)
Plain == Chars \ {BS, CR}

LEMMA Messages ==
  /\ <<>> \in Seq(Plain) /\ MESSAGE \in Seq(Plain) /\ EXIT_MESSAGE \in Seq(Plain)
  /\ MESSAGE \o <<NL>> \o MESSAGE \in Seq(Plain)
<1>1. "m" \in Plain /\ NL \in Plain
  BY ConsoleAssumption DEF Plain, Chars, NL, BS, CR
<1>2. MESSAGE \in Seq(Plain) /\ <<NL>> \in Seq(Plain) /\ <<>> \in Seq(Plain)
  BY <1>1 DEF MESSAGE
<1> QED
  BY <1>2 DEF EXIT_MESSAGE

LEMMA PlainText ==
  ASSUME NEW text \in Seq(Plain)
  PROVE  text \in Seq(Chars) /\ \A k \in 1 .. Len(text) : text[k] \notin {BS, CR}
  BY DEF Plain

LEMMA NewLinePlain ==
  ASSUME NEW s \in Screens, NEW text \in Seq(Plain), NewLine(s, text)
  PROVE  LineInv' /\ PromptInv' /\ (Blank(s) => EchoInv')
  BY PlainText, NewLineInv

LEMMA PutsPlain ==
  ASSUME NEW s \in Screens, NEW text \in Seq(Plain)
  PROVE  vga_puts(s, text) \in Screens /\ (Blank(s) => Blank(vga_puts(s, text)))
  BY PlainText, PutsScreen, PutsBlank, SMTT(30)

LEMMA InitInv == Init => LineInv /\ PromptInv /\ EchoInv
<1> SUFFICES ASSUME Init PROVE LineInv /\ PromptInv /\ EchoInv
  OBVIOUS
<1>1. editor = "boot" /\ buf = <<>> /\ home = 0 /\ tabs = 0
  BY DEF Init
<1> DEFINE lines(n) == [i \in 1 .. 2 * n |-> MESSAGE[1 + ((i - 1) % 2)]]
<1>2. PICK n \in 0 .. MAX_BOOT_LINES : screen = vga_puts(vga_clear(0), lines(n))
  BY Zenon DEF Init
<1>3. lines(n) \in Seq(Plain)
  <2>1. n \in Nat /\ 2 * n \in Nat
    BY ConsoleAssumption
  <2>2. MESSAGE[1] \in Plain /\ MESSAGE[2] \in Plain
    BY Messages DEF MESSAGE
  <2>3. ASSUME NEW i \in 1 .. 2 * n PROVE MESSAGE[1 + ((i - 1) % 2)] \in Plain
    <3>1. 1 + ((i - 1) % 2) \in {1, 2}
      BY <2>1
    <3> QED
      BY <2>2, <3>1
  <2>4. lines(n) \in [1 .. 2 * n -> Plain]
    BY <2>3, Zenon
  <2> QED
    BY <2>1, <2>4
<1>4. vga_clear(0) \in Screens /\ Blank(vga_clear(0))
  <2>1. SP \in Chars /\ WIDTH \in Nat \ {0} /\ HEIGHT \in Nat \ {0}
    BY ConsoleAssumption, VgaAssumption DEF Chars
  <2> QED
    BY <2>1 DEF vga_clear, Screens, Blank, BlankFrom
<1> HIDE DEF lines
<1>5. screen \in Screens /\ Blank(screen)
  BY <1>2, <1>3, <1>4, PutsPlain
<1> QED
  BY <1>1, <1>5, ConsoleAssumption DEF LineInv, PromptInv, EchoInv, Editing

LEMMA Step_Boot ==
  ASSUME LineInv, Boot
  PROVE  LineInv' /\ PromptInv' /\ (EchoInv => EchoInv')
<1>1. screen \in Screens /\ (EchoInv => Blank(screen))
  BY DEF LineInv, EchoInv
<1>2. CASE StartShell(screen, "shell")
  BY <1>1, <1>2, Messages, NewLinePlain, Zenon DEF StartShell
<1>3. CASE FallBack(vga_puts(screen, MESSAGE))
  BY <1>1, <1>3, Messages, NewLinePlain, PutsPlain DEF FallBack
<1> QED
  BY <1>2, <1>3 DEF Boot

LEMMA Step_Enter ==
  ASSUME LineInv, Enter
  PROVE  LineInv' /\ PromptInv' /\ (EchoInv => EchoInv')
<1> DEFINE s == vga_putchar(screen, NL)
           Kept == LineInv' /\ PromptInv' /\ (EchoInv => EchoInv')
<1>1. s \in Screens /\ (EchoInv => Blank(s))
  BY PutNewline, AdvancesBlank DEF LineInv, EchoInv, Advances
<1> HIDE DEF s
<1>2. vga_clear(0) \in Screens /\ Blank(vga_clear(0))
  <2>1. SP \in Chars /\ WIDTH \in Nat \ {0} /\ HEIGHT \in Nat \ {0}
    BY ConsoleAssumption, VgaAssumption DEF Chars
  <2> QED
    BY <2>1 DEF vga_clear, Screens, Blank, BlankFrom
<1>3. CASE NewLine(s, <<>>)
  BY <1>1, <1>3, Messages, NewLinePlain, Zenon
<1>4. CASE NewLine(vga_clear(0), <<>>)
  BY <1>2, <1>4, Messages, NewLinePlain, Zenon
<1>5. CASE FallBack(vga_puts(s, EXIT_MESSAGE))
  BY <1>1, <1>5, Messages, NewLinePlain, PutsPlain DEF FallBack
<1>6. CASE NewLine(s, EXIT_MESSAGE)
  BY <1>1, <1>6, Messages, NewLinePlain, SMTT(30)
<1>7. CASE Execute(s)
  <2>1. CASE NewLine(s, MESSAGE)
    BY <1>1, <2>1, Messages, NewLinePlain
  <2>2. CASE StartShell(s, "subshell")
    BY <1>1, <2>2, Messages, NewLinePlain, Zenon DEF StartShell
  <2>3. CASE /\ running' = TRUE /\ screen' = vga_puts(s, MESSAGE)
             /\ UNCHANGED <<editor, buf, home, tabs>>
    <3>1. screen' \in Screens /\ (EchoInv => Blank(screen'))
      BY <1>1, <2>3, Messages, PutsPlain
    <3>2. ~ Editing'
      BY <2>3 DEF Editing
    <3>3. LineInv'
      BY <2>3, <3>1 DEF LineInv
    <3>4. PromptInv'
      BY <3>2, SMTT(30) DEF PromptInv
    <3>5. EchoInv => EchoInv'
      BY <3>1, <3>2 DEF EchoInv, Blank, BlankFrom, First, Cursor, Pos
    <3> QED
      BY <3>3, <3>4, <3>5
  <2> QED
    BY <1>7, <2>1, <2>2, <2>3, Zenon DEF Execute
<1> QED
  BY <1>3, <1>4, <1>5, <1>6, <1>7 DEF Enter, s

LEMMA Step_Key ==
  ASSUME LineInv, PromptInv, NEW source, NEW raw, Key(source, raw),
         \/ source = "keyboard" /\ raw \in KeyChars \cup {BS, NL}
         \/ source = "serial" /\ raw \in {CR, DEL}
  PROVE  LineInv' /\ PromptInv' /\ (EchoInv => EchoInv')
<1> DEFINE c == Received(source, raw)
<1>1. c \in Typed \cup {BS, NL}
  BY ConsoleAssumption DEF Received, Typed, CR, DEL, NL, BS
<1>2. /\ Editing
      /\ \/ c = BS /\ Erase
         \/ c = NL /\ Enter
         \/ c \notin {BS, NL} /\ Insert(c)
  BY DEF Key
<1> HIDE DEF c
<1> QED
  BY <1>1, <1>2, Step_Erase, Step_Enter, Step_Insert

LEMMA Step_ProgramExits ==
  ASSUME LineInv, ProgramExits
  PROVE  LineInv' /\ PromptInv' /\ (EchoInv => EchoInv')
<1>1. PICK text \in Outputs : NewLine(screen, text \o EXIT_MESSAGE)
  BY DEF ProgramExits
<1>2. text \in Seq(Chars) /\ EXIT_MESSAGE \in Seq(Plain) /\ EXIT_MESSAGE \in Seq(Chars)
  BY Messages, PlainText, ConsoleAssumption
<1>3. screen \in Screens /\ (EchoInv => Blank(screen))
  BY DEF LineInv, EchoInv
<1>4. text \o EXIT_MESSAGE \in Seq(Chars)
  BY <1>2
<1>5. LineInv' /\ PromptInv'
  BY <1>1, <1>3, <1>4, NewLineInv, Zenon
<1>6. text \o EXIT_MESSAGE \in Seq(Plain)
  <2>1. \A i \in 1 .. Len(text) : text[i] \in Plain
    BY <1>2, OutputsAssumption DEF Plain
  <2>2. text \in Seq(Plain)
    BY <1>2, <2>1
  <2> QED
    BY <1>2, <2>2
<1>7. EchoInv => EchoInv'
  BY <1>1, <1>3, <1>6, NewLinePlain, Zenon
<1> QED
  BY <1>5, <1>7

LEMMA NextInv ==
  ASSUME LineInv, PromptInv, [Next]_vars
  PROVE  LineInv' /\ PromptInv' /\ (EchoInv => EchoInv')
<1>1. CASE Boot
  BY <1>1, Step_Boot
<1>2. ASSUME NEW c \in KeyChars \cup {BS, NL}, Key("keyboard", c)
      PROVE  LineInv' /\ PromptInv' /\ (EchoInv => EchoInv')
  BY <1>2, Step_Key
<1>3. ASSUME NEW c \in {CR, DEL}, Key("serial", c)
      PROVE  LineInv' /\ PromptInv' /\ (EchoInv => EchoInv')
  BY <1>3, Step_Key, SMTT(30)
<1>4. CASE ProgramExits
  BY <1>4, Step_ProgramExits
<1>5. CASE UNCHANGED vars
  BY <1>5 DEF vars, LineInv, PromptInv, EchoInv, Editing, Shows, Blank, BlankFrom, First,
              Cursor, Pos
<1> QED
  BY <1>1, <1>2, <1>3, <1>4, <1>5 DEF Next

(* Whatever is typed and erased, tabs included, no character of the prompt *)
(* that is still on the screen is overwritten.                             *)
THEOREM ConsolePromptSurvives == Spec => []PromptSurvives
<1>1. Init => LineInv /\ PromptInv
  BY InitInv
<1>2. LineInv /\ PromptInv /\ [Next]_vars => (LineInv /\ PromptInv)'
  BY NextInv, SMTT(30)
<1>3. LineInv /\ PromptInv => PromptSurvives
  <2> SUFFICES ASSUME LineInv, PromptInv, Editing, NEW i \in 1 .. Len(PROMPT),
                      Now(home) - Len(PROMPT) + i - 1 \in Cells
               PROVE  screen.cells[Now(home) - Len(PROMPT) + i - 1] = PROMPT[i]
    BY DEF PromptSurvives
  <2>1. /\ First(screen) \in Nat /\ Now(home) = home - First(screen) /\ home \in Nat
        /\ Len(PROMPT) \in Nat
    BY PosIn, ConsoleAssumption DEF LineInv, Now, First
  <2>2. Now(home) - Len(PROMPT) + i - 1 = home - Len(PROMPT) + i - 1 - First(screen)
    BY <2>1
  <2> QED
    BY <2>2 DEF PromptInv, Shows
<1> QED
  BY <1>1, <1>2, <1>3, PTL DEF Spec

(* From the prompt on the screen shows the buffer and nothing else, for    *)
(* every size of the screen on which a full line does not scroll itself    *)
(* away, as long as no program leaves something behind the cursor.         *)
THEOREM ConsoleEchoIsBuffer == Spec => []EchoIsBuffer
<1>1. Init => LineInv /\ PromptInv /\ EchoInv
  BY InitInv
<1>2. LineInv /\ PromptInv /\ EchoInv /\ [Next]_vars => (LineInv /\ PromptInv /\ EchoInv)'
  BY NextInv, SMTT(30)
<1>3. LineInv /\ EchoInv => EchoIsBuffer
  <2> SUFFICES ASSUME LineInv, EchoInv, Editing, tabs = 0
               PROVE  /\ Pos(screen) = Now(home) + Len(buf)
                      /\ \A i \in Cells : i >= Now(home) =>
                           screen.cells[i] = IF i < Pos(screen) THEN buf[i - Now(home) + 1] ELSE SP
    BY DEF EchoIsBuffer
  <2>1. /\ First(screen) \in Nat /\ Now(home) = home - First(screen) /\ home \in Nat
        /\ Len(buf) \in Nat /\ Pos(screen) \in Cells /\ Cells \subseteq Nat
        /\ Cursor(screen) = First(screen) + Pos(screen)
    BY PosIn DEF LineInv, Now, First, Cursor, Cells
  <2>2. Cursor(screen) = home + Len(buf) /\ Shows(screen, home, Len(buf), buf) /\ Blank(screen)
    BY DEF EchoInv
  <2>3. Pos(screen) = Now(home) + Len(buf)
    <3>1. Pos(screen) \in Nat /\ First(screen) + Pos(screen) = home + Len(buf)
      BY <2>1, <2>2, Zenon
    <3> QED
      BY <2>1, <3>1
  <2>4. ASSUME NEW i \in Cells, i >= Now(home), i < Pos(screen)
        PROVE  screen.cells[i] = buf[i - Now(home) + 1]
    <3> DEFINE k == i - Now(home) + 1
    <3>1. k \in 1 .. Len(buf) /\ home + k - 1 - First(screen) = i
      BY <2>1, <2>3, <2>4
    <3> QED
      BY <3>1, <2>2 DEF Shows
  <2>5. ASSUME NEW i \in Cells, ~ (i < Pos(screen)) PROVE screen.cells[i] = SP
    <3>1. First(screen) + i >= Cursor(screen)
      <4>1. i \in Nat /\ Pos(screen) \in Nat /\ First(screen) \in Nat
        BY <2>1, Zenon
      <4> QED
        BY <4>1, <2>1, <2>5
    <3> QED
      BY <3>1, <2>2 DEF Blank, BlankFrom
  <2> QED
    BY <2>3, <2>4, <2>5, SMTT(30)
<1> QED
  BY <1>1, <1>2, <1>3, PTL DEF Spec
-----------------------------------------------------------------------------
LEMMA MinIs ==
  ASSUME NEW T, T \subseteq Nat, T # {}
  PROVE  Min(T) \in T /\ \A y \in T : Min(T) <= y
  BY LowestExists, Zenon DEF Min

LEMMA MinOnly ==
  ASSUME NEW T, T \subseteq Nat, NEW x \in T, \A y \in T : x <= y
  PROVE  Min(T) = x
<1>1. Min(T) \in T /\ Min(T) <= x /\ x <= Min(T)
  BY MinIs, Zenon
<1>2. x \in Nat /\ Min(T) \in Nat
  BY <1>1, Zenon
<1>3. \A a, b \in Nat : a <= b /\ b <= a => a = b
  OBVIOUS
<1> QED
  BY <1>1, <1>2, <1>3, Zenon

LEMMA MinOfTwo ==
  ASSUME NEW a \in Nat, NEW b \in Nat
  PROVE  Min({a, b}) = IF a <= b THEN a ELSE b
<1> DEFINE T == {a, b}
<1>1. T \subseteq Nat /\ T # {} /\ a \in T /\ b \in T
  OBVIOUS
<1>2. Min(T) \in T /\ \A y \in T : Min(T) <= y
  <2> HIDE DEF T
  <2> QED
    BY <1>1, MinIs, Zenon
<1> HIDE DEF T
<1>3. Min(T) <= a /\ Min(T) <= b
  BY <1>1, <1>2, Zenon
<1>4. Min(T) = a \/ Min(T) = b
  BY <1>2, Zenon DEF T
<1>5. Min(T) = IF a <= b THEN a ELSE b
  BY <1>3, <1>4
<1> QED
  BY <1>5 DEF T

(* A line's first places that are no space, are one, end a word.           *)
LEMMA SkipIs ==
  ASSUME NEW line, Len(line) \in Nat, NEW i \in 1 .. Len(line) + 1,
         NEW b, b = SkipSpaces(line, i)
  PROVE  /\ b \in i .. Len(line) + 1 /\ (b <= Len(line) => line[b] # SP)
         /\ \A m \in i .. b - 1 : line[m] = SP
<1> DEFINE T == {j \in i .. Len(line) + 1 : j > Len(line) \/ line[j] # SP}
<1>1. T \subseteq Nat /\ Len(line) + 1 \in T
  OBVIOUS
<1>2. b = Min(T)
  BY DEF SkipSpaces
<1>3. b \in T /\ \A y \in T : b <= y
  BY <1>1, <1>2, MinIs, Zenon
<1>4. ASSUME NEW m \in i .. b - 1, line[m] # SP PROVE FALSE
  <2>1. m \in T
    BY <1>3, <1>4
  <2> QED
    BY <1>3, <2>1
<1> QED
  BY <1>3, <1>4

LEMMA EndOfIs ==
  ASSUME NEW line, Len(line) \in Nat, NEW i \in 1 .. Len(line), line[i] # SP,
         NEW e, e = EndOf(line, i)
  PROVE  /\ e \in i .. Len(line) /\ (e < Len(line) => line[e + 1] = SP)
         /\ \A m \in i .. e : line[m] # SP
<1> DEFINE T == {j \in i .. Len(line) : j < Len(line) => line[j + 1] = SP}
<1>1. T \subseteq Nat /\ Len(line) \in T
  OBVIOUS
<1>2. e = Min(T)
  BY DEF EndOf
<1>3. e \in T /\ \A y \in T : e <= y
  BY <1>1, <1>2, MinIs, Zenon
<1>4. ASSUME NEW m \in i .. e, line[m] = SP PROVE FALSE
  <2>1. m # i /\ m - 1 \in T
    BY <1>3, <1>4
  <2>2. e <= m - 1 /\ m <= e /\ m \in Int /\ e \in Int
    BY <1>3, <2>1
  <2> QED
    BY <2>2
<1> QED
  BY <1>3, <1>4

(* The editors' lines are too short for a word to fill its buffer.         *)
LEMMA WordEndIs ==
  ASSUME NEW line, Len(line) \in Nat, Len(line) < MAX_ARG_LEN,
         NEW i \in 1 .. Len(line) + 1, NEW e, e = WordEnd(line, i)
  PROVE  /\ e \in i .. Len(line) + 1 /\ (e <= Len(line) => line[e] = SP)
         /\ \A m \in i .. e - 1 : line[m] # SP
<1>0. MAX_ARG_LEN \in Nat
  BY CommandAssumption
<1> DEFINE T == {j \in i .. Len(line) + 1 :
                   j > Len(line) \/ line[j] = SP \/ j - i >= MAX_ARG_LEN - 1}
<1>1. T \subseteq Nat /\ Len(line) + 1 \in T
  OBVIOUS
<1>2. e = Min(T)
  BY DEF WordEnd
<1>3. e \in T /\ \A y \in T : e <= y
  BY <1>1, <1>2, MinIs, SMTT(30)
<1>4. ASSUME NEW m \in i .. e - 1, line[m] = SP PROVE FALSE
  <2>1. m \in T
    BY <1>3, <1>4
  <2> QED
    BY <1>3, <2>1
<1>5. e <= Len(line) => line[e] = SP
  BY <1>0, <1>3
<1> QED
  BY <1>3, <1>4, <1>5

LEMMA WordEndOfWord ==
  ASSUME NEW line, Len(line) \in Nat, Len(line) < MAX_ARG_LEN,
         NEW i \in 1 .. Len(line), line[i] # SP
  PROVE  WordEnd(line, i) = EndOf(line, i) + 1
<1> DEFINE e == WordEnd(line, i)
           f == EndOf(line, i)
<1>1. /\ e \in i .. Len(line) + 1 /\ (e <= Len(line) => line[e] = SP)
      /\ \A m \in i .. e - 1 : line[m] # SP
  BY WordEndIs
<1>2. /\ f \in i .. Len(line) /\ (f < Len(line) => line[f + 1] = SP)
      /\ \A m \in i .. f : line[m] # SP
  BY EndOfIs
<1> HIDE DEF e, f
<1>3. e > f
  BY <1>1, <1>2
<1>4. ~ (e > f + 1)
  BY <1>1, <1>2
<1> QED
  BY <1>1, <1>2, <1>3, <1>4, SMTT(30) DEF e, f

(* Where the scan goes from one word to the next.                          *)
LEMMA NextStart ==
  ASSUME NEW line, Len(line) \in Nat, NEW x \in Starts(line),
         NEW b, b = SkipSpaces(line, EndOf(line, x) + 1)
  PROVE  /\ b <= Len(line) => b \in Starts(line) /\ b > x
         /\ \A y \in Starts(line) : y > x => y >= b
         /\ b \in 1 .. Len(line) + 1
<1>1. x \in 1 .. Len(line) /\ line[x] # SP
  BY DEF Starts
<1> DEFINE e == EndOf(line, x)
<1>2. /\ e \in x .. Len(line) /\ (e < Len(line) => line[e + 1] = SP)
      /\ \A m \in x .. e : line[m] # SP
  BY <1>1, EndOfIs
<1>3. e + 1 \in 1 .. Len(line) + 1
  BY <1>1, <1>2, SMTT(30)
<1>4. /\ b \in e + 1 .. Len(line) + 1 /\ (b <= Len(line) => line[b] # SP)
      /\ \A m \in e + 1 .. b - 1 : line[m] = SP
  BY <1>3, SkipIs, SMTT(30)
<1> HIDE DEF e
<1>5. ASSUME b <= Len(line) PROVE b \in Starts(line) /\ b > x
  <2>1. b \in 1 .. Len(line) /\ b > x /\ line[b] # SP
    BY <1>1, <1>2, <1>4, <1>5, SMTT(30)
  <2>2. b # e + 1
    BY <1>2, <1>4, <1>5
  <2>3. b - 1 \in e + 1 .. b - 1
    BY <1>2, <1>4, <2>2, SMTT(30)
  <2> QED
    BY <1>4, <2>1, <2>3, SMTT(30) DEF Starts
<1>6. ASSUME NEW y \in Starts(line), y > x PROVE y >= b
  <2>1. y \in 1 .. Len(line) /\ line[y] # SP /\ line[y - 1] = SP
    BY <1>1, <1>6 DEF Starts
  <2>2. y > e
    BY <1>1, <1>2, <1>6, <2>1, SMTT(30)
  <2> QED
    BY <1>2, <1>4, <2>1, <2>2, SMTT(30)
<1>7. b \in 1 .. Len(line) + 1
  BY <1>2, <1>4, <1>1
<1> QED
  BY <1>5, <1>6, <1>7

LEMMA FirstStart ==
  ASSUME NEW line, Len(line) \in Nat, NEW b, b = SkipSpaces(line, 1)
  PROVE  /\ b <= Len(line) => b \in Starts(line)
         /\ \A y \in Starts(line) : y >= b
         /\ b \in 1 .. Len(line) + 1
<1>1. 1 \in 1 .. Len(line) + 1
  OBVIOUS
<1>2. /\ b \in 1 .. Len(line) + 1 /\ (b <= Len(line) => line[b] # SP)
      /\ \A m \in 1 .. b - 1 : line[m] = SP
  BY <1>1, SkipIs
<1>3. ASSUME b <= Len(line) PROVE b \in Starts(line)
  BY <1>2, <1>3 DEF Starts
<1>4. ASSUME NEW y \in Starts(line) PROVE y >= b
  BY <1>2 DEF Starts
<1> QED
  BY <1>2, <1>3, <1>4
-----------------------------------------------------------------------------
(* The place of a number in a finite set, in increasing order.             *)
Rank(S, i) == Cardinality({j \in S : j <= i})

LEMMA RankType ==
  ASSUME NEW S, IsFiniteSet(S), NEW i
  PROVE  IsFiniteSet({j \in S : j <= i}) /\ Rank(S, i) \in Nat /\ Rank(S, i) <= Cardinality(S)
<1>1. {j \in S : j <= i} \subseteq S
  OBVIOUS
<1> QED
  BY <1>1, FS_Subset, FS_CardinalityType, Zenon DEF Rank

LEMMA RankFirst ==
  ASSUME NEW S, S \subseteq Nat, NEW x \in S, \A y \in S : y >= x
  PROVE  Rank(S, x) = 1
<1>1. ASSUME NEW y \in S, y <= x PROVE y = x
  <2>1. x \in Nat /\ y \in Nat /\ y >= x
    BY Zenon
  <2> QED
    BY <1>1, <2>1
<1>2. x <= x
  OBVIOUS
<1>3. {j \in S : j <= x} = {x}
  BY <1>1, <1>2, Zenon
<1> QED
  BY <1>3, FS_Singleton, Zenon DEF Rank

LEMMA RankNext ==
  ASSUME NEW S, IsFiniteSet(S), S \subseteq Nat, NEW x \in S, NEW y \in S, x < y,
         \A z \in S : z > x => z >= y
  PROVE  Rank(S, y) = Rank(S, x) + 1
<1> DEFINE X == {j \in S : j <= x}
           Y == {j \in S : j <= y}
<1>1. ASSUME NEW z \in S PROVE z <= y <=> (z <= x \/ z = y)
  <2>1. x \in Nat /\ y \in Nat /\ z \in Nat /\ (z > x => z >= y)
    BY Zenon
  <2> QED
    BY <2>1
<1>2. Y = X \cup {y}
  BY <1>1, Zenon
<1>3. ~ (y <= x)
  <2>1. x \in Nat /\ y \in Nat
    BY Zenon
  <2> QED
    BY <2>1
<1>4. y \notin X /\ IsFiniteSet(X)
  BY <1>3, RankType, Zenon
<1> HIDE DEF X, Y
<1>5. Cardinality(Y) = Cardinality(X) + 1
  BY <1>2, <1>4, FS_AddElement, Zenon
<1> QED
  BY <1>5 DEF X, Y, Rank

LEMMA RankLast ==
  ASSUME NEW S, NEW x, \A y \in S : y <= x
  PROVE  Rank(S, x) = Cardinality(S)
<1>1. {j \in S : j <= x} = S
  BY Zenon
<1> QED
  BY <1>1, Zenon DEF Rank

LEMMA RankIncreases ==
  ASSUME NEW S, IsFiniteSet(S), S \subseteq Nat, NEW x \in S, NEW y \in S, x < y
  PROVE  Rank(S, x) < Rank(S, y)
<1> DEFINE X == {j \in S : j <= x}
           Y == {j \in S : j <= y}
<1>1. x \in Nat /\ y \in Nat /\ ~ (y <= x) /\ y <= y
  <2>1. x \in Nat /\ y \in Nat
    BY Zenon
  <2> QED
    BY <2>1
<1>2. ASSUME NEW z \in S, z <= x PROVE z <= y
  <2>1. z \in Nat
    BY Zenon
  <2> QED
    BY <1>1, <1>2, <2>1
<1>3. y \notin X /\ IsFiniteSet(X) /\ IsFiniteSet(Y) /\ X \cup {y} \subseteq Y
  BY <1>1, <1>2, RankType, Zenon
<1> HIDE DEF X, Y
<1>4. Cardinality(X \cup {y}) = Cardinality(X) + 1 /\ Cardinality(X \cup {y}) <= Cardinality(Y)
  BY <1>3, FS_AddElement, FS_Subset, Zenon
<1>5. Cardinality(X) \in Nat /\ Cardinality(Y) \in Nat
  BY <1>3, FS_CardinalityType, Zenon
<1>6. Cardinality(X) < Cardinality(Y)
  BY <1>4, <1>5
<1> QED
  BY <1>6, Zenon DEF X, Y, Rank

LEMMA RankUnique ==
  ASSUME NEW S, IsFiniteSet(S), S \subseteq Nat, NEW x \in S, NEW y \in S,
         Rank(S, x) = Rank(S, y)
  PROVE  x = y
<1>1. x \in Nat /\ y \in Nat /\ Rank(S, x) \in Nat
  BY RankType, Zenon
<1>2. x < y => Rank(S, x) < Rank(S, y)
  BY RankIncreases, Zenon
<1>3. y < x => Rank(S, y) < Rank(S, x)
  BY RankIncreases, Zenon
<1>4. ~ (Rank(S, x) < Rank(S, x))
  BY <1>1
<1>5. ~ (x < y) /\ ~ (y < x)
  BY <1>2, <1>3, <1>4, Zenon
<1> QED
  BY <1>1, <1>5

LEMMA StartsFinite ==
  ASSUME NEW line, Len(line) \in Nat
  PROVE  /\ IsFiniteSet(Starts(line)) /\ Starts(line) \subseteq Nat
         /\ Cardinality(Starts(line)) \in Nat
         /\ Cardinality(Starts(line)) = 0 <=> Starts(line) = {}
<1>1. Starts(line) \subseteq 1 .. Len(line) /\ Starts(line) \subseteq Nat
  BY DEF Starts
<1>2. IsFiniteSet(1 .. Len(line))
  BY FS_Interval
<1> QED
  BY <1>1, <1>2, FS_Subset, FS_CardinalityType, FS_EmptySet, Zenon

LEMMA StartIs ==
  ASSUME NEW line, Len(line) \in Nat, NEW x \in Starts(line)
  PROVE  Start(line, Rank(Starts(line), x)) = x
<1>1. \A y \in Starts(line) : Rank(Starts(line), y) = Rank(Starts(line), x) => y = x
  BY StartsFinite, RankUnique, Zenon
<1> QED
  BY <1>1, Zenon DEF Start, Rank
-----------------------------------------------------------------------------
(* The scan as its loop runs it.                                           *)
ScanFrom(f, k) == IF k = 0 THEN 1 ELSE f[k - 1]

LEMMA ScanIs ==
  ASSUME NEW line, NEW k \in 0 .. MAX_ARGS
  PROVE  ScanAfter(line)[k] = WordEnd(line, SkipSpaces(line, ScanFrom(ScanAfter(line), k)))
<1> DEFINE IsScan(f, n) ==
             f = [m \in 0 .. n |-> WordEnd(line, SkipSpaces(line, IF m = 0 THEN 1 ELSE f[m - 1]))]
           S == {n \in Nat : \E f : IsScan(f, n)}
<1>1. 0 \in S
  <2> DEFINE f == [m \in 0 .. 0 |-> WordEnd(line, SkipSpaces(line, 1))]
  <2>1. \A m \in 0 .. 0 : m = 0
    OBVIOUS
  <2>2. IsScan(f, 0)
    BY <2>1, Zenon
  <2> QED
    BY <2>2, Zenon
<1>2. ASSUME NEW n \in Nat, n \in S PROVE n + 1 \in S
  <2>1. PICK f : IsScan(f, n)
    BY <1>2
  <2> DEFINE g == [m \in 0 .. n + 1 |->
                     IF m = n + 1 THEN WordEnd(line, SkipSpaces(line, f[n])) ELSE f[m]]
  <2>2. \A m \in 0 .. n : f[m] = WordEnd(line, SkipSpaces(line, IF m = 0 THEN 1 ELSE f[m - 1]))
    BY <2>1, Zenon
  <2>3. ASSUME NEW m \in 0 .. n + 1
        PROVE  g[m] = WordEnd(line, SkipSpaces(line, IF m = 0 THEN 1 ELSE g[m - 1]))
    <3>1. CASE m = n + 1
      <4>1. n \in 0 .. n + 1 /\ n # n + 1 /\ m # 0 /\ m - 1 = n
        BY <3>1
      <4> QED
        BY <3>1, <4>1
    <3>2. CASE m # n + 1
      <4>1. m \in 0 .. n /\ (m # 0 => m - 1 \in 0 .. n + 1 /\ m - 1 # n + 1)
        BY <3>2
      <4>2. g[m] = f[m] /\ (m # 0 => g[m - 1] = f[m - 1])
        BY <3>2, <4>1
      <4> QED
        BY <2>2, <4>1, <4>2, Zenon
    <3> QED
      BY <3>1, <3>2
  <2>4. g = [m \in 0 .. n + 1 |-> g[m]]
    OBVIOUS
  <2> HIDE DEF g
  <2>5. IsScan(g, n + 1)
    BY <2>3, <2>4, Zenon
  <2> QED
    BY <2>5
<1> HIDE DEF S
<1>3. MAX_ARGS \in S
  BY <1>1, <1>2, Induction, CommandAssumption
<1> DEFINE f == CHOOSE f : IsScan(f, MAX_ARGS)
<1>4. IsScan(f, MAX_ARGS)
  BY <1>3, Zenon DEF S
<1>5. ScanAfter(line) = f
  BY Zenon DEF ScanAfter
<1> HIDE DEF f
<1>6. f[k] = WordEnd(line, SkipSpaces(line, IF k = 0 THEN 1 ELSE f[k - 1]))
  BY <1>4, Zenon
<1> QED
  BY <1>5, <1>6, Zenon DEF ScanFrom

(* Round k of the loop stands on word k + 1, or at the end of the line.    *)
OnWord(line, k, b, e) ==
  IF k + 1 <= Cardinality(Starts(line))
  THEN b \in Starts(line) /\ Rank(Starts(line), b) = k + 1 /\ e = EndOf(line, b) + 1
  ELSE b = Len(line) + 1 /\ e = Len(line) + 1

LEMMA AtEnd ==
  ASSUME NEW line, Len(line) \in Nat, Len(line) < MAX_ARG_LEN
  PROVE  /\ SkipSpaces(line, Len(line) + 1) = Len(line) + 1
         /\ WordEnd(line, Len(line) + 1) = Len(line) + 1
<1>1. Len(line) + 1 \in 1 .. Len(line) + 1
  OBVIOUS
<1>2. SkipSpaces(line, Len(line) + 1) \in Len(line) + 1 .. Len(line) + 1
  BY <1>1, SkipIs
<1>3. WordEnd(line, Len(line) + 1) \in Len(line) + 1 .. Len(line) + 1
  BY <1>1, WordEndIs
<1> QED
  BY <1>2, <1>3

LEMMA ScanFirst ==
  ASSUME NEW line, Len(line) \in Nat, Len(line) < MAX_ARG_LEN,
         NEW b, b = SkipSpaces(line, 1)
  PROVE  OnWord(line, 0, b, WordEnd(line, b))
<1> DEFINE S == Starts(line)
<1>1. /\ b <= Len(line) => b \in S
      /\ \A y \in S : y >= b
      /\ b \in 1 .. Len(line) + 1
  BY FirstStart, SMTT(30)
<1>2. /\ IsFiniteSet(S) /\ S \subseteq 1 .. Len(line) /\ Cardinality(S) \in Nat
      /\ Cardinality(S) = 0 <=> S = {}
  BY StartsFinite, Zenon DEF Starts
<1>3. ASSUME b \in S PROVE OnWord(line, 0, b, WordEnd(line, b))
  <2>1. b \in 1 .. Len(line) /\ line[b] # SP
    BY <1>3 DEF Starts
  <2>2. WordEnd(line, b) = EndOf(line, b) + 1
    BY <2>1, WordEndOfWord
  <2>3. S \subseteq Nat
    BY <1>2
  <2> HIDE DEF S
  <2>4. Rank(S, b) = 1
    BY <1>1, <1>3, <2>3, RankFirst, Zenon
  <2>5. S # {}
    BY <1>3
  <2>6. Cardinality(S) # 0 /\ Cardinality(S) \in Nat
    BY <1>2, <2>5, Zenon
  <2>7. 0 + 1 = 1 /\ 1 <= Cardinality(S)
    BY <2>6
  <2> QED
    BY <1>3, <2>2, <2>4, <2>7, Zenon DEF OnWord, S
<1>4. ASSUME b \notin S PROVE OnWord(line, 0, b, WordEnd(line, b))
  <2>1. b = Len(line) + 1
    BY <1>1, <1>4
  <2>2. S = {}
    BY <1>1, <1>2, <2>1
  <2>3. Cardinality(S) = 0 /\ ~ (0 + 1 <= 0)
    BY <1>2, <2>2
  <2> QED
    BY <2>1, <2>3, AtEnd, Zenon DEF OnWord
<1> QED
  BY <1>3, <1>4

LEMMA ScanNext ==
  ASSUME NEW line, Len(line) \in Nat, Len(line) < MAX_ARG_LEN, NEW k \in Nat,
         NEW a, NEW e, OnWord(line, k, a, e), NEW b, b = SkipSpaces(line, e)
  PROVE  OnWord(line, k + 1, b, WordEnd(line, b))
<1> DEFINE S == Starts(line)
           W == Cardinality(S)
<1>1. IsFiniteSet(S) /\ S \subseteq Nat /\ W \in Nat
  BY StartsFinite
<1>2. CASE ~ (k + 1 <= W)
  <2>1. e = Len(line) + 1
    BY <1>2, Zenon DEF OnWord
  <2>2. b = Len(line) + 1 /\ WordEnd(line, b) = Len(line) + 1
    BY <2>1, AtEnd, Zenon
  <2>3. ~ (k + 1 + 1 <= W)
    BY <1>1, <1>2, SMTT(30)
  <2> QED
    BY <2>2, <2>3, Zenon DEF OnWord
<1>3. CASE k + 1 <= W
  <2>1. a \in S /\ Rank(S, a) = k + 1 /\ e = EndOf(line, a) + 1
    BY <1>3, Zenon DEF OnWord
  <2>2. /\ b <= Len(line) => b \in S /\ b > a
        /\ \A y \in S : y > a => y >= b
        /\ b \in 1 .. Len(line) + 1
    BY <2>1, NextStart, Zenon
  <2>3. CASE b <= Len(line)
    <3>1. b \in S /\ b \in 1 .. Len(line) /\ line[b] # SP
      BY <2>2, <2>3 DEF Starts
    <3>2. WordEnd(line, b) = EndOf(line, b) + 1
      BY <3>1, WordEndOfWord
    <3>3. a < b
      <4>1. b > a /\ a \in Nat /\ b \in Nat
        BY <1>1, <2>1, <2>2, <2>3, Zenon
      <4> QED
        BY <4>1
    <3>4. Rank(S, b) = Rank(S, a) + 1
      <4>1. a \in S /\ b \in S /\ \A z \in S : z > a => z >= b
        BY <2>1, <2>2, <3>1, Zenon
      <4> HIDE DEF S
      <4> QED
        BY <1>1, <3>3, <4>1, RankNext, Zenon
    <3>5. Rank(S, b) = k + 1 + 1
      BY <2>1, <3>4, Zenon
    <3>6. Rank(S, b) <= W
      BY <1>1, RankType, Zenon
    <3> QED
      BY <3>1, <3>2, <3>5, <3>6, Zenon DEF OnWord
  <2>4. CASE ~ (b <= Len(line))
    <3>1. b = Len(line) + 1
      BY <2>2, <2>4
    <3>2. ASSUME NEW y \in S PROVE y <= a
      <4>1. y \in 1 .. Len(line) /\ a \in 1 .. Len(line) /\ (y > a => y >= b)
        BY <2>1, <2>2 DEF Starts
      <4> QED
        BY <3>1, <4>1, SMTT(30)
    <3>3. k + 1 = W
      BY <2>1, <3>2, RankLast, Zenon
    <3>4. ~ (k + 1 + 1 <= W)
      BY <3>3
    <3> QED
      BY <3>1, <3>4, AtEnd, Zenon DEF OnWord
  <2> QED
    BY <2>3, <2>4
<1> QED
  BY <1>2, <1>3

LEMMA ScansWords ==
  ASSUME NEW line, Len(line) \in Nat, Len(line) < MAX_ARG_LEN, NEW k \in 0 .. MAX_ARGS
  PROVE  OnWord(line, k, SkipSpaces(line, ScanFrom(ScanAfter(line), k)), ScanAfter(line)[k])
<1> DEFINE f == ScanAfter(line)
           b(n) == SkipSpaces(line, ScanFrom(f, n))
           T == {n \in Nat : n <= MAX_ARGS => OnWord(line, n, b(n), f[n])}
<1>0. MAX_ARGS \in Nat
  BY CommandAssumption
<1>1. \A n \in 0 .. MAX_ARGS : f[n] = WordEnd(line, b(n))
  BY ScanIs
<1>2. 0 \in T
  <2>1. 0 \in 0 .. MAX_ARGS /\ 0 \in Nat
    BY <1>0
  <2>2. b(0) = SkipSpaces(line, 1)
    BY Zenon DEF ScanFrom
  <2>3. OnWord(line, 0, b(0), f[0])
    BY <1>1, <2>1, <2>2, ScanFirst, Zenon
  <2> QED
    BY <2>1, <2>3, Zenon
<1>3. ASSUME NEW n \in Nat, n \in T PROVE n + 1 \in T
  <2> SUFFICES ASSUME n + 1 <= MAX_ARGS PROVE OnWord(line, n + 1, b(n + 1), f[n + 1])
    OBVIOUS
  <2>1. n + 1 \in 0 .. MAX_ARGS /\ n <= MAX_ARGS /\ n + 1 # 0 /\ n + 1 - 1 = n
    BY <1>0
  <2>2. OnWord(line, n, b(n), f[n])
    BY <1>3, <2>1, Zenon
  <2>5. ScanFrom(f, n + 1) = f[n]
    BY <2>1 DEF ScanFrom
  <2>3. b(n + 1) = SkipSpaces(line, f[n])
    BY <2>5, Zenon
  <2>4. f[n + 1] = WordEnd(line, b(n + 1))
    BY <1>1, <2>1, Zenon
  <2> QED
    BY <2>2, <2>3, <2>4, ScanNext, Zenon
<1> HIDE DEF T
<1>4. Nat \subseteq T
  BY <1>2, <1>3, Induction
<1>5. k \in Nat /\ k <= MAX_ARGS
  BY <1>0
<1> QED
  BY <1>4, <1>5, Zenon DEF T
-----------------------------------------------------------------------------
LEMMA FunctionSeq ==
  ASSUME NEW G, NEW n \in Nat, NEW f \in [1 .. n -> G]
  PROVE  f \in Seq(G) /\ Len(f) = n /\ DOMAIN f = 1 .. n
  OBVIOUS

LEMMA SubSeqIs ==
  ASSUME NEW G, NEW s \in Seq(G), NEW a \in 1 .. Len(s) + 1, NEW b \in a - 1 .. Len(s)
  PROVE  /\ SubSeq(s, a, b) \in Seq(G) /\ Len(SubSeq(s, a, b)) = b - a + 1
         /\ \A i \in 1 .. b - a + 1 : SubSeq(s, a, b)[i] = s[a + i - 1]
  OBVIOUS

LEMMA ConcatIs ==
  ASSUME NEW G, NEW s \in Seq(G), NEW t \in Seq(G)
  PROVE  /\ s \o t \in Seq(G) /\ Len(s \o t) = Len(s) + Len(t)
         /\ \A i \in 1 .. Len(s) : (s \o t)[i] = s[i]
         /\ \A i \in 1 .. Len(t) : (s \o t)[Len(s) + i] = t[i]
  OBVIOUS

LEMMA SeqEqual ==
  ASSUME NEW G, NEW H, NEW s \in Seq(G), NEW t \in Seq(H), Len(s) = Len(t),
         \A i \in 1 .. Len(s) : s[i] = t[i]
  PROVE  s = t
  OBVIOUS

(* What parse_command_line makes of a line that fits the argument buffers. *)
LEMMA WordsIs ==
  ASSUME NEW G, NEW line \in Seq(G)
  PROVE  /\ Len(Words(line)) = Cardinality(Starts(line))
         /\ \A x \in Starts(line) :
              /\ Rank(Starts(line), x) \in 1 .. Cardinality(Starts(line))
              /\ Words(line)[Rank(Starts(line), x)] = SubSeq(line, x, EndOf(line, x))
<1> DEFINE S == Starts(line)
           W == Cardinality(S)
<1>1. Len(line) \in Nat
  OBVIOUS
<1>2. IsFiniteSet(S) /\ S \subseteq Nat /\ W \in Nat
  BY <1>1, StartsFinite
<1>3. Len(Words(line)) = W
  BY <1>2 DEF Words
<1>4. ASSUME NEW x \in S
      PROVE  /\ Rank(S, x) \in 1 .. W
             /\ Words(line)[Rank(S, x)] = SubSeq(line, x, EndOf(line, x))
  <2>1. Rank(S, x) \in Nat /\ Rank(S, x) <= W /\ IsFiniteSet({j \in S : j <= x})
    BY <1>2, RankType, Zenon
  <2>2. x <= x
    BY <1>2
  <2>3. {j \in S : j <= x} # {}
    BY <2>2, Zenon
  <2>4. Rank(S, x) # 0
    BY <2>1, <2>3, FS_EmptySet, Zenon DEF Rank
  <2>5. Rank(S, x) \in 1 .. W
    BY <1>2, <2>1, <2>4
  <2>6. Start(line, Rank(S, x)) = x
    BY <1>1, StartIs, Zenon
  <2> QED
    BY <2>5, <2>6, Zenon DEF Words
<1> QED
  BY <1>3, <1>4

LEMMA ParsesProgram ==
  ASSUME NEW G, NEW line \in Seq(G), Len(line) < MAX_ARG_LEN
  PROVE  parse_command_line(line).program =
           IF Words(line) = <<>> THEN <<>> ELSE Words(line)[1]
<1> DEFINE S == Starts(line)
           W == Cardinality(S)
           b == SkipSpaces(line, 1)
           e == ScanAfter(line)[0]
<1>0. Len(line) \in Nat /\ W \in Nat /\ Len(Words(line)) = W /\ 0 \in 0 .. MAX_ARGS
  BY StartsFinite, WordsIs, CommandAssumption
<1>1. e = WordEnd(line, b)
  BY <1>0, ScanIs, Zenon DEF ScanFrom
<1>2. OnWord(line, 0, b, e)
  BY <1>0, <1>1, ScanFirst, Zenon
<1>3. parse_command_line(line).program = SubSeq(line, b, e - 1)
  BY Zenon DEF parse_command_line
<1>4. CASE W = 0
  <2>1. Words(line) = <<>>
    BY <1>0, <1>4 DEF Words
  <2>2. b = Len(line) + 1 /\ e = Len(line) + 1
    BY <1>2, <1>4 DEF OnWord
  <2>3. SubSeq(line, b, e - 1) = <<>>
    BY <1>0, <2>2
  <2> QED
    BY <1>3, <2>1, <2>3, Zenon
<1>5. CASE W # 0
  <2>1. Words(line) # <<>>
    BY <1>0, <1>5
  <2>2. 0 + 1 <= W /\ 0 + 1 = 1
    BY <1>0, <1>5
  <2>3. b \in S /\ Rank(S, b) = 1 /\ e = EndOf(line, b) + 1
    BY <1>2, <2>2, Zenon DEF OnWord
  <2>4. EndOf(line, b) \in Nat
    BY <1>0, <2>3, EndOfIs, SMTT(30) DEF Starts
  <2>5. e - 1 = EndOf(line, b)
    BY <2>3, <2>4
  <2>6. Words(line)[1] = SubSeq(line, b, EndOf(line, b))
    BY <2>3, WordsIs, Zenon
  <2> QED
    BY <1>3, <2>1, <2>5, <2>6, Zenon
<1> QED
  BY <1>4, <1>5, SMTT(30)
-----------------------------------------------------------------------------
(* A name field: p characters before the dot and x after it.               *)
Filled(n, p, x) ==
  /\ p \in 1 .. BASE /\ x \in 0 .. EXT
  /\ \A i \in 1 .. BASE : n[i] # SP <=> i <= p
  /\ \A i \in 1 .. EXT : n[BASE + i] # SP <=> i <= x

LEMMA BaseExt == BASE \in Nat /\ EXT \in Nat /\ BASE >= 1 /\ EXT >= 1
  BY CommandAssumption

LEMMA NameIs ==
  ASSUME NEW n \in Directory
  PROVE  /\ n \in Seq(Glyphs) /\ Len(n) = BASE + EXT
         /\ \A i \in 1 .. BASE + EXT : n[i] # DOT
         /\ \E p, x : Filled(n, p, x)
<1>1. /\ n \in [1 .. BASE + EXT -> Glyphs \ {DOT}] /\ n[1] # SP
      /\ \A i, j \in 1 .. BASE + EXT :
           i < j /\ (j <= BASE \/ i > BASE) /\ n[i] = SP => n[j] = SP
  BY DirectoryAssumption, Zenon
<1>2. n \in Seq(Glyphs) /\ Len(n) = BASE + EXT
  <2>1. n \in [1 .. BASE + EXT -> Glyphs] /\ BASE + EXT \in Nat
    BY <1>1, BaseExt, SMTT(30)
  <2> QED
    BY <2>1, FunctionSeq
<1>3. \A i \in 1 .. BASE + EXT : n[i] # DOT
  BY <1>1
<1> DEFINE P == {i \in 1 .. BASE + 1 : i > BASE \/ n[i] = SP}
           X == {i \in 1 .. EXT + 1 : i > EXT \/ n[BASE + i] = SP}
           p == Min(P) - 1
           x == Min(X) - 1
<1>4. P \subseteq Nat /\ BASE + 1 \in P /\ X \subseteq Nat /\ EXT + 1 \in X
  BY BaseExt
<1>5. Min(P) \in P /\ Min(X) \in X /\ (\A y \in P : Min(P) <= y) /\ \A y \in X : Min(X) <= y
  <2> HIDE DEF P, X
  <2> QED
    BY <1>4, MinIs, Zenon
<1>6. p \in 1 .. BASE /\ x \in 0 .. EXT /\ p + 1 = Min(P) /\ x + 1 = Min(X)
  <2>1. /\ Min(P) \in 1 .. BASE + 1 /\ (Min(P) > BASE \/ n[Min(P)] = SP)
        /\ Min(X) \in 1 .. EXT + 1
    BY <1>5, Zenon
  <2> HIDE DEF P, X
  <2>2. Min(P) # 1
    BY <1>1, <2>1, BaseExt
  <2> QED
    BY <2>1, <2>2, BaseExt
<1>0. /\ p + 1 \in 1 .. BASE + 1 /\ (p + 1 > BASE \/ n[p + 1] = SP)
      /\ x + 1 \in 1 .. EXT + 1 /\ (x + 1 > EXT \/ n[BASE + (x + 1)] = SP)
  BY <1>5, <1>6, Zenon
<1>7. ASSUME NEW i \in 1 .. BASE PROVE n[i] # SP <=> i <= p
  <2>1. CASE i <= p
    <3>1. i \notin P
      BY <1>5, <1>6, <2>1
    <3>2. i \in 1 .. BASE + 1 /\ ~ (i > BASE)
      BY BaseExt
    <3> HIDE DEF p
    <3> QED
      BY <2>1, <3>1, <3>2, ZenonT(30)
  <2>2. CASE ~ (i <= p)
    <3> HIDE DEF p, P
    <3>1. p + 1 \in 1 .. BASE /\ p + 1 <= i /\ n[p + 1] = SP
      BY <1>6, <1>0, <2>2, BaseExt, SMTT(30)
    <3>2. p + 1 = i \/ p + 1 < i
      BY <1>6, <3>1
    <3>3. p + 1 \in 1 .. BASE + EXT /\ i \in 1 .. BASE + EXT /\ i <= BASE
      BY <3>1, BaseExt, SMTT(30)
    <3> QED
      BY <1>1, <2>2, <3>1, <3>2, <3>3, Zenon
  <2> QED
    BY <2>1, <2>2
<1>8. ASSUME NEW i \in 1 .. EXT PROVE n[BASE + i] # SP <=> i <= x
  <2>1. CASE i <= x
    <3>1. i \notin X
      BY <1>5, <1>6, <2>1, SMTT(30)
    <3>2. i \in 1 .. EXT + 1 /\ ~ (i > EXT)
      BY BaseExt
    <3> HIDE DEF x
    <3> QED
      BY <2>1, <3>1, <3>2, Zenon
  <2>2. CASE ~ (i <= x)
    <3> HIDE DEF x, X
    <3>1. x + 1 \in 1 .. EXT /\ x + 1 <= i /\ n[BASE + (x + 1)] = SP
      BY <1>6, <1>0, <2>2, BaseExt, SMTT(30)
    <3>2. BASE + (x + 1) = BASE + i \/ BASE + (x + 1) < BASE + i
      BY <1>6, <3>1, BaseExt, SMTT(30)
    <3>3. /\ BASE + (x + 1) \in 1 .. BASE + EXT /\ BASE + i \in 1 .. BASE + EXT
          /\ BASE + (x + 1) > BASE
      BY <3>1, BaseExt
    <3> QED
      BY <1>1, <2>2, <3>1, <3>2, <3>3, Zenon
  <2> QED
    BY <2>1, <2>2
<1> HIDE DEF p, x
<1>9. Filled(n, p, x)
  BY <1>6, <1>7, <1>8, Zenon DEF Filled
<1> QED
  BY <1>2, <1>3, <1>9, Zenon

LEMMA UntilSpaceIs ==
  ASSUME NEW G, NEW n \in Seq(G), NEW a \in Nat, NEW b \in Nat, a >= 1, a <= b, b <= Len(n),
         NEW m \in 0 .. b - a + 1, \A i \in 1 .. b - a + 1 : n[a + i - 1] # SP <=> i <= m
  PROVE  UntilSpace(n, a, b) = SubSeq(n, a, a + m - 1)
<1> DEFINE T == {i \in a .. b + 1 : i > b \/ n[i] = SP}
<1>1. T \subseteq Nat
  OBVIOUS
<1>2. a + m \in T
  <2>1. a + m \in a .. b + 1
    OBVIOUS
  <2>2. CASE m = b - a + 1
    BY <2>1, <2>2
  <2>3. CASE m # b - a + 1
    <3>1. m + 1 \in 1 .. b - a + 1 /\ ~ (m + 1 <= m) /\ a + (m + 1) - 1 = a + m
      BY <2>3
    <3>2. n[a + (m + 1) - 1] = SP
      BY <3>1, Zenon
    <3> QED
      BY <2>1, <3>1, <3>2, SMTT(30)
  <2> QED
    BY <2>2, <2>3
<1>3. ASSUME NEW y \in T PROVE a + m <= y
  <2>1. y \in a .. b + 1 /\ (y > b \/ n[y] = SP)
    BY <1>3
  <2>2. CASE y > b
    BY <2>1, <2>2
  <2>3. CASE ~ (y > b)
    <3>1. y - a + 1 \in 1 .. b - a + 1 /\ a + (y - a + 1) - 1 = y
      BY <2>1, <2>3, SMTT(30)
    <3>2. ~ (y - a + 1 <= m)
      BY <2>1, <2>3, <3>1, Zenon
    <3> QED
      BY <2>1, <3>2, SMTT(30)
  <2> QED
    BY <2>2, <2>3
<1> HIDE DEF T
<1>4. Min(T) = a + m
  BY <1>1, <1>2, <1>3, MinOnly, Zenon
<1>5. UntilSpace(n, a, b) = SubSeq(n, a, Min(T) - 1)
  BY DEF UntilSpace, T
<1> QED
  BY <1>4, <1>5

(* The listed form of a name.                                              *)
LEMMA ListedIs ==
  ASSUME NEW n, n \in Seq(Glyphs), Len(n) = BASE + EXT, NEW p, NEW x, Filled(n, p, x),
         NEW t, t = fat32_name_to_string(n)
  PROVE  /\ t \in Seq(Glyphs) /\ Len(t) = IF x = 0 THEN p ELSE p + 1 + x
         /\ \A i \in 1 .. p : t[i] = n[i]
         /\ x # 0 => t[p + 1] = DOT /\ \A i \in 1 .. x : t[p + 1 + i] = n[BASE + i]
<1>1. /\ p \in 1 .. BASE /\ x \in 0 .. EXT
      /\ \A i \in 1 .. BASE : n[i] # SP <=> i <= p
      /\ \A i \in 1 .. EXT : n[BASE + i] # SP <=> i <= x
  BY DEF Filled
<1> DEFINE u == SubSeq(n, 1, p)
           v == SubSeq(n, BASE + 1, BASE + x)
<1>2. UntilSpace(n, 1, BASE) = u
  <2>1. \A i \in 1 .. BASE - 1 + 1 : n[1 + i - 1] # SP <=> i <= p
    BY <1>1, BaseExt, SMTT(30)
  <2>2. /\ 1 \in Nat /\ 1 >= 1 /\ BASE \in Nat /\ 1 <= BASE /\ BASE <= Len(n)
        /\ p \in 0 .. BASE - 1 + 1
    BY <1>1, BaseExt
  <2>3. UntilSpace(n, 1, BASE) = SubSeq(n, 1, 1 + p - 1)
    BY <2>1, <2>2, UntilSpaceIs, Zenon
  <2> QED
    BY <1>1, <2>3, SMTT(30)
<1>3. UntilSpace(n, BASE + 1, BASE + EXT) = v
  <2> DEFINE a == BASE + 1
             b == BASE + EXT
  <2>1. /\ a \in Nat /\ a >= 1 /\ b \in Nat /\ a <= b /\ b <= Len(n)
        /\ x \in 0 .. b - a + 1 /\ a + x - 1 = BASE + x
    BY <1>1, BaseExt
  <2>2. ASSUME NEW i \in 1 .. b - a + 1 PROVE n[a + i - 1] # SP <=> i <= x
    <3>1. i \in 1 .. EXT /\ a + i - 1 = BASE + i
      BY BaseExt
    <3> QED
      BY <1>1, <3>1, Zenon
  <2> HIDE DEF a, b
  <2>3. UntilSpace(n, a, b) = SubSeq(n, a, a + x - 1)
    BY <2>1, <2>2, UntilSpaceIs, Zenon
  <2> QED
    BY <2>1, <2>3, Zenon DEF a, b
<1>4. u \in Seq(Glyphs) /\ Len(u) = p /\ \A i \in 1 .. p : u[i] = n[i]
  BY <1>1, BaseExt, SubSeqIs, SMTT(30)
<1>5. v \in Seq(Glyphs) /\ Len(v) = x /\ \A i \in 1 .. x : v[i] = n[BASE + i]
  BY <1>1, BaseExt, SubSeqIs, SMTT(30)
<1> HIDE DEF u, v
<1>6. n[BASE + 1] # SP <=> x # 0
  BY <1>1, BaseExt, SMTT(30)
<1>7. CASE x = 0
  <2>1. t = u \o <<>>
    BY <1>2, <1>6, <1>7, Zenon DEF fat32_name_to_string
  <2>2. t = u
    BY <1>4, <2>1
  <2> QED
    BY <1>4, <1>7, <2>2, SMTT(30)
<1>8. CASE x # 0
  <2> DEFINE d == <<DOT>> \o v
  <2>1. t = u \o d
    BY <1>2, <1>3, <1>6, <1>8, SMTT(30) DEF fat32_name_to_string
  <2>2. <<DOT>> \in Seq(Glyphs) /\ Len(<<DOT>>) = 1 /\ <<DOT>>[1] = DOT
    <3>1. DOT \in Glyphs
      BY ConsoleAssumption, Zenon
    <3> QED
      BY <3>1
  <2>3. /\ d \in Seq(Glyphs) /\ Len(d) = 1 + x /\ d[1] = DOT
        /\ \A i \in 1 .. x : d[1 + i] = v[i]
    <3>1. 1 \in 1 .. 1
      OBVIOUS
    <3> QED
      BY <1>5, <2>2, <3>1, ConcatIs, SMTT(30)
  <2> HIDE DEF d
  <2>4. /\ t \in Seq(Glyphs) /\ Len(t) = p + (1 + x)
        /\ \A i \in 1 .. p : t[i] = u[i]
        /\ \A i \in 1 .. 1 + x : t[p + i] = d[i]
    <3>1. /\ u \o d \in Seq(Glyphs) /\ Len(u \o d) = Len(u) + Len(d)
          /\ \A i \in 1 .. Len(u) : (u \o d)[i] = u[i]
          /\ \A i \in 1 .. Len(d) : (u \o d)[Len(u) + i] = d[i]
      <4>1. u \in Seq(Glyphs) /\ d \in Seq(Glyphs)
        BY <1>4, <2>3, SMTT(30)
      <4> QED
        BY <4>1, ConcatIs, SMTT(30)
    <3> QED
      BY <1>4, <2>1, <2>3, <3>1, ZenonT(30)
  <2>5. p \in Nat /\ x \in Nat /\ x >= 1
    BY <1>1, <1>8, SMTT(30)
  <2>6. t[p + 1] = DOT
    BY <2>3, <2>4, <2>5, SMTT(30)
  <2>7. ASSUME NEW i \in 1 .. x PROVE t[p + 1 + i] = n[BASE + i]
    <3>1. 1 + i \in 1 .. 1 + x /\ p + (1 + i) = p + 1 + i
      BY <2>5
    <3> QED
      BY <1>5, <2>3, <2>4, <3>1, SMTT(30)
  <2> QED
    BY <1>4, <1>8, <2>4, <2>5, <2>6, <2>7, SMTT(30)
<1> QED
  BY <1>7, <1>8

LEMMA FirstDotIs ==
  ASSUME NEW u, Len(u) \in Nat, NEW d, d = FirstDot(u)
  PROVE  /\ d \in 1 .. Len(u) + 1 /\ (d <= Len(u) => u[d] = DOT)
         /\ \A i \in 1 .. d - 1 : u[i] # DOT
<1> DEFINE T == {i \in 1 .. Len(u) + 1 : i > Len(u) \/ u[i] = DOT}
<1>1. T \subseteq Nat /\ Len(u) + 1 \in T
  OBVIOUS
<1>2. d = Min(T)
  BY SMTT(30) DEF FirstDot
<1>3. d \in T /\ \A y \in T : d <= y
  BY <1>1, <1>2, MinIs, SMTT(30)
<1>4. ASSUME NEW i \in 1 .. d - 1, u[i] = DOT PROVE FALSE
  <2>1. i \in T
    BY <1>3, <1>4, SMTT(30)
  <2> QED
    BY <1>3, <2>1, SMTT(30)
<1> QED
  BY <1>3, <1>4

LEMMA FirstDotOnly ==
  ASSUME NEW u, Len(u) \in Nat, NEW d \in 1 .. Len(u) + 1, d <= Len(u) => u[d] = DOT,
         \A i \in 1 .. d - 1 : u[i] # DOT
  PROVE  FirstDot(u) = d
<1> DEFINE f == FirstDot(u)
<1>1. /\ f \in 1 .. Len(u) + 1 /\ (f <= Len(u) => u[f] = DOT)
      /\ \A i \in 1 .. f - 1 : u[i] # DOT
  BY FirstDotIs
<1> HIDE DEF f
<1>2. ~ (f < d)
  BY <1>1
<1>3. ~ (d < f)
  BY <1>1
<1>4. f = d
  BY <1>1, <1>2, <1>3, SMTT(30)
<1> QED
  BY <1>4 DEF f

(* The two conversions are inverse to each other on names that can be      *)
(* listed.                                                                 *)
LEMMA NamedIsSearched ==
  ASSUME NEW n \in Directory
  PROVE  fat32_string_to_name(fat32_name_to_string(n)) = n
<1>1. /\ n \in Seq(Glyphs) /\ Len(n) = BASE + EXT
      /\ \A i \in 1 .. BASE + EXT : n[i] # DOT
  BY NameIs
<1>2. PICK p, x : Filled(n, p, x)
  BY NameIs
<1>3. /\ p \in 1 .. BASE /\ x \in 0 .. EXT
      /\ \A i \in 1 .. BASE : n[i] # SP <=> i <= p
      /\ \A i \in 1 .. EXT : n[BASE + i] # SP <=> i <= x
  BY <1>2, SMTT(30) DEF Filled
<1> DEFINE t == fat32_name_to_string(n)
           m == fat32_string_to_name(t)
<1>4. /\ t \in Seq(Glyphs) /\ Len(t) = IF x = 0 THEN p ELSE p + 1 + x
      /\ \A i \in 1 .. p : t[i] = n[i]
      /\ x # 0 => t[p + 1] = DOT /\ \A i \in 1 .. x : t[p + 1 + i] = n[BASE + i]
  BY <1>1, <1>2, ListedIs
<1> HIDE DEF t
<1>5. FirstDot(t) = p + 1
  <2> DEFINE d == p + 1
  <2>1. Len(t) \in Nat /\ d \in 1 .. Len(t) + 1 /\ (d <= Len(t) => t[d] = DOT)
    BY <1>3, <1>4
  <2>2. ASSUME NEW i \in 1 .. d - 1 PROVE t[i] # DOT
    <3>1. i \in 1 .. p /\ i \in 1 .. BASE + EXT
      BY <1>3, BaseExt
    <3> QED
      BY <1>1, <1>4, <3>1, Zenon
  <2> HIDE DEF d
  <2>3. FirstDot(t) = d
    BY <2>1, <2>2, FirstDotOnly, Zenon
  <2> QED
    BY <2>3, SMTT(30) DEF d
<1>6. ASSUME NEW i \in 1 .. BASE PROVE m[i] = n[i]
  <2>1. i \in 1 .. BASE + EXT /\ i <= BASE
    BY BaseExt, SMTT(30)
  <2>2. m[i] = IF i <= Len(t) /\ i < p + 1 THEN t[i] ELSE SP
    BY <1>5, <2>1 DEF fat32_string_to_name
  <2>3. CASE i <= p
    <3>1. i \in 1 .. p /\ i <= Len(t) /\ i < p + 1
      BY <1>3, <1>4, <2>3
    <3> QED
      BY <1>4, <2>2, <3>1, Zenon
  <2>4. CASE ~ (i <= p)
    <3>1. ~ (i < p + 1)
      BY <1>3, <2>4, SMTT(30)
    <3> QED
      BY <1>3, <2>2, <2>4, <3>1, Zenon
  <2> QED
    BY <2>3, <2>4
<1>7. ASSUME NEW i \in 1 .. EXT PROVE m[BASE + i] = n[BASE + i]
  <2>1. /\ BASE + i \in 1 .. BASE + EXT /\ ~ (BASE + i <= BASE)
        /\ p + 1 + (BASE + i) - BASE = p + 1 + i
    BY <1>3, BaseExt, SMTT(30)
  <2>2. m[BASE + i] = IF p + 1 + i <= Len(t) THEN t[p + 1 + i] ELSE SP
    BY <1>5, <2>1 DEF fat32_string_to_name
  <2>3. CASE i <= x
    <3>1. x # 0 /\ i \in 1 .. x /\ p + 1 + i <= Len(t)
      BY <1>3, <1>4, <2>3, SMTT(30)
    <3> QED
      BY <1>4, <2>2, <3>1, Zenon
  <2>4. CASE ~ (i <= x)
    <3>1. ~ (p + 1 + i <= Len(t))
      BY <1>3, <1>4, <2>4, SMTT(30)
    <3> QED
      BY <1>3, <2>2, <2>4, <3>1, Zenon
  <2> QED
    BY <2>3, <2>4, SMTT(30)
<1>8. m = [i \in 1 .. BASE + EXT |-> m[i]] /\ n = [i \in 1 .. BASE + EXT |-> n[i]]
  BY <1>1, SMTT(30) DEF fat32_string_to_name
<1>9. ASSUME NEW i \in 1 .. BASE + EXT PROVE m[i] = n[i]
  <2>1. CASE i <= BASE
    <3>1. i \in 1 .. BASE
      BY <2>1, BaseExt
    <3> QED
      BY <1>6, <3>1, Zenon
  <2>2. CASE ~ (i <= BASE)
    <3>1. i - BASE \in 1 .. EXT /\ BASE + (i - BASE) = i
      BY <2>2, BaseExt
    <3>2. m[BASE + (i - BASE)] = n[BASE + (i - BASE)]
      BY <1>7, <3>1, Zenon
    <3> QED
      BY <3>1, <3>2, Zenon
  <2> QED
    BY <2>1, <2>2, SMTT(30)
<1> HIDE DEF m
<1>10. m = n
  BY <1>8, <1>9, Zenon
<1> QED
  BY <1>10, Zenon DEF m, t

LEMMA SearchedIsNamed ==
  ASSUME NEW G, NEW u \in Seq(G), \A i \in 1 .. Len(u) : u[i] # SP, Is83(u),
         NEW n \in Directory, n = fat32_string_to_name(u)
  PROVE  fat32_name_to_string(n) = u
<1> DEFINE d == FirstDot(u)
<1>1. /\ d \in 2 .. BASE + 1 /\ Len(u) \in Nat /\ d \in 1 .. Len(u) + 1
      /\ d <= Len(u) => u[d] = DOT /\ Len(u) - d \in 1 .. EXT
  <2>1. Len(u) \in Nat
    OBVIOUS
  <2> QED
    BY <2>1, FirstDotIs, SMTT(30) DEF Is83
<1>2. PICK p, x : Filled(n, p, x)
  BY NameIs, SMTT(30)
<1>3. /\ p \in 1 .. BASE /\ x \in 0 .. EXT
      /\ \A i \in 1 .. BASE : n[i] # SP <=> i <= p
      /\ \A i \in 1 .. EXT : n[BASE + i] # SP <=> i <= x
  BY <1>2, SMTT(30) DEF Filled
<1>4. \A i \in 1 .. BASE : n[i] = IF i <= Len(u) /\ i < d THEN u[i] ELSE SP
  BY BaseExt, SMTT(30) DEF fat32_string_to_name
<1>5. ASSUME NEW i \in 1 .. EXT PROVE n[BASE + i] = IF d + i <= Len(u) THEN u[d + i] ELSE SP
  <2>1. /\ BASE + i \in 1 .. BASE + EXT /\ ~ (BASE + i <= BASE)
        /\ d + (BASE + i) - BASE = d + i
    BY <1>1, BaseExt, SMTT(30)
  <2> QED
    BY <2>1, SMTT(30) DEF fat32_string_to_name
<1> HIDE DEF d
<1>6. p = d - 1
  <2>1. ASSUME NEW i \in 1 .. BASE PROVE i <= p <=> i <= d - 1
    <3>1. i < d => i <= Len(u) /\ u[i] # SP
      BY <1>1, SMTT(30)
    <3> QED
      BY <1>1, <1>3, <1>4, <3>1, SMTT(30)
  <2>2. p \in 1 .. BASE /\ d - 1 \in 1 .. BASE
    BY <1>1, <1>3, BaseExt, SMTT(30)
  <2>3. p <= d - 1 /\ d - 1 <= p
    BY <2>1, <2>2, SMTT(30)
  <2> QED
    BY <2>2, <2>3, SMTT(30)
<1>7. x = IF d <= Len(u) THEN Len(u) - d ELSE 0
  <2>1. ASSUME NEW i \in 1 .. EXT PROVE i <= x <=> d + i <= Len(u)
    <3>1. d + i <= Len(u) => d + i \in 1 .. Len(u)
      BY <1>1
    <3>2. d + i <= Len(u) => u[d + i] # SP
      BY <3>1, Zenon
    <3>3. n[BASE + i] # SP <=> d + i <= Len(u)
      BY <1>5, <3>2, Zenon
    <3> QED
      BY <1>3, <3>3, Zenon
  <2>2. CASE d <= Len(u)
    <3>1. Len(u) - d \in 1 .. EXT /\ d + (Len(u) - d) <= Len(u)
      BY <1>1, <2>2
    <3>2. Len(u) - d <= x
      BY <2>1, <3>1, Zenon
    <3>3. x \in 1 .. EXT /\ x <= x
      BY <1>3, <3>1, <3>2, SMTT(30)
    <3>4. d + x <= Len(u)
      BY <2>1, <3>3, Zenon
    <3> QED
      BY <1>1, <1>3, <2>2, <3>2, <3>4, SMTT(30)
  <2>3. CASE ~ (d <= Len(u))
    <3>1. x # 0 => x \in 1 .. EXT /\ x <= x /\ ~ (d + x <= Len(u))
      BY <1>1, <1>3, <2>3, SMTT(30)
    <3>2. x = 0
      BY <2>1, <3>1, ZenonT(30)
    <3> QED
      BY <2>3, <3>2, SMTT(30)
  <2> QED
    BY <2>2, <2>3
<1> DEFINE t == fat32_name_to_string(n)
<1>8. /\ t \in Seq(Glyphs) /\ Len(t) = IF x = 0 THEN p ELSE p + 1 + x
      /\ \A i \in 1 .. p : t[i] = n[i]
      /\ x # 0 => t[p + 1] = DOT /\ \A i \in 1 .. x : t[p + 1 + i] = n[BASE + i]
  <2>1. n \in Seq(Glyphs) /\ Len(n) = BASE + EXT
    BY NameIs, SMTT(30)
  <2> QED
    BY <1>2, <2>1, ListedIs, SMTT(30)
<1> HIDE DEF t
<1>9. Len(t) = Len(u)
  BY <1>1, <1>6, <1>7, <1>8, SMTT(30)
<1>10. ASSUME NEW i \in 1 .. Len(t) PROVE t[i] = u[i]
  <2>1. CASE i <= p
    <3>1. i \in 1 .. Len(u) /\ p \in 1 .. BASE /\ BASE \in Nat /\ d \in Int /\ Len(u) \in Nat
      BY <1>1, <1>3, <1>9, BaseExt, SMTT(30)
    <3>2. i \in 1 .. p /\ i \in 1 .. BASE /\ i <= Len(u) /\ i < d
      BY <1>6, <2>1, <3>1, SMTT(30)
    <3> QED
      BY <1>4, <1>8, <3>2, Zenon
  <2>2. CASE ~ (i <= p)
    <3>1. x # 0 /\ d <= Len(u) /\ p + 1 = d
      BY <1>1, <1>3, <1>6, <1>7, <1>8, <1>9, <2>2, SMTT(30)
    <3>2. CASE i = d
      BY <1>1, <1>8, <3>1, <3>2, Zenon
    <3>3. CASE i # d
      <4>1. i - d \in 1 .. x /\ i - d \in 1 .. EXT /\ d + (i - d) = i /\ i <= Len(u)
        <5>1. /\ i \in 1 .. Len(u) /\ x \in 0 .. EXT /\ EXT \in Nat /\ d \in Int
              /\ Len(u) \in Nat /\ x = Len(u) - d
          BY <1>1, <1>3, <1>7, <1>9, <3>1, BaseExt, SMTT(30)
        <5> QED
          BY <1>6, <2>2, <3>1, <3>3, <5>1, SMTT(30)
      <4>2. t[d + (i - d)] = n[BASE + (i - d)]
        BY <1>8, <3>1, <4>1, Zenon
      <4> QED
        BY <1>5, <4>1, <4>2, Zenon
    <3> QED
      BY <3>2, <3>3, SMTT(30)
  <2> QED
    BY <2>1, <2>2
<1>11. t = u
  BY <1>8, <1>9, <1>10, SeqEqual, ZenonT(30)
<1> QED
  BY <1>11, SMTT(30) DEF t

LEMMA FirstWordIs ==
  ASSUME NEW G, NEW line \in Seq(G), Len(line) < MAX_ARG_LEN, Words(line) # <<>>,
         NEW w, w = Words(line)[1]
  PROVE  /\ w \in Seq(G) /\ \A i \in 1 .. Len(w) : w[i] # SP
         /\ parse_command_line(line).program = w
<1> DEFINE S == Starts(line)
           W == Cardinality(S)
           b == SkipSpaces(line, 1)
<1>1. Len(line) \in Nat /\ W \in Nat /\ Len(Words(line)) = W
  BY StartsFinite, WordsIs
<1>2. OnWord(line, 0, b, WordEnd(line, b))
  BY <1>1, ScanFirst, Zenon
<1>3. W # 0
  BY <1>1 DEF Words
<1>4. 0 + 1 <= W /\ 0 + 1 = 1
  BY <1>1, <1>3
<1>5. b \in S /\ Rank(S, b) = 1
  BY <1>2, <1>4, Zenon DEF OnWord
<1> DEFINE e == EndOf(line, b)
<1>6. w = SubSeq(line, b, e)
  BY <1>5, WordsIs, Zenon
<1>7. b \in 1 .. Len(line) /\ line[b] # SP
  BY <1>5, SMTT(30) DEF Starts
<1>8. e \in b .. Len(line) /\ \A m \in b .. e : line[m] # SP
  BY <1>1, <1>7, EndOfIs, SMTT(30)
<1> HIDE DEF b, e
<1>9. b \in 1 .. Len(line) + 1 /\ e \in b - 1 .. Len(line)
  BY <1>1, <1>7, <1>8, SMTT(30)
<1>10. w \in Seq(G) /\ Len(w) = e - b + 1 /\ \A i \in 1 .. e - b + 1 : w[i] = line[b + i - 1]
  BY <1>6, <1>9, SubSeqIs
<1>11. ASSUME NEW i \in 1 .. Len(w) PROVE w[i] # SP
  <2>1. i \in 1 .. e - b + 1 /\ b + i - 1 \in b .. e
    BY <1>7, <1>8, <1>10
  <2> QED
    BY <1>8, <1>10, <2>1, Zenon
<1>12. parse_command_line(line).program = w
  BY ParsesProgram, Zenon
<1> QED
  BY <1>10, <1>11, <1>12

LEMMA UpperKeeps ==
  ASSUME NEW c
  PROVE  (Upper(c) = SP <=> c = SP) /\ (Upper(c) = DOT <=> c = DOT)
<1>1. ASSUME NEW d \in DOMAIN UPPER PROVE d # SP /\ d # DOT /\ UPPER[d] # SP /\ UPPER[d] # DOT
  BY CommandAssumption, Zenon
<1> QED
  BY <1>1, Zenon DEF Upper

LEMMA UpperWordIs ==
  ASSUME NEW G, NEW w \in Seq(G), \A i \in 1 .. Len(w) : w[i] # SP, Is83(w),
         NEW u, u = UpperWord(w)
  PROVE  /\ u \in Seq({Upper(c) : c \in G}) /\ Len(u) = Len(w)
         /\ \A i \in 1 .. Len(u) : u[i] # SP
         /\ Is83(u)
<1>1. Len(w) \in Nat /\ \A i \in 1 .. Len(w) : w[i] \in G
  OBVIOUS
<1>2. u = [i \in 1 .. Len(w) |-> Upper(w[i])]
  BY DEF UpperWord
<1>3. u \in [1 .. Len(w) -> {Upper(c) : c \in G}] /\ \A i \in 1 .. Len(w) : u[i] = Upper(w[i])
  BY <1>1, <1>2, Zenon
<1>4. u \in Seq({Upper(c) : c \in G}) /\ Len(u) = Len(w)
  BY <1>1, <1>3, FunctionSeq
<1>5. \A i \in 1 .. Len(w) : u[i] # SP /\ (u[i] = DOT <=> w[i] = DOT)
  BY <1>3, UpperKeeps, Zenon
<1> DEFINE d == FirstDot(w)
<1>6. /\ d \in 1 .. Len(w) + 1 /\ (d <= Len(w) => w[d] = DOT)
      /\ \A i \in 1 .. d - 1 : w[i] # DOT
  BY <1>1, FirstDotIs, SMTT(30)
<1>7. /\ d \in 2 .. BASE + 1
      /\ d <= Len(w) =>
           Len(w) - d \in 1 .. EXT /\ \A i \in d + 1 .. Len(w) : w[i] # DOT
  BY DEF Is83
<1> HIDE DEF d
<1>8. FirstDot(u) = d
  <2>1. d <= Len(u) => u[d] = DOT
    <3>1. d <= Len(u) => d \in 1 .. Len(w) /\ d <= Len(w)
      BY <1>1, <1>4, <1>6
    <3> QED
      BY <1>5, <1>6, <3>1, Zenon
  <2>2. ASSUME NEW i \in 1 .. d - 1 PROVE u[i] # DOT
    <3>1. i \in 1 .. Len(w)
      BY <1>1, <1>6
    <3> QED
      BY <1>5, <1>6, <3>1, Zenon
  <2>3. Len(u) \in Nat /\ d \in 1 .. Len(u) + 1
    BY <1>1, <1>4, <1>6, Zenon
  <2> QED
    BY <2>1, <2>2, <2>3, FirstDotOnly, Zenon
<1>9. ASSUME d <= Len(w), NEW i \in d + 1 .. Len(w) PROVE u[i] # DOT
  <2>1. i \in 1 .. Len(w)
    BY <1>1, <1>6
  <2> QED
    BY <1>5, <1>7, <1>9, <2>1, Zenon
<1>10. Is83(u)
  BY <1>4, <1>7, <1>8, <1>9, Zenon DEF Is83
<1> QED
  BY <1>4, <1>5, <1>10, SMTT(30)

LEMMA FilenameIs ==
  ASSUME NEW G, NEW w \in Seq(G), Len(w) <= KEPT
  PROVE  filename(w) = UpperWord(w)
<1>1. Len(w) \in Nat /\ KEPT \in Nat
  BY BaseExt DEF KEPT
<1>2. Min({Len(w), KEPT}) = Len(w)
  BY <1>1, MinOfTwo
<1> QED
  BY <1>2, Zenon DEF filename, UpperWord

(* Every listed name of at most KEPT characters that is typed, in either   *)
(* case, is found by execute_command and EXEC, and nothing else is: for    *)
(* every directory, name lengths and line.                                 *)
THEOREM ConsoleFindsListedName == Spec => []FindsListedName
<1>1. Init => LineInv /\ PromptInv
  BY InitInv
<1>2. LineInv /\ PromptInv /\ [Next]_vars => (LineInv /\ PromptInv)'
  BY NextInv
<1>3. LineInv => FindsListedName
  <2> DEFINE w == Words(buf)[1]
             u == UpperWord(w)
             n == SearchName(buf)
  <2> SUFFICES ASSUME LineInv, Words(buf) # <<>>, Is83(w), Len(w) <= KEPT
               PROVE  {Found(buf)} = IF NamedBy(w) = {} THEN {NoFile} ELSE NamedBy(w)
    BY Zenon DEF FindsListedName
  <2>1. buf \in Seq(Typed) /\ Len(buf) < MAX_ARG_LEN
    BY ConsoleAssumption, CommandAssumption DEF LineInv
  <2>2. /\ w \in Seq(Typed) /\ \A i \in 1 .. Len(w) : w[i] # SP
        /\ parse_command_line(buf).program = w
    BY <2>1, FirstWordIs, Zenon
  <2> HIDE DEF w
  <2>3. u \in Seq({Upper(c) : c \in Typed}) /\ Is83(u) /\ \A i \in 1 .. Len(u) : u[i] # SP
    BY <2>2, UpperWordIs, Zenon
  <2>4. n = fat32_string_to_name(u)
    BY <2>2, FilenameIs, Zenon DEF SearchName
  <2> HIDE DEF u, n
  <2>5. ASSUME NEW m \in NamedBy(w) PROVE m \in Directory /\ m = n
    <3>1. m \in Directory /\ fat32_name_to_string(m) = u
      BY <2>5, Zenon DEF NamedBy, u
    <3> QED
      BY <2>4, <3>1, NamedIsSearched, Zenon
  <2>6. CASE n \in Directory
    <3>1. n \in NamedBy(w)
      BY <2>3, <2>4, <2>6, SearchedIsNamed, Zenon DEF NamedBy, u
    <3>2. Found(buf) = n
      BY <2>6, Zenon DEF Found, n
    <3> QED
      BY <2>5, <3>1, <3>2, Zenon
  <2>7. CASE n \notin Directory
    <3>1. NamedBy(w) = {}
      BY <2>5, <2>7, Zenon
    <3>2. Found(buf) = NoFile
      BY <2>7, Zenon DEF Found, n
    <3> QED
      BY <3>1, <3>2, Zenon
  <2> QED
    BY <2>6, <2>7
<1> QED
  BY <1>1, <1>2, <1>3, PTL DEF Spec
-----------------------------------------------------------------------------
LEMMA ParsesArgs ==
  ASSUME NEW G, NEW line \in Seq(G), Len(line) < MAX_ARG_LEN, Words(line) # <<>>,
         NEW args, args = parse_command_line(line).args,
         NEW count, count = Min({Len(Words(line)) - 1, MAX_ARGS})
  PROVE  /\ count \in Nat /\ count <= MAX_ARGS /\ count <= Len(Words(line)) - 1
         /\ Len(args) = count
         /\ \A k \in 1 .. count : args[k] = Words(line)[k + 1]
<1> DEFINE S == Starts(line)
           W == Cardinality(S)
           after == ScanAfter(line)
           from(k) == SkipSpaces(line, after[k - 1])
           T == {k \in 1 .. MAX_ARGS : from(k) <= Len(line)}
<1>1. /\ Len(line) \in Nat /\ W \in Nat /\ Len(Words(line)) = W /\ MAX_ARGS \in Nat
      /\ S \subseteq 1 .. Len(line)
  BY StartsFinite, WordsIs, CommandAssumption DEF Starts
<1>2. W # 0
  BY <1>1 DEF Words
<1>3. /\ count \in Nat /\ count <= MAX_ARGS /\ count <= W - 1
      /\ \A k \in 1 .. MAX_ARGS : k \in 1 .. count <=> k + 1 <= W
  <2>1. W - 1 \in Nat
    BY <1>1, <1>2
  <2>2. count = IF W - 1 <= MAX_ARGS THEN W - 1 ELSE MAX_ARGS
    BY <1>1, <2>1, MinOfTwo
  <2> HIDE DEF W
  <2>3. count \in Nat /\ count <= MAX_ARGS /\ count <= W - 1
    BY <1>1, <2>1, <2>2, SMTT(30)
  <2>4. ASSUME NEW k \in 1 .. MAX_ARGS PROVE k \in 1 .. count <=> k + 1 <= W
    BY <1>1, <2>1, <2>2
  <2> QED
    BY <2>3, <2>4, Zenon
<1>4. ASSUME NEW k \in 1 .. MAX_ARGS PROVE OnWord(line, k, from(k), after[k])
  <2>1. k \in 0 .. MAX_ARGS /\ k # 0
    BY <1>1
  <2>2. ScanFrom(after, k) = after[k - 1]
    BY <2>1 DEF ScanFrom
  <2>3. OnWord(line, k, SkipSpaces(line, ScanFrom(after, k)), after[k])
    BY <1>1, <2>1, ScansWords, SMTT(30)
  <2> QED
    BY <2>2, <2>3, Zenon
<1>5. ASSUME NEW k \in 1 .. MAX_ARGS
      PROVE  /\ from(k) <= Len(line) <=> k + 1 <= W
             /\ k + 1 <= W => SubSeq(line, from(k), after[k] - 1) = Words(line)[k + 1]
  <2>1. CASE k + 1 <= W
    <3>1. from(k) \in S /\ Rank(S, from(k)) = k + 1 /\ after[k] = EndOf(line, from(k)) + 1
      BY <1>4, <2>1, Zenon DEF OnWord
    <3>2. from(k) \in 1 .. Len(line) /\ line[from(k)] # SP
      BY <3>1, SMTT(30) DEF Starts
    <3>3. EndOf(line, from(k)) \in from(k) .. Len(line)
      BY <1>1, <3>2, EndOfIs, SMTT(30)
    <3>4. after[k] - 1 = EndOf(line, from(k)) /\ from(k) <= Len(line)
      BY <1>1, <3>1, <3>2, <3>3, SMTT(30)
    <3>5. Words(line)[k + 1] = SubSeq(line, from(k), EndOf(line, from(k)))
      BY <3>1, WordsIs, Zenon
    <3> QED
      BY <2>1, <3>4, <3>5, Zenon
  <2>2. CASE ~ (k + 1 <= W)
    <3>1. from(k) = Len(line) + 1
      BY <1>4, <2>2, Zenon DEF OnWord
    <3>2. ~ (Len(line) + 1 <= Len(line))
      BY <1>1
    <3> QED
      BY <2>2, <3>1, <3>2, Zenon
  <2> QED
    BY <2>1, <2>2
<1>6. \A k \in 1 .. count : k \in 1 .. MAX_ARGS
  BY <1>1, <1>3
<1>7. T = 1 .. count
  BY <1>3, <1>5, <1>6, Zenon
<1>8. Cardinality(T) = count
  <2>1. 1 \in Int /\ count \in Int /\ (IF 1 > count THEN 0 ELSE count - 1 + 1) = count
    BY <1>3, SMTT(30)
  <2> QED
    BY <1>7, <2>1, FS_Interval, Zenon
<1>9. args = [k \in 1 .. Cardinality(T) |-> SubSeq(line, from(k), after[k] - 1)]
  BY DEF parse_command_line
<1>10. args = [k \in 1 .. count |-> SubSeq(line, from(k), after[k] - 1)]
  BY <1>8, <1>9, Zenon
<1>11. Len(args) = count
  BY <1>3, <1>10
<1>12. \A k \in 1 .. count : args[k] = Words(line)[k + 1]
  BY <1>3, <1>5, <1>6, <1>10, Zenon
<1> QED
  BY <1>1, <1>3, <1>11, <1>12, ZenonT(30)

LEMMA EmptyFilename ==
  ASSUME NEW program, Len(program) = 0
  PROVE  Len(filename(program)) = 0
<1>1. KEPT \in Nat
  BY BaseExt DEF KEPT
<1>2. Min({Len(program), KEPT}) = 0
  BY <1>1, MinOfTwo
<1>3. filename(program) = [i \in 1 .. 0 |-> Upper(program[i])]
  BY <1>2, Zenon DEF filename
<1> QED
  BY <1>3

(* A line without a word names no file.                                    *)
LEMMA FoundHasName ==
  ASSUME NEW G, NEW line \in Seq(G), Len(line) < MAX_ARG_LEN, Found(line) # NoFile
  PROVE  Words(line) # <<>>
<1> SUFFICES ASSUME Words(line) = <<>> PROVE FALSE
  OBVIOUS
<1>1. parse_command_line(line).program = <<>>
  BY ParsesProgram, Zenon
<1> DEFINE s == filename(<<>>)
           n == fat32_string_to_name(s)
<1>2. Len(<<>>) = 0
  OBVIOUS
<1>3. Len(s) = 0
  BY <1>2, EmptyFilename
<1> HIDE DEF s
<1>4. 1 \in 1 .. BASE + EXT /\ 1 <= BASE /\ ~ (1 <= 0)
  BY BaseExt
<1>5. n[1] = SP
  BY <1>3, <1>4 DEF fat32_string_to_name
<1> HIDE DEF n
<1>6. SearchName(line) = n
  BY <1>1, Zenon DEF SearchName, n, s
<1>7. n \in Directory
  BY <1>6, Zenon DEF Found
<1> QED
  BY <1>5, <1>7, DirectoryAssumption, Zenon

(* A program that runs was named on the line, which stays as it is.        *)
RunInv == running => editor # "boot" /\ Words(buf) # <<>>

LEMMA Step_Run ==
  ASSUME LineInv, RunInv, [Next]_vars
  PROVE  RunInv'
<1>1. buf \in Seq(Typed) /\ Len(buf) < MAX_ARG_LEN
  BY ConsoleAssumption, CommandAssumption DEF LineInv
<1>2. CASE Boot
  BY <1>2, Zenon DEF Boot, RunInv
<1>3. ASSUME NEW source, NEW c, Key(source, c) PROVE RunInv'
  <2>1. ~ running /\ editor # "boot"
    BY <1>3, Zenon DEF Key, Editing
  <2>2. running' = running
        \/ (Found(buf) # NoFile /\ editor' = editor /\ buf' = buf)
    BY <1>3, Zenon DEF Key, Erase, Enter, Insert, Execute
  <2>3. CASE running' = running
    BY <2>1, <2>3, Zenon DEF RunInv
  <2>4. CASE Found(buf) # NoFile /\ editor' = editor /\ buf' = buf
    <3>1. Words(buf) # <<>>
      BY <1>1, <2>4, FoundHasName, Zenon
    <3>2. Words(buf') # <<>>
      BY <2>4, <3>1, Zenon
    <3> QED
      BY <2>1, <2>4, <3>2, Zenon DEF RunInv
  <2> QED
    BY <2>2, <2>3, <2>4
<1>4. CASE ProgramExits
  BY <1>4, Zenon DEF ProgramExits, RunInv
<1>5. CASE UNCHANGED vars
  BY <1>5, Zenon DEF vars, RunInv
<1> QED
  BY <1>2, <1>3, <1>4, <1>5, Zenon DEF Next

LEMMA ArgsOfRunning ==
  ASSUME LineInv, RunInv
  PROVE  ArgsAreWords
<1> SUFFICES ASSUME running PROVE ArgsAreWords
  BY Zenon DEF ArgsAreWords
<1> DEFINE args == current_program_args
           words == Words(buf)
           count == Min({Len(words) - 1, MAX_ARGS})
<1>1. buf \in Seq(Typed) /\ Len(buf) < MAX_ARG_LEN
  BY ConsoleAssumption, CommandAssumption DEF LineInv
<1>2. words # <<>>
  BY Zenon DEF RunInv
<1>3. /\ count \in Nat /\ Len(args) = count
      /\ \A k \in 1 .. count : args[k] = words[k + 1]
  BY <1>1, <1>2, ParsesArgs, ZenonT(30) DEF current_program_args
<1> HIDE DEF args, words, count
<1>4. \A size : get_arg(args, -1, size) = count
  BY <1>3 DEF get_arg
<1>5. ASSUME NEW k \in -2 .. MAX_ARGS, NEW size \in 0 .. CMD_BUF, k # -1
      PROVE  get_arg(args, k, size) =
               IF k \in 0 .. count - 1 /\ size > 0
               THEN SubSeq(words[k + 2], 1, Min({Len(words[k + 2]), size - 1}))
               ELSE -1
  <2>1. CASE k \in 0 .. count - 1 /\ size > 0
    <3>1. k + 1 \in 1 .. count /\ k + 1 + 1 = k + 2
      BY <1>3, <2>1
    <3>2. args[k + 1] = words[k + 2]
      BY <1>3, <3>1
    <3>3. ~ (size = 0 \/ k < 0 \/ k >= Len(args))
      BY <1>3, <2>1
    <3>4. get_arg(args, k, size) = SubSeq(args[k + 1], 1, Min({Len(args[k + 1]), size - 1}))
      BY <1>5, <3>3, Zenon DEF get_arg
    <3> QED
      BY <2>1, <3>2, <3>4, Zenon
  <2>2. CASE ~ (k \in 0 .. count - 1 /\ size > 0)
    <3>1. size = 0 \/ k < 0 \/ k >= Len(args)
      <4>1. k \in Int /\ size \in Nat
        BY ConsoleAssumption, CommandAssumption
      <4> QED
        BY <1>3, <2>2, <4>1
    <3>2. get_arg(args, k, size) = -1
      BY <1>5, <3>1, SMTT(30) DEF get_arg
    <3> QED
      BY <2>2, <3>2, Zenon
  <2> QED
    BY <2>1, <2>2, Zenon
<1> QED
  BY <1>3, <1>4, <1>5, Zenon DEF ArgsAreWords, args, words, count

(* GET_ARGS gives a running program the words after its name, whole and in *)
(* order, up to MAX_ARGS of them: for every line the editors can produce.  *)
THEOREM ConsoleArgsAreWords == Spec => []ArgsAreWords
<1>1. Init => LineInv /\ PromptInv /\ RunInv
  BY InitInv, Zenon DEF Init, RunInv
<1>2. LineInv /\ PromptInv /\ RunInv /\ [Next]_vars => (LineInv /\ PromptInv /\ RunInv)'
  BY NextInv, Step_Run
<1>3. LineInv /\ RunInv => ArgsAreWords
  BY ArgsOfRunning
<1> QED
  BY <1>1, <1>2, <1>3, PTL DEF Spec
=============================================================================
