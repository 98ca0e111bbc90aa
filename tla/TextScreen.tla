----------------------------- MODULE TextScreen -----------------------------
(***************************************************************************)
(* What a text terminal promises its writers, independent of how the      *)
(* screen is stored: a Rows x Columns grid of glyphs and a cursor.  A      *)
(* character is shown at the cursor and the cursor advances; at the end of *)
(* a line it wraps, and below the last line the screen scrolls up by one   *)
(* line, whose new last line is blank.  A newline blanks the cell under    *)
(* the cursor and starts the next line.  Clearing blanks every cell and    *)
(* homes the cursor; the terminal starts cleared.                          *)
(*                                                                         *)
(* ColorGraphicsArray (CgaTerminal) is shown against this specification    *)
(* through the glyph each pair of bytes of CGA memory displays.            *)
(***************************************************************************)
EXTENDS Naturals

CONSTANTS
  Columns, Rows,  \* size of the grid
  Glyphs,         \* what a visible cell can show
  Blank           \* an empty cell

VARIABLES
  screen,   \* the glyph shown in each cell
  row,      \* the cursor
  column

vars == <<screen, row, column>>

Cells == (0 .. Rows - 1) \X (0 .. Columns - 1)

BlankScreen == [p \in Cells |-> Blank]

(* Every line moves up by one; the last line becomes blank.               *)
ScrolledUp(s) ==
  [p \in Cells |-> IF p[1] < Rows - 1 THEN s[<<p[1] + 1, p[2]>>] ELSE Blank]

(* Place the cursor at (r, c) after a write to s: wrap past the last      *)
(* column, scroll when below the last line.                                *)
MoveCursor(s, r, c) ==
  LET r1 == IF c >= Columns THEN r + 1 ELSE r
      c1 == IF c >= Columns THEN 0 ELSE c
  IN  IF r1 >= Rows
      THEN /\ screen' = ScrolledUp(s) /\ row' = Rows - 1 /\ column' = 0
      ELSE /\ screen' = s /\ row' = r1 /\ column' = c1

(* Before the terminal is started the screen shows whatever it shows.      *)
Init ==
  /\ screen \in [Cells -> Glyphs \cup {Blank}]
  /\ row = 0
  /\ column = 0

Clear ==
  /\ screen' = BlankScreen
  /\ row' = 0
  /\ column' = 0

Show(g) ==
  MoveCursor([screen EXCEPT ![<<row, column>>] = g], row, column + 1)

NewLine ==
  MoveCursor([screen EXCEPT ![<<row, column>>] = Blank], row + 1, 0)

MoveTo(r, c) ==
  /\ row' = r
  /\ column' = c
  /\ UNCHANGED screen

Next ==
  \/ Clear
  \/ \E g \in Glyphs \cup {Blank} : Show(g)
  \/ NewLine
  \/ \E r \in 0 .. Rows - 1, c \in 0 .. Columns - 1 : MoveTo(r, c)

Spec == Init /\ [][Next]_vars
=============================================================================
