---------------------------- MODULE CgaTerminal ----------------------------
(***************************************************************************)
(* Device::Graphic::ColorGraphicsArray                                     *)
(* (src/device/graphic/terminal/cga/ColorGraphicsArray.cpp): the text-mode *)
(* terminal.  CGA memory holds two bytes per cell, the character and its   *)
(* attribute (background colour in the high nibble, foreground in the low  *)
(* one); the card shows the cursor at the 16-bit cell index written to     *)
(* its CURSOR_HIGH_BYTE and CURSOR_LOW_BYTE registers.                     *)
(*                                                                         *)
(* Characters are model values; attribute bytes and colours are numbers.   *)
(* Before the constructor runs, memory holds whatever the BIOS left on the *)
(* screen (BiosScreens).  The callers (the Terminal base class and its     *)
(* writers) are not under src/: any sequence of putChar, clear and         *)
(* setPosition with a position on the screen is explored.                  *)
(***************************************************************************)
EXTENDS Naturals

CONSTANTS
  Columns, Rows,   \* getColumns(), getRows()
  Chars,           \* printable characters written
  NewLineChar,     \* '\n'
  Space,           \* ' '
  FillChar,        \* the low byte of setShort(0x000f): character 0x0F
  Colors,          \* 4-bit colour codes (Color::getRGB4)
  BiosScreens      \* memory contents the constructor may find

VARIABLES
  mem,             \* cgaMemory, byte offset -> byte
  currentRow,
  currentColumn,
  cursor,          \* the two cursor location registers of the card
  constructed

vars == <<mem, currentRow, currentColumn, cursor, constructed>>

Offsets == 0 .. Rows * Columns * 2 - 1

(* Util::Address::setShort(0x000f) at offset off, little-endian.          *)
FillCell(m, off) == [m EXCEPT ![off] = FillChar, ![off + 1] = 0]

(* scrollUp (lines 76-89): copyRange moves every row but the first up by   *)
(* one row (the copy runs forward to a lower address), then each cell of   *)
(* the last row is filled with 0x000f.                                     *)
ScrollUp(m) ==
  LET lastRow == Columns * (Rows - 1) * 2
  IN  [i \in DOMAIN m |->
         IF i < lastRow THEN m[i + Columns * 2]
         ELSE IF i % 2 = 0 THEN FillChar ELSE 0]

(* updateCursorPosition (lines 62-74): the uint16_t cell index, high byte  *)
(* then low byte.                                                          *)
CursorRegister(r, c) ==
  LET position == (r * Columns + c) % 65536
  IN  [high |-> (position \div 256) % 256, low |-> position % 256]

(* The wrap test of putChar (lines 33-36): the column has run past the     *)
(* last one.                                                               *)
WrapsLineLate(c) == c > Columns
WrapsLine(c) == c >= Columns

(* clear (lines 47-55): the loop writes 0x000f Rows * Columns times, each  *)
(* time at cgaMemory itself (no offset), then homes the cursor.            *)
ClearStep ==
  /\ mem' = FillCell(mem, 0)
  /\ currentRow' = 0
  /\ currentColumn' = 0
  /\ cursor' = CursorRegister(0, 0)

Init ==
  /\ mem \in BiosScreens
  /\ currentRow = 0
  /\ currentColumn = 0
  /\ cursor = CursorRegister(0, 0)
  /\ constructed = FALSE

(* ColorGraphicsArray(columns, rows) (lines 7-16): clear(BLACK), then the  *)
(* cursor shape registers, which the model does not track.                 *)
Construct ==
  /\ ~constructed
  /\ ClearStep
  /\ constructed' = TRUE

Clear ==
  /\ constructed
  /\ ClearStep
  /\ UNCHANGED constructed

(* putChar(c, foreground, background) (lines 18-45).                       *)
PutChar(ch, fg, bg) ==
  LET position == ((currentRow * Columns + currentColumn) * 2) % 65536
      attribute == (bg * 16 + fg) % 256
      written == IF ch = NewLineChar
                 THEN [mem EXCEPT ![position] = Space, ![position + 1] = 0]
                 ELSE [mem EXCEPT ![position] = ch, ![position + 1] = attribute]
      r1 == IF ch = NewLineChar THEN currentRow + 1 ELSE currentRow
      c1 == IF ch = NewLineChar THEN 0 ELSE currentColumn + 1
      r2 == IF WrapsLine(c1) THEN r1 + 1 ELSE r1
      c2 == IF WrapsLine(c1) THEN 0 ELSE c1
      scrolled == r2 >= Rows
      r3 == IF scrolled THEN Rows - 1 ELSE r2
      c3 == IF scrolled THEN 0 ELSE c2
  IN  /\ constructed
      /\ mem' = IF scrolled THEN ScrollUp(written) ELSE written
      /\ currentRow' = r3
      /\ currentColumn' = c3
      /\ cursor' = CursorRegister(r3, c3)
      /\ UNCHANGED constructed

(* setPosition(column, row) (lines 57-60): the cursor registers are not    *)
(* updated.                                                                *)
SetPosition(c, r) ==
  /\ constructed
  /\ currentColumn' = c
  /\ currentRow' = r
  /\ UNCHANGED <<mem, cursor, constructed>>

Next ==
  \/ Construct
  \/ Clear
  \/ \E ch \in Chars \cup {NewLineChar}, fg \in Colors, bg \in Colors :
       PutChar(ch, fg, bg)
  \/ \E c \in 0 .. Columns - 1, r \in 0 .. Rows - 1 : SetPosition(c, r)

Spec == Init /\ [][Next]_vars
-----------------------------------------------------------------------------
(* The glyph a cell shows: nothing (the empty tuple) when foreground and   *)
(* background colours are equal, else its character in its colours.       *)
NoGlyph == << >>
Glyph(ch, attribute) ==
  IF attribute % 16 = attribute \div 16 THEN NoGlyph ELSE <<ch, attribute>>

VisibleScreen ==
  [p \in (0 .. Rows - 1) \X (0 .. Columns - 1) |->
     LET off == (p[1] * Columns + p[2]) * 2
     IN  Glyph(mem[off], mem[off + 1])]

TypeOK ==
  /\ mem \in [Offsets -> Chars \cup {Space, FillChar} \cup (0 .. 255)]
  /\ currentRow \in Nat /\ currentColumn \in Nat
  /\ cursor \in [high : 0 .. 255, low : 0 .. 255]
  /\ constructed \in BOOLEAN

(* putChar's wrap and scroll tests keep the cursor on the screen, so every *)
(* character lands inside CGA memory: after any sequence of putChar,       *)
(* clear and setPosition the cursor is within Rows x Columns (lines 33-42).*)
CursorInScreen ==
  constructed => currentRow < Rows /\ currentColumn < Columns

(* The attributes putChar can write, and the glyphs they show.            *)
Attributes == {(bg * 16 + fg) % 256 : fg \in Colors, bg \in Colors} \cup {0}
ShownGlyphs ==
  {Glyph(ch, a) : ch \in Chars \cup {Space, FillChar}, a \in Attributes}
    \ {NoGlyph}

Screen == INSTANCE TextScreen
            WITH screen <- VisibleScreen, row <- currentRow,
                 column <- currentColumn, Glyphs <- ShownGlyphs,
                 Blank <- NoGlyph

(* What the screen shows behaves as a text terminal (TextScreen): once the *)
(* constructor or clear() has run, no cell shows anything until it is     *)
(* written, and every putChar, scroll and setPosition shows what the      *)
(* abstract terminal shows.                                                *)
ImplementsTextScreen == Screen!Spec
=============================================================================
