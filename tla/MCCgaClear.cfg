\* The terminal as the text screen it promises to be: clear() in the
\* constructor must leave no BIOS text on the screen.
CONSTANTS
  ch = ch
  nl = nl
  sp = sp
  fill = fill
  Columns = 3
  Rows = 2
  Chars = {ch}
  NewLineChar = nl
  Space = sp
  FillChar = fill
  Colors = {0, 7}
  BiosScreens <- BiosText
SPECIFICATION Spec
PROPERTY ImplementsTextScreen
