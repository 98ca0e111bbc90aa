\* Undo back to no command, then record a new one: addCommand keeps the
\* old commands because currentCommand - 1 wraps (History.cpp:38).
CONSTANTS
  c1 = c1
  c2 = c2
  s1 = s1
  NULL = NULL
  Cmds <- MCCmds
  Segments <- MCSegments
  SnapshotInterval = 2
  MaxCommands = 3
  MaxLines = 2
  MaxSnapshots = 2
  Width = 8
SPECIFICATION Spec
INVARIANT CanvasMatchesHistory
