\* The FPU lazy switch, the VBE provider, the CGA terminal, the paint
\* history and settings and the game graphics, one moving per behaviour.
CONSTANTS
  t1 = t1
  t2 = t2
  t3 = t3
  d = d
  a = a
  b = b
  m1 = m1
  m2 = m2
  End = End
  ch = ch
  nl = nl
  sp = sp
  fill = fill
  c1 = c1
  c2 = c2
  s1 = s1
  cb = cb
  fps = fps
  bb = bb
  other = other
  NoFile = NoFile
  Directory = Directory
  NULL = NULL
SPECIFICATION Spec
\* The VBE provider's callers stop after three calls, or an exception halts
\* the kernel, and the history at its bounds on commands and snapshots; the
\* other components never stop.
CHECK_DEADLOCK FALSE
INVARIANT TypeOK
INVARIANT ContextsPreserved
INVARIANT OwnRegistersVisible
INVARIANT NoDanglingOwnerAccess
INVARIANT LowerMemoryReleased
INVARIANT CursorInScreen
INVARIANT SnapshotsInRange
INVARIANT SavedFileRoundTrips
PROPERTY ShowRotatesWholePixels
INVARIANT ImageShownWhereVisible
