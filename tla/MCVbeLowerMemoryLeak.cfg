\* Machines whose BIOS refuses GET_VBE_INFO as well: isAvailable() returns
\* false on line 74 before freeing its lower-memory buffer.
CONSTANTS
  m1 = m1
  m2 = m2
  End = End
  NULL = NULL
  ModeNumbers <- MCModeNumbers
  EndMarker = End
  Machines <- AllMachines
  MaxCalls = 3
SPECIFICATION Spec
CHECK_DEADLOCK FALSE
INVARIANT LowerMemoryReleased
