\* checkTerminatedThread racing trigger(), which the spec says must be safe:
\* trigger() tests lastFpuThread (Fpu.cpp:136) and dereferences it (140).
CONSTANTS
  t1 = t1
  t2 = t2
  t3 = t3
  d = d
  a = a
  b = b
  NULL = NULL
  Threads <- MCThreads
  Values <- MCValues
  BootThread = t1
  Default = d
  TeardownDuringTrap = TRUE
SPECIFICATION Spec
INVARIANT NoDanglingOwnerAccess
