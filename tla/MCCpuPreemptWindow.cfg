\* A thread preempted between fetchAndInc and cli (Cpu.cpp:42-49): the next
\* thread's balanced pair leaves interrupts masked.
CONSTANTS
  t1 = t1
  t2 = t2
  Threads <- MCThreads
  BootThread = t1
  MaxDepth = 2
  MaxNesting = 2
  Preemptive = TRUE
SPECIFICATION Spec
INVARIANT UnmaskedOutsideSections
