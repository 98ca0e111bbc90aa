\* initializeSystem() on every machine of BootMachines; then the interrupt
\* nesting controller (two threads, two stacked handlers, preemption) beside
\* five concurrent registerService calls, two of them for the same id.
CONSTANTS
  t1 = t1
  t2 = t2
  r1 = r1
  r2 = r2
  r3 = r3
  r4 = r4
  r5 = r5
  idA = idA
  idB = idB
  idC = idC
  idD = idD
  boot = boot
  NULL = NULL
SPECIFICATION Spec
\* A duplicate registration halts the kernel, which then takes no step;
\* initializeSystem() returns or the kernel halts on a fatal error.
CHECK_DEADLOCK FALSE
INVARIANT TypeOK
INVARIANT NeverIllegalState
INVARIANT ArmedOnlyWhenBalanced
INVARIANT RegistrationsKept
PROPERTY RegistrationsReturn
INVARIANT BootOutcome
INVARIANT MemorySizeMatchesMap
PROPERTY BootCompletes
INVARIANT EntryLayoutRoundTrip
INVARIANT SegmentsAsSpecified
INVARIANT DescriptorsCoverTables
