\* initializeSystem() for every block map, every memory map with low memory
\* first and below 4 GiB, with and without a (valid) RTC.
CONSTANTS
  KernelStart <- MCKernelStart
  BiosCodeMemory <- MCBiosCodeMemory
  TssSize <- MCTssSize
  Addresses <- MCAddresses
  TssAddresses <- MCTssAddresses
  boot = boot
  NULL = NULL
  BootThread = boot
  AddrBits <- MCAddrBits
  BlockMaps <- MCBlockMaps
  MemoryMaps <- MapsLowFirst
SPECIFICATION Spec
\* initializeSystem() returns, or the kernel halts on a fatal error.
CHECK_DEADLOCK FALSE
INVARIANT TypeOK
INVARIANT BootOutcome
INVARIANT MemorySizeMatchesMap
PROPERTY BootCompletes
INVARIANT EntryLayoutRoundTrip
INVARIANT SegmentsAsSpecified
INVARIANT DescriptorsCoverTables
