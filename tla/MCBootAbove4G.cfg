\* Available memory ending above 4 GiB: the end is cast to uint32_t
\* (System.cpp:278).
CONSTANTS
  KernelStart <- MCKernelStart
  BiosCodeMemory <- MCBiosCodeMemory
  TssSize <- MCTssSize
  Addresses <- MCAddresses
  TssAddresses <- MCTssAddresses
  boot = boot
  NULL = NULL
  BootThread = boot
  AddrBits <- MCAddrBits
  BlockMaps <- MCBlockMaps
  MemoryMaps <- MapsAbove4G
SPECIFICATION Spec
\* initializeSystem() returns, or the kernel halts on a fatal error.
CHECK_DEADLOCK FALSE
INVARIANT MemorySizeMatchesMap
