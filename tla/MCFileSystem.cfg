\* Two threads mounting, unmounting, creating and deleting while a storage device is added and removed.
CONSTANTS
  t1 = t1
  t2 = t2
  dev = dev
  storage = storage
  initrd = initrd
  hdd0 = hdd0
  home = home
  de = de
  NULL = NULL
  Dev = dev
  Storage = storage
  Initrd = initrd
  Device = hdd0
  Threads <- MCThreads
  Requests <- MCRequests
  Events <- MCAddRemove
  NamePrefix <- MCNamePrefix
  RootDisk <- MCRootDisk
  Paths <- MCPaths
SPECIFICATION Spec
INVARIANT SuccessfulMountsKept
INVARIANT LockHeldOnlyInSection
INVARIANT ParsePathNormalises
