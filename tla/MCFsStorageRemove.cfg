\* The storage device is added and then removed while two threads use the
\* file system; onEvent's remove branch tests StorageAddEvent::TYPE again.
CONSTANTS
  t1 = t1
  t2 = t2
  dev = dev
  storage = storage
  initrd = initrd
  hdd0 = hdd0
  home = home
  de = de
  NULL = NULL
  Dev = dev
  Storage = storage
  Initrd = initrd
  Device = hdd0
  Threads <- MCThreads
  Requests <- MCRequests
  Events <- MCAddRemove
  NamePrefix <- MCNamePrefix
  RootDisk <- MCRootDisk
  Paths <- MCPaths
SPECIFICATION Spec
INVARIANT RemovedDevicesUnlisted
