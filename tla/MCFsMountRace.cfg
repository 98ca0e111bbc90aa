\* mount(/home) checks the target in one fsLock section and installs it in the next; deleteFile(/home) in between.
CONSTANTS
  t1 = t1
  t2 = t2
  dev = dev
  storage = storage
  initrd = initrd
  hdd0 = hdd0
  home = home
  de = de
  NULL = NULL
  Dev = dev
  Storage = storage
  Initrd = initrd
  Device = hdd0
  Threads <- MCThreads
  Requests <- MCMountDeleteRequests
  Events <- MCAdd
  NamePrefix <- MCNamePrefix
  RootDisk <- MCRootDisk
  Paths <- MCPaths
SPECIFICATION Spec
INVARIANT MountPointsExist
