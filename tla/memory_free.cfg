SPECIFICATION MCSpec
CONSTANTS
  PageSize = 8
  MaxFrames = 8
  Low <- MCLow
  Kernel <- MCKernel
  Machines <- MCMachines
  NoRegion = NoRegion
  Hdr = 2
  Align = 2
  InitialPages = 1
  GrowPages = 1
  Requests = {1, 4, 7}
  MaxLive = 3
  Layers = {2}
  MaxPages = 1
  Names = {"f", "g"}
  Contents <- MCContents
  Size <- MCSize
  Initrd <- MCInitrd
  Missing = "missing"
  VFS_MAX_FD = 4
  Programs <- MCPrograms
  Hello = "hello"
  Bad = "bad"
  Pages = 5
  Stack = 2
  Tables = 3
  RamFrames = 5
  Slots = 2
  MaxCalls = 6
INVARIANTS HeapFreeExact
CHECK_DEADLOCK FALSE
