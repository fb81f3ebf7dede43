SPECIFICATION FairSpec
CONSTANTS
  a1 = a1
  a2 = a2
  a3 = a3
  dmp = dmp
  dbl = dbl
  sgl = sgl
  Apps = {a1, a2, a3}
  Tables = {dmp, dbl, sgl}
  OwnerOf <- MCOwnerOf
  DoubleBuffered = {dbl}
  DumpOnly = {dmp}
  Sharing <- MCSharing
  Unregistering = {a2}
  Exiting = {a1, a3}
  Killing = {a3}
  Restarting = {}
  NumTables = 2
  NumHandles = 3
  NumLoads = 1
  NumBuffers = 3
  MaxLost = 1
  Careful = TRUE
  Windows = {}
  TBL = TBL
  ES = ES
  NULL = NULL
CHECK_DEADLOCK FALSE
INVARIANTS
  AccessListsExact
  UsersHaveMemory
  MemoryAccounted
PROPERTY
  DumpsEnd
