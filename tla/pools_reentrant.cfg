SPECIFICATION Spec
CONSTANTS
  t1 = t1
  t2 = t2
  j1 = j1
  j2 = j2
  b1 = b1
  a1 = a1
  NoThread = NoThread
  MainPool = MainPool
  NoPool = NoPool
  NoItem = NoItem
  Thread <- MCThread
  Job <- TwoJobs
  Block <- None
  Array <- OneArray
  Exports <- AsBuiltExports
  MaxDepth = 1
  MaxNest = 2
  Reentrant = TRUE
  ParseMayThrow = FALSE
  InitResults <- Succeeds
SYMMETRY Symmetric
INVARIANT TypeOK
INVARIANT PoolChain
INVARIANT PoolsShared
INVARIANT FaultsExplained
CHECK_DEADLOCK FALSE
