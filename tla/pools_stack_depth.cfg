SPECIFICATION Spec
CONSTANTS
  t1 = t1
  t2 = t2
  j1 = j1
  j2 = j2
  b1 = b1
  a1 = a1
  NoThread = NoThread
  MainPool = MainPool
  NoPool = NoPool
  NoItem = NoItem
  Thread <- MCThread
  Job <- OneJob
  Block <- None
  Array <- None
  Exports <- AsBuiltExports
  MaxDepth = 1
  MaxNest = 1
  Reentrant = FALSE
  ParseMayThrow = FALSE
  InitResults <- Succeeds
SYMMETRY Symmetric
INVARIANT StackDepthIsPoolDepth
CHECK_DEADLOCK FALSE
