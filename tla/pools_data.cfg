SPECIFICATION Spec
CONSTANTS
  t1 = t1
  t2 = t2
  j1 = j1
  j2 = j2
  b1 = b1
  a1 = a1
  NoThread = NoThread
  MainPool = MainPool
  NoPool = NoPool
  NoItem = NoItem
  Thread <- MCThread
  Job <- OneJob
  Block <- OneBlock
  Array <- OneArray
  Exports <- JavaNatives
  MaxDepth = 1
  MaxNest = 1
  Reentrant = FALSE
  ParseMayThrow = FALSE
  InitResults <- Succeeds
INVARIANT MarksBalanced
INVARIANT BaseDataSurvives
INVARIANT FaultsOnlyOutside
INVARIANT LostDataExplained
PROPERTY ServesWorkers
CHECK_DEADLOCK FALSE
