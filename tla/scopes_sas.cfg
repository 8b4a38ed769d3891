SPECIFICATION Spec
CONSTANTS
  m = m
  n = n
  Name <- MCName
  Features <- OnlyMulti
  MaxDepth = 4
  MaxVars = 3
  MaxOpen = 3
  MaxStmts = 5
INVARIANT SequencesAreBlocks
CHECK_DEADLOCK FALSE
