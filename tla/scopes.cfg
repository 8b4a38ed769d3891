SPECIFICATION Spec
CONSTANTS
  m = m
  n = n
  Name <- MCName
  Features <- All
  MaxDepth = 3
  MaxVars = 4
  MaxOpen = 3
  MaxStmts = 6
INVARIANT TypeOK
INVARIANT ErrorsExplained
INVARIANT VisibleWhileInScope
INVARIANT ScopesMirror
SYMMETRY Symmetric
CHECK_DEADLOCK FALSE
