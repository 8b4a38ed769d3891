SPECIFICATION Spec
CONSTANTS
  t1 = t1
  t2 = t2
  j1 = j1
  j2 = j2
  i1 = i1
  i2 = i2
  Finalizer = Finalizer
  Forbid = Forbid
  Null = Null
  NoJob = NoJob
  Thread <- MCThread
  Loader = t1
  Job <- MCJob
  Includer <- OneIncl
  Careful = FALSE
  Hollow <- NoIncl
  MaxInclude = 1
INVARIANT DeletedIsRefused
SYMMETRY Symmetric
CHECK_DEADLOCK FALSE
