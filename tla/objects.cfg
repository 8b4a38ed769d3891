SPECIFICATION Spec
CONSTANTS
  t1 = t1
  t2 = t2
  j1 = j1
  j2 = j2
  i1 = i1
  i2 = i2
  Finalizer = Finalizer
  Forbid = Forbid
  Null = Null
  NoJob = NoJob
  Thread <- MCThread
  Loader = t1
  Job <- MCJob
  Includer <- TwoIncl
  Careful = TRUE
  Hollow <- OneIncl
  MaxInclude = 2
INVARIANT TypeOK
INVARIANT FaultsExplained
INVARIANT FlagIsFate
INVARIANT CompilerOutlivesJobs
INVARIANT OneIncluder
SYMMETRY Symmetric
CHECK_DEADLOCK FALSE
