SPECIFICATION Spec
CONSTANTS
  p1 = p1
  p2 = p2
  t1 = t1
  t2 = t2
  t3 = t3
  None = None
  Process <- MCProcess
  Thread <- MCThread
  ProcessOf <- MCProcessOf
  Machines <- MCMachines
  Packaged <- MCPackaged
  MaxFiles = 4
  MaxStarts <- MCMaxStarts
INVARIANT TypeOK
INVARIANT MainThreadHasPool
INVARIANT InitReturnsReady
INVARIANT WholeUnlessRobbed
INVARIANT LeftoversSwept
SYMMETRY Symmetric
CHECK_DEADLOCK FALSE
