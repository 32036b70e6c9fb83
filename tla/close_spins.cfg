CONSTANTS
  Callers = {k1, k2}
  Entries = {p1, p2, p3, p4, p5}
  Main = main
  None = None
  PoolSize = 1
  PoolSizeMax = 2
SPECIFICATION FairPoolSpec
PROPERTIES CloseReturns
\* The pool stops for good when Close spins or a send panics.
CHECK_DEADLOCK FALSE
