SPECIFICATION Spec
CONSTANTS
  Threads = {t1, t2}
  HeapSize = 6
  WordSize = 2
  Bytes = {0, 1}
  Requests <- MCRequests
  None = None
  MaxOps = 4
INVARIANTS EveryRangeOwned
PROPERTIES NullMeansNoRoom ImplementsGlobalAlloc
CHECK_DEADLOCK FALSE
