SPECIFICATION FairSpec
CONSTANTS
  Threads = {t1, t2, t3}
  Half <- MCHalf
  Requests <- MCRequests
  Idle = Idle
  Rmw <- MCRmw
  InitialValue <- MCZero
  MaxOps = 3
INVARIANTS DesiredMatchesOld
PROPERTIES ImplementsCell OperationsEnd
CHECK_DEADLOCK FALSE
