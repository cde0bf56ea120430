SPECIFICATION FairSpec
CONSTANTS
  t1 = t1
  t2 = t2
  Threads = {t1, t2}
  None = None
  Addresses = 1
  MaxOps = 2
  MaxConns = 1
  MaxIntr = 0
  MaxNotices = 1
CHECK_DEADLOCK FALSE
PROPERTIES
  DestructorReturns
  InvocationReturns
