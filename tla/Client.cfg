SPECIFICATION Spec
CONSTANTS
  t1 = t1
  t2 = t2
  Threads = {t1, t2}
  None = None
  Addresses = 2
  MaxOps = 3
  MaxConns = 2
  MaxIntr = 2
  MaxNotices = 2
CHECK_DEADLOCK FALSE
SYMMETRY Symmetry
CONSTRAINT InterruptsOrWire
INVARIANTS
  PublishedIsCurrent
  DestroyedIsQuiescent
  AnswerIsOwn
  NoticesAccounted
