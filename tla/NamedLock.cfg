\* Three processes, two calls each: a file is unlinked, created again and
\* unlinked again while a third process still has the first inode open.
CONSTANTS
  Procs = {p1, p2, p3}
  LockAttempts = 2
  Polls = 2
  Calls = 2
SPECIFICATION FairSpec
CHECK_DEADLOCK FALSE
INVARIANTS TypeOK MutualExclusion NoLeakedLock
PROPERTIES EveryCallReturns
