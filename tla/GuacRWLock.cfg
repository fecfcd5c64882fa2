SPECIFICATION RWLockFairSpec
CONSTANTS
  t1 = t1
  t2 = t2
  t3 = t3
  Lockers = {t1, t2, t3}
  NoLocker = NoLocker
  UINTPTR_MAX = 47
INVARIANT LockSound
PROPERTY ReaderGetsLock
