CONSTANTS
  Threads = {t1, t2, t3}
  Conds = {notEmpty, notFull}
  NoThread = NoThread
SPECIFICATION MutexSpec
INVARIANTS
    OwnershipExact
    DestructorAssert
PROPERTIES
    ImplementsLock
