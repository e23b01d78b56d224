\* Four threads: several can hold the lock for reading, or wait for it, while
\* others release it.
CONSTANTS
  Thread = {t1, t2, t3, t4}
  NoThread = NoThread
SPECIFICATION FairSpec
INVARIANT TypeOK
INVARIANT WriterExcludesAll
INVARIANT CountersMatchHolders
INVARIANT NoLostWakeup
PROPERTY SomebodyIsServed
PROPERTY ImplementsRWLock
