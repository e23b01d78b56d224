SPECIFICATION FairSpec
CONSTANTS
  Thread = {monitor, controls}
  Output = {0, 4, 16, 20}
  NoThread = NoThread
INVARIANTS TypeOK ShadowIsTruth NumberingIsExact
PROPERTIES ImplementsPanel LockIsReturned
