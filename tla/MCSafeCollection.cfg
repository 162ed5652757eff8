SPECIFICATION FairSpec
CONSTANTS
  Users = {u1, u2}
  Managers = {m}
  Collector = timer
  MaxObjects = 2
  LockModes = {"PSafeReference", "PSafeReadWrite"}
  MaxCalls = 3
  MaxRemoveAlls = 1
INVARIANTS CountsMatch DeletedOnceUnreferenced RemovalAwaited
PROPERTY RemovedGoesForGood
\* The collection may have been destroyed and every pointer gone.
CHECK_DEADLOCK FALSE
