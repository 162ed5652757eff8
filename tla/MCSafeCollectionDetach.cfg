SPECIFICATION Spec
CONSTANTS
  Users = {u1}
  Managers = {m}
  Collector = timer
  MaxObjects = 1
  LockModes = {"PSafeReference", "PSafeReadWrite"}
  MaxCalls = 1
  MaxRemoveAlls = 0
INVARIANT DetachedIsDeleted
CHECK_DEADLOCK FALSE
