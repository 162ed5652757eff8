SPECIFICATION Spec
CONSTANTS
  Workers = {w1, w2}
  Keepers = {h1}
  Owners = {m, k}
  Main = m
  Callers = {k}
  MaxThreads = 3
  None = None
  AutoDelete = {w2}
INVARIANTS NothingReachesDeleted RunningIsFound DestroyedAfterMainUnlessRaced
PROPERTY HouseIsKept
\* Nothing happens any more once the process has ended.
CHECK_DEADLOCK FALSE
