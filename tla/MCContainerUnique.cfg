SPECIFICATION ContainerSpec
CONSTANTS
  Threads = {a, b}
  Nothing = Nothing
  MaxReferences = 4
INVARIANT DestroyedWhenUnreferenced
CHECK_DEADLOCK FALSE
