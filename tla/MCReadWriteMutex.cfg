\* Nothing happens any more once the mutex is destroyed; EveryCallReturns
\* rules out every other state without a next step.
CHECK_DEADLOCK FALSE
SPECIFICATION FairSpec
CONSTANTS
  Threads = {t1, t2, t3}
  NoThread = NoThread
  MaxNest = 2
  MaxCalls = 2
INVARIANTS MutualExclusion DestroyedUntouched
PROPERTIES ImplementsRWLock EveryCallReturns
