SPECIFICATION MCSpec
CONSTANTS
  Actors = {a1, a2, a3, a4, a5}
  User = a1
  HouseKeeper = a2
  PoolThreads = {a4, a5}
  CallbackRestarts = TRUE
  Modes = {TRUE, FALSE}
  RetryLimit = 2
  MaxStarts = 3
  MaxQueued = 2
  Threads = {a1, a2, a3}
  TimedThreads = {a1, a2}
  MaxSignals = 4
  MaxWaits = 2
  SpuriousWakeups = TRUE
  Client = a1
  Server = a2
  MaxRequests = 5
  IntValues = {0, 1, 2}
  Target = 1
  Operation = "LE"
  MaxCondCalls = 2
  None = None
  Rooms = 3
  MaxRunTimeSignals = 5
  Notifying = {a1, a2}
  AsyncTargets = {a3}
  ValidatedTargets = {a4}
  MaxPosts = 2
  MaxExecutes = 3
  Sharers = {a1, a2}
  MaxReferences = 4
INVARIANTS RunningIsListed QuietUnlessRestarted OneReleasePerUntimedSignal
  AcknowledgedUntilTimed NoWakeUpLost DeliveredInOrder ContentsIntactUnlessRaced TreeIsRight
PROPERTIES TimerFires EveryWaitEnds
CHECK_DEADLOCK FALSE
