SPECIFICATION MCSpec
CONSTANTS
  Actors = {a1, a2, a3, a4}
  None = None
  Readers = {a1}
  Writers = {a2}
  Closers = {a3}
  Openers = {a4}
  Timed = {}
  QueueSize = 2
  MaxBytes = 4
  MaxCount = 3
  MaxOpens = 1
  Callers = {a1, a2, a3}
  MaxCalls = 3
  Channels = {c1, c2}
  Files = {f, g}
  Spoolers = {a1, a2}
  Scanner = a3
  BundleReaders = {a1}
  BundleControllers = {a2}
  Monitor = a3
  Ifaces = {i, j}
  FailSafe = 1
  MaxBundleOpens = 2
  MaxChanges = 1
  Clients = {a1, a2}
  Mains = {a3}
  Detector = a4
  MaxStarts = 3
  Local = a1
  Remote = a2
  MaxAsks = 2
  MaxWrites = 2
INVARIANTS NoStrandedThread DeletedWhenUnused ProcessedWhole SocketsSafe
  NotCalledOnceRemoved DataAndOptionsAgree
PROPERTIES ImplementsByteStream EveryWaitEnds
CHECK_DEADLOCK FALSE
