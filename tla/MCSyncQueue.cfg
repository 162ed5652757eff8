SPECIFICATION FairSpec
CONSTANTS
  Consumers = {c1, c2}
  Controllers = {k1, k2}
  Commands = {"Close", "CloseWait", "Drain", "DrainWait", "Restart"}
  Timeouts = TRUE
  MaxItems = 2
  MaxCommands = 2
INVARIANTS PermitsCoverItems DrainLosesNothing CloseWaitsForOneDequeue
PROPERTIES FailureMeansClosed DequeueUnblocks
