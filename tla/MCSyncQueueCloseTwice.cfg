SPECIFICATION Spec
CONSTANTS
  Consumers = {c1}
  Controllers = {k1}
  Commands = {"Close", "CloseWait"}
  Timeouts = FALSE
  MaxItems = 2
  MaxCommands = 2
INVARIANTS CloseWaitsForDequeue
