SPECIFICATION MCSpec
CONSTANTS
  Groups = {g, h}
  NoGroup = NoGroup
  Controllers = {k}
  Reclaimers = {k, "works"}
  Stoppers = {}
  InitialMaxes = {1, 2}
  UnitLimits = {0, 1}
  IncreaseLimits = {0, 2, 3}
  Counts = {1}
  StartFails = TRUE
  MaxWorks = 4
  MaxWorkers = 3
  MaxCalls = 2
  ReclaimWorks = 3
  ShutdownWorks = 3
  ReclaimGroups = {g}
INVARIANTS WorksAccountedFor OrderOfGroups LimitsHold ShutdownIsSafe
PROPERTY CallsReturnAndWorkRuns
