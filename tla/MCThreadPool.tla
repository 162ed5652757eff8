---------------------------- MODULE MCThreadPool ----------------------------
(***************************************************************************)
(* The thread pool in four scenarios, one run.  A behaviour keeps to the   *)
(* scenario it starts in:                                                  *)
(*   "reclaim"   SetMaxWorkers from outside and from the works, workers    *)
(*               that fail to start;                                       *)
(*   "groups"    two groups, a maximum that rises from one worker;         *)
(*   "units"     a limit of one unit of work per worker;                   *)
(*   "shutdown"  Shutdown against works that add works and that call       *)
(*               SetMaxWorkers.                                            *)
(***************************************************************************)
EXTENDS ThreadPool

CONSTANTS ReclaimWorks,       \* bounds on the works of single scenarios
          ShutdownWorks,
          ReclaimGroups       \* the groups used when the maximum is fixed

VARIABLE scenario

G == INSTANCE ThreadPool WITH Reclaimers <- {}, Stoppers <- {}, StartFails <- FALSE
S == INSTANCE ThreadPool WITH Reclaimers <- {"works"}, Stoppers <- Controllers, StartFails <- FALSE

\* The pool of each scenario.
Built(maxWorkers, maxUnits, limit) ==
  m_maxWorkerCount = maxWorkers /\ m_maxWorkUnitCount = maxUnits /\ m_workerIncreaseLimit = limit

MCInit == /\ Init
          /\ \/ scenario \in {"reclaim", "shutdown"} /\ Built(2, 0, 2)
             \/ scenario = "groups" /\ Built(1, 0, 3)
             \/ scenario = "units" /\ Built(1, 1, 2)

In(s) == scenario = s /\ UNCHANGED scenario
Only(groups) == \A g \in Groups \ groups : groupCount'[g] = 0

MCNext == \/ In("reclaim") /\ Next /\ added' <= ReclaimWorks /\ Only(ReclaimGroups)
          \/ In("groups") /\ G!Next
          \/ In("units") /\ G!Next /\ Only({})
          \/ In("shutdown") /\ S!Next /\ added' <= ShutdownWorks /\ Only(ReclaimGroups)

\* The fairness of ThreadPool; the steps it is about are the same in all scenarios
\* but for workers that fail to start.
MCSpec == /\ MCInit /\ [][MCNext]_<<vars, scenario>>
          /\ \A w \in Workers : WF_vars(WorkerStep(w))
          /\ \A t \in Threads : WF_vars(CallStep(t))

-----------------------------------------------------------------------------
\* Every call comes back, and in the scenario of the groups every work added is run.
CallsReturnAndWorkRuns == CommandsReturn /\ (scenario = "groups" => EveryWorkRuns)
=============================================================================
