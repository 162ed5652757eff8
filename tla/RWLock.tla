------------------------------- MODULE RWLock -------------------------------
(***************************************************************************)
(* What a PReadWriteMutex promises to its callers, whatever it is built    *)
(* from: any number of threads hold it for reading or a single one holds   *)
(* it for writing, and once a writer has queued no further reader gets in  *)
(* before the queue of writers is empty again.                             *)
(***************************************************************************)
CONSTANT Threads            \* the threads that call the mutex

VARIABLES holds,            \* the mode in which each thread holds the lock
          queued            \* the writers that bar new readers

rwVars == <<holds, queued>>

RWInit == /\ holds = [t \in Threads |-> "none"]
          /\ queued = {}

AcquireRead(t) == /\ holds[t] = "none"
                  /\ queued = {}
                  /\ \A u \in Threads : holds[u] # "write"
                  /\ holds' = [holds EXCEPT ![t] = "read"]
                  /\ UNCHANGED queued

Release(t) == /\ holds[t] # "none"
              /\ holds' = [holds EXCEPT ![t] = "none"]
              /\ UNCHANGED queued

QueueWriter(t) == /\ holds[t] = "none"
                  /\ t \notin queued
                  /\ queued' = queued \cup {t}
                  /\ UNCHANGED holds

AcquireWrite(t) == /\ t \in queued
                   /\ \A u \in Threads : holds[u] = "none"
                   /\ holds' = [holds EXCEPT ![t] = "write"]
                   /\ UNCHANGED queued

LeaveQueue(t) == /\ t \in queued
                 /\ holds[t] = "none"
                 /\ queued' = queued \ {t}
                 /\ UNCHANGED holds

RWNext == \E t \in Threads : \/ AcquireRead(t) \/ Release(t)
                             \/ QueueWriter(t) \/ AcquireWrite(t) \/ LeaveQueue(t)

RWSpec == RWInit /\ [][RWNext]_rwVars
=============================================================================
