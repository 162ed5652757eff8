----------------------------- MODULE ThreadPool -----------------------------
(***************************************************************************)
(* PQueuedThreadPool of include/ptclib/threadpool.h with its base classes  *)
(* (src/ptclib/threadpool.cxx): threads that add works, worker threads     *)
(* that run them, and threads that call SetMaxWorkers and Shutdown.        *)
(*                                                                         *)
(* Works and workers are numbered in the order they are added and created. *)
(* The two maps of the pool are split by field: work x is in               *)
(* m_externalToInternalWorkMap iff workerOf[x] # NoWorker, group g is in   *)
(* m_groupInfoMap iff groupCount[g] > 0.  AddWork, RemoveWork and the      *)
(* loops over m_workers hold m_mutex and are one action each; the sizes of *)
(* all the workers are read at one instant.  The PSyncQueue of a worker is *)
(* the sequence SyncQueue shows it to be: Close empties it, and a Dequeue  *)
(* on the closed queue fails.                                              *)
(***************************************************************************)
EXTENDS Naturals, Sequences, FiniteSets

CONSTANTS Groups,             \* the non-empty group names
          NoGroup,            \* a work without a group
          Controllers,        \* threads outside the pool that command it
          Reclaimers,         \* who calls SetMaxWorkers, "works" for the works
          Stoppers,           \* the controllers that may call Shutdown
          InitialMaxes,       \* the arguments of the constructor: maxWorkers,
          UnitLimits,         \* maxWorkUnits
          IncreaseLimits,     \* and workerIncreaseLimit
          Counts,             \* the arguments of SetMaxWorkers
          StartFails,         \* whether OnWorkerStarted may return false
          MaxWorks,           \* bound on the works added
          MaxWorkers,         \* bound on the workers ever created
          MaxCalls            \* bound on the calls of SetMaxWorkers

ASSUME PoolAssumption == /\ InitialMaxes \subseteq Nat \ {0}
                         /\ UnitLimits \subseteq Nat
                         /\ IncreaseLimits \subseteq Nat
                         /\ Counts \subseteq Nat \ {0}
                         /\ NoGroup \notin Groups
                         /\ Stoppers \subseteq Controllers
                         /\ Controllers \cap (1..MaxWorkers) = {}
                         /\ StartFails \in BOOLEAN
ASSUME PoolBounds == MaxWorks \in Nat /\ MaxWorkers \in Nat /\ MaxCalls \in Nat

VARIABLES m_workers,          \* a sequence of workers
          m_maxWorkerCount,
          m_maxWorkUnitCount, m_workerIncreaseLimit,   \* set by the constructor
          workerOf, groupOf,  \* m_externalToInternalWorkMap
          groupCount, groupWorker,   \* m_groupInfoMap
          pc, queue, item, m_shutdown,   \* of each worker
          newMax,             \* newMaxWorkers in OnMaxWaitTime of each worker
          call, stopping,     \* the command of a thread, the worker it stops
          added, created, done, calls

Works    == 1..MaxWorks
Workers  == 1..MaxWorkers
NoWorker == 0
NoWork   == 0
Threads  == Controllers \cup Workers

settings == <<m_maxWorkUnitCount, m_workerIncreaseLimit>>
maps   == <<workerOf, groupOf, groupCount, groupWorker>>
worker == <<pc, queue, item, m_shutdown, newMax>>
caller == <<call, stopping, calls>>
vars   == <<m_workers, m_maxWorkerCount, settings, maps, worker, caller, added, created, done>>

Largest(a, b) == IF a < b THEN b ELSE a

\* Nobody calls SetMaxUnits or SetWorkerIncreaseLimit.
Init == /\ m_workers = <<>>
        /\ m_maxWorkerCount \in InitialMaxes
        /\ m_maxWorkUnitCount \in UnitLimits
        /\ \E limit \in IncreaseLimits :
             m_workerIncreaseLimit = Largest(m_maxWorkerCount, limit)
        /\ workerOf = [x \in Works |-> NoWorker]
        /\ groupOf = [x \in Works |-> NoGroup]
        /\ groupCount = [g \in Groups |-> 0]
        /\ groupWorker = [g \in Groups |-> NoWorker]
        /\ pc = [w \in Workers |-> "none"]
        /\ queue = [w \in Workers |-> <<>>]
        /\ item = [w \in Workers |-> NoWork]
        /\ m_shutdown = [w \in Workers |-> FALSE]
        /\ newMax = [w \in Workers |-> 0]
        /\ call = [t \in Threads |-> "none"]
        /\ stopping = [t \in Threads |-> NoWorker]
        /\ added = 0 /\ created = 0 /\ calls = 0
        /\ done = {}

Goto(w, from, to) == pc[w] = from /\ pc' = [pc EXCEPT ![w] = to]

-----------------------------------------------------------------------------
(* AllocateWorker, with m_mutex held.                                      *)

\* m_working is set between Dequeue and Work(), and cleared after RemoveWork.
GetWorkSize(w) == Len(queue[w]) + IF pc[w] \in {"working", "removed"} THEN 1 ELSE 0

Terminated(w) == pc[w] = "exited"

\* Positions of m_workers.
Usable == {i \in DOMAIN m_workers : ~Terminated(m_workers[i]) /\ ~m_shutdown[m_workers[i]]}
Idle   == {i \in Usable : GetWorkSize(m_workers[i]) = 0}

\* The loop returns at the first idle worker, else it has gone through them all.
FirstIdle == CHOOSE i \in Idle : \A j \in Idle : i <= j
LastLeast == CHOOSE i \in Usable : \A j \in Usable :
               \/ GetWorkSize(m_workers[i]) < GetWorkSize(m_workers[j])
               \/ GetWorkSize(m_workers[i]) = GetWorkSize(m_workers[j]) /\ j <= i

\* The terminated workers that the loop comes across are deleted.
Met  == {i \in DOMAIN m_workers : Idle = {} \/ i < FirstIdle}
Dead == {m_workers[i] : i \in {j \in Met : Terminated(m_workers[j])}}
Kept == {i \in DOMAIN m_workers : m_workers[i] \notin Dead}
RankOf(i) == Cardinality({j \in Kept : j <= i})
Survivors == [k \in 1 .. Cardinality(Kept) |-> m_workers[CHOOSE i \in Kept : RankOf(i) = k]]

\* Mutant: both limits are taken one too high.
MutMayGrow(size, least) ==
  IF m_maxWorkUnitCount > 0
  THEN size % m_maxWorkerCount # 0 \/ least > m_maxWorkUnitCount
  ELSE size <= m_maxWorkerCount

\* With a limit of works per worker the pool grows in quanta of the maximum.
MayGrow(size, least) ==
  IF m_maxWorkUnitCount > 0
  THEN size % m_maxWorkerCount # 0 \/ least >= m_maxWorkUnitCount
  ELSE size < m_maxWorkerCount

\* The worker AllocateWorker returns; it is new when it is not one of m_workers.
Allocated ==
  IF Idle # {} THEN m_workers[FirstIdle]
  ELSE IF Usable # {} /\ ~MayGrow(Len(Survivors), GetWorkSize(m_workers[LastLeast]))
  THEN m_workers[LastLeast]
  ELSE created + 1

-----------------------------------------------------------------------------
(* AddWork.                                                                *)

Adders == {w \in Workers : pc[w] = "working" /\ call[w] = "none"}
ShuttingDown == \E t \in Controllers : call[t] \in {"shutdown", "front", "finished"}

\* Works are added from outside until the pool is shut down, and by works.
MayAdd == added < MaxWorks /\ (ShuttingDown => Adders # {})

\* Give the new work to worker w; Enqueue on a closed queue drops it.
Give(w, g) ==
  /\ added' = added + 1
  /\ workerOf' = [workerOf EXCEPT ![added + 1] = w]
  /\ groupOf' = [groupOf EXCEPT ![added + 1] = g]
  /\ queue' = [queue EXCEPT ![w] = IF m_shutdown[w] THEN @ ELSE Append(@, added + 1)]
  /\ UNCHANGED <<m_maxWorkerCount, settings, item, m_shutdown, newMax, caller, done>>

AllocateAndGive(g) ==
  /\ Allocated \in Workers
  /\ created' = IF Allocated > created THEN created + 1 ELSE created
  /\ m_workers' = IF Allocated > created THEN Append(Survivors, Allocated) ELSE Survivors
  /\ pc' = [w \in Workers |-> IF w \in Dead THEN "deleted"
                              ELSE IF w = Allocated /\ w > created THEN "starting"
                              ELSE pc[w]]
  /\ Give(Allocated, g)

AddUngrouped ==
  /\ MayAdd
  /\ AllocateAndGive(NoGroup)
  /\ UNCHANGED <<groupCount, groupWorker>>

AddFirstOfGroup(g) ==
  /\ MayAdd
  /\ groupCount[g] = 0
  /\ AllocateAndGive(g)
  /\ groupCount' = [groupCount EXCEPT ![g] = 1]
  /\ groupWorker' = [groupWorker EXCEPT ![g] = Allocated]

\* Mutant: the work of a known group goes to the least busy worker.
MutAddToGroup(g) ==
  /\ MayAdd
  /\ groupCount[g] > 0
  /\ AllocateAndGive(g)
  /\ groupCount' = [groupCount EXCEPT ![g] = @ + 1]
  /\ UNCHANGED groupWorker

\* Mutant: the count of a known group is not incremented.
MutCountAddToGroup(g) ==
  /\ MayAdd
  /\ groupCount[g] > 0
  /\ ~Terminated(groupWorker[g])
  /\ Give(groupWorker[g], g)
  /\ UNCHANGED <<m_workers, created, pc, groupCount, groupWorker>>

\* IsTerminated() of a worker that was deleted reads freed memory: either answer.
AddToGroup(g) ==
  /\ MayAdd
  /\ groupCount[g] > 0
  /\ ~Terminated(groupWorker[g])
  /\ Give(groupWorker[g], g)
  /\ groupCount' = [groupCount EXCEPT ![g] = @ + 1]
  /\ UNCHANGED <<m_workers, created, pc, groupWorker>>

AddToTerminatedGroup(g) ==
  /\ MayAdd
  /\ groupCount[g] > 0
  /\ pc[groupWorker[g]] \in {"exited", "deleted"}
  /\ AllocateAndGive(g)
  /\ groupCount' = [groupCount EXCEPT ![g] = @ + 1]
  /\ groupWorker' = [groupWorker EXCEPT ![g] = Allocated]

-----------------------------------------------------------------------------
(* A worker thread: Main and Work.                                         *)

others == <<m_workers, settings, caller, added, created>>

OnWorkerStarted(w) ==
  /\ \/ Goto(w, "starting", "dequeue")
     \/ StartFails /\ Goto(w, "starting", "exited")
  /\ UNCHANGED <<m_maxWorkerCount, maps, queue, item, m_shutdown, newMax, done, others>>

Dequeue(w) ==
  /\ \/ /\ queue[w] # <<>>
        /\ Goto(w, "dequeue", "dequeued")
        /\ item' = [item EXCEPT ![w] = Head(queue[w])]
        /\ queue' = [queue EXCEPT ![w] = Tail(@)]
     \/ /\ queue[w] = <<>> /\ m_shutdown[w]
        /\ Goto(w, "dequeue", "exited")
        /\ UNCHANGED <<item, queue>>
  /\ UNCHANGED <<m_maxWorkerCount, maps, m_shutdown, newMax, done, others>>

SetWorking(w) ==
  /\ Goto(w, "dequeued", "working")
  /\ UNCHANGED <<m_maxWorkerCount, maps, queue, item, m_shutdown, newMax, done, others>>

RemoveFromGroup(g) ==
  groupCount' = IF g = NoGroup THEN groupCount ELSE [groupCount EXCEPT ![g] = @ - 1]

\* Work() of the item has returned; the item is deleted.
RemoveWork(w) ==
  /\ Goto(w, "working", "removed")
  /\ call[w] = "none"
  /\ workerOf[item[w]] # NoWorker
  /\ RemoveFromGroup(groupOf[item[w]])
  /\ workerOf' = [workerOf EXCEPT ![item[w]] = NoWorker]
  /\ done' = done \cup {item[w]}
  /\ item' = [item EXCEPT ![w] = NoWork]
  /\ UNCHANGED <<m_maxWorkerCount, groupOf, groupWorker, queue, m_shutdown, newMax, others>>

\* The latency of the item may exceed m_workerIncreaseLatency.
ClearWorking(w) ==
  /\ Goto(w, "removed", "dequeue") \/ Goto(w, "removed", "late")
  /\ UNCHANGED <<m_maxWorkerCount, maps, queue, item, m_shutdown, newMax, done, others>>

Least(a, b) == IF a < b THEN a ELSE b

NewMaxWorkers == Least((m_maxWorkerCount * 11 + 9) \div 10, m_workerIncreaseLimit)

\* OnMaxWaitTime reads the maximum and writes it back without m_mutex.  It gives up
\* when the pool is limited by units, has been adjusted recently or cannot grow.
OnMaxWaitTime(w) ==
  /\ \/ Goto(w, "late", "dequeue") /\ UNCHANGED newMax
     \/ /\ m_maxWorkUnitCount = 0
        /\ NewMaxWorkers # m_maxWorkerCount
        /\ Goto(w, "late", "growing")
        /\ newMax' = [newMax EXCEPT ![w] = NewMaxWorkers]
  /\ UNCHANGED <<m_maxWorkerCount, maps, queue, item, m_shutdown, done, others>>

Increase(w) ==
  /\ Goto(w, "growing", "dequeue")
  /\ m_maxWorkerCount' = newMax[w]
  /\ newMax' = [newMax EXCEPT ![w] = 0]
  /\ UNCHANGED <<maps, queue, item, m_shutdown, done, others>>

WorkerStep(w) == \/ OnWorkerStarted(w) \/ Dequeue(w) \/ SetWorking(w) \/ RemoveWork(w)
                 \/ ClearWorking(w) \/ OnMaxWaitTime(w) \/ Increase(w)

-----------------------------------------------------------------------------
(* SetMaxWorkers, ReclaimWorkers, Shutdown and StopWorker.                 *)

pool == <<settings, maps, pc, item, newMax, added, created, done>>

\* A thread that is free to call: a controller, or a worker inside Work().
Free(t) == call[t] = "none" /\ (t \in Workers => pc[t] = "working")

SetMaxWorkers(t, count) ==
  /\ Free(t) /\ calls < MaxCalls
  /\ IF t \in Workers THEN "works" \in Reclaimers ELSE t \in Reclaimers
  /\ m_maxWorkerCount' = count
  /\ calls' = calls + 1
  /\ call' = [call EXCEPT ![t] = IF m_maxWorkerCount > count THEN "reclaim" ELSE "none"]
  /\ UNCHANGED <<m_workers, queue, m_shutdown, stopping, pool>>

\* Mutant: a worker with work is not left alone.
MutReclaimable(t) == {i \in DOMAIN m_workers : m_workers[i] # t}

\* The worker that the loop of ReclaimWorkers finds first.
Reclaimable(t) == {i \in DOMAIN m_workers : GetWorkSize(m_workers[i]) = 0 /\ m_workers[i] # t}

Without(i) == SubSeq(m_workers, 1, i - 1) \o SubSeq(m_workers, i + 1, Len(m_workers))

\* The last thread is not shut down.
MayReclaim(t) == Len(m_workers) > 1 /\ Reclaimable(t) # {}

\* Mutant: the loop goes on while there are workers, as that of Shutdown does.
MutReclaim(t) ==
  /\ call[t] = "reclaim" /\ stopping[t] = NoWorker
  /\ IF MayReclaim(t)
     THEN \E i \in Reclaimable(t) :
            /\ \A j \in Reclaimable(t) : i <= j
            /\ stopping' = [stopping EXCEPT ![t] = m_workers[i]]
            /\ m_workers' = Without(i)
            /\ UNCHANGED call
     ELSE UNCHANGED <<call, stopping, m_workers>>
  /\ UNCHANGED <<m_maxWorkerCount, calls, queue, m_shutdown, pool>>

Reclaim(t) ==
  /\ call[t] = "reclaim" /\ stopping[t] = NoWorker
  /\ IF MayReclaim(t)
     THEN \E i \in Reclaimable(t) :
            /\ \A j \in Reclaimable(t) : i <= j
            /\ stopping' = [stopping EXCEPT ![t] = m_workers[i]]
            /\ m_workers' = Without(i)
            /\ UNCHANGED call
     ELSE call' = [call EXCEPT ![t] = "none"] /\ UNCHANGED <<stopping, m_workers>>
  /\ UNCHANGED <<m_maxWorkerCount, calls, queue, m_shutdown, pool>>

Shutdown(t) ==
  /\ t \in Stoppers /\ ~ShuttingDown
  /\ Free(t)
  /\ call' = [call EXCEPT ![t] = "shutdown"]
  /\ UNCHANGED <<m_workers, m_maxWorkerCount, calls, stopping, queue, m_shutdown, pool>>

\* Mutant: Shutdown stops the first worker only.
MutTestEmpty(t) ==
  /\ call[t] = "shutdown" /\ stopping[t] = NoWorker
  /\ call' = [call EXCEPT ![t] = IF m_workers = <<>> \/ \E w \in Workers : m_shutdown[w]
                                  THEN "finished" ELSE "front"]
  /\ UNCHANGED <<m_workers, m_maxWorkerCount, calls, stopping, queue, m_shutdown, pool>>

\* The test of the loop is outside of m_mutex.
TestEmpty(t) ==
  /\ call[t] = "shutdown" /\ stopping[t] = NoWorker
  /\ call' = [call EXCEPT ![t] = IF m_workers = <<>> THEN "finished" ELSE "front"]
  /\ UNCHANGED <<m_workers, m_maxWorkerCount, calls, stopping, queue, m_shutdown, pool>>

TakeFront(t) ==
  /\ call[t] = "front"
  /\ m_workers # <<>>
  /\ stopping' = [stopping EXCEPT ![t] = Head(m_workers)]
  /\ m_workers' = Tail(m_workers)
  /\ call' = [call EXCEPT ![t] = "shutdown"]
  /\ UNCHANGED <<m_maxWorkerCount, calls, queue, m_shutdown, pool>>

\* QueuedWorkerThread::Shutdown: whatever is left in the queue is dropped.
StopWorker(t) ==
  /\ stopping[t] # NoWorker
  /\ ~m_shutdown[stopping[t]]
  /\ m_shutdown' = [m_shutdown EXCEPT ![stopping[t]] = TRUE]
  /\ queue' = [queue EXCEPT ![stopping[t]] = <<>>]
  /\ UNCHANGED <<m_workers, m_maxWorkerCount, caller, pool>>

\* WaitForTermination: the assertion after 10 s changes nothing, the destructor of
\* the worker waits again.
DeleteWorker(t) ==
  /\ stopping[t] # NoWorker
  /\ m_shutdown[stopping[t]]
  /\ Terminated(stopping[t])
  /\ pc' = [pc EXCEPT ![stopping[t]] = "deleted"]
  /\ stopping' = [stopping EXCEPT ![t] = NoWorker]
  /\ UNCHANGED <<m_workers, m_maxWorkerCount, settings, maps, queue, item, m_shutdown, newMax,
                 call, calls, added, created, done>>

CallStep(t) == \/ Reclaim(t) \/ TestEmpty(t) \/ TakeFront(t) \/ StopWorker(t) \/ DeleteWorker(t)

-----------------------------------------------------------------------------
\* The program may stop using the pool.
Quiet == /\ \A w \in Workers : pc[w] \in {"none", "dequeue", "exited", "deleted"}
         /\ \A t \in Threads : call[t] \in {"none", "finished"}
         /\ UNCHANGED vars

Next == \/ AddUngrouped
        \/ \E g \in Groups : \/ AddFirstOfGroup(g) \/ AddToGroup(g)
                             \/ AddToTerminatedGroup(g)
        \/ \E w \in Workers : WorkerStep(w)
        \/ \E t \in Threads : \/ \E count \in Counts : SetMaxWorkers(t, count)
                              \/ Shutdown(t) \/ CallStep(t)
        \/ Quiet

Spec == Init /\ [][Next]_vars

\* Workers run, every Work() returns, and commands go on.
FairSpec == /\ Spec
            /\ \A w \in Workers : WF_vars(WorkerStep(w))
            /\ \A t \in Threads : WF_vars(CallStep(t))

-----------------------------------------------------------------------------
TypeOK ==
  /\ m_workers \in Seq(Workers)
  /\ m_maxWorkerCount \in Nat
  /\ m_maxWorkUnitCount \in Nat
  /\ m_workerIncreaseLimit \in Nat
  /\ workerOf \in [Works -> Workers \cup {NoWorker}]
  /\ groupOf \in [Works -> Groups \cup {NoGroup}]
  /\ groupCount \in [Groups -> 0..MaxWorks]
  /\ groupWorker \in [Groups -> Workers \cup {NoWorker}]
  /\ pc \in [Workers -> {"none", "starting", "dequeue", "dequeued", "working", "removed",
                          "late", "growing", "exited", "deleted"}]
  /\ queue \in [Workers -> Seq(Works)]
  /\ item \in [Workers -> Works \cup {NoWork}]
  /\ call \in [Threads -> {"none", "reclaim", "shutdown", "front", "finished"}]
  /\ stopping \in [Threads -> Workers \cup {NoWorker}]
  /\ done \subseteq 1..added

QueuedAt(w) == {queue[w][i] : i \in DOMAIN queue[w]}
HeldBy(w) == QueuedAt(w) \cup ({item[w]} \ {NoWork})

\* The two maps of the pool agree with each other and with the workers, so that
\* neither assertion of RemoveWork ("Missing work!", "Unknown work group") fires:
\* a worker holds only works the pool knows to be its own, and a group is counted
\* once for each of its works, also for those a reclaimed worker has dropped.
MapsAgree ==
  /\ \A w \in Workers : \A x \in HeldBy(w) : workerOf[x] = w
  /\ \A g \in Groups : groupCount[g] =
                         Cardinality({x \in Works : workerOf[x] # NoWorker /\ groupOf[x] = g})

\* Until Shutdown is called a work without a group is done or still with a worker:
\* ReclaimWorkers, which closes the queue of the worker it has chosen outside of
\* m_mutex, can lose only works that follow their group to that worker.  (A worker
\* that fails to start keeps its works and runs none.)
UngroupedKept ==
  ~ShuttingDown => \A x \in 1..added : groupOf[x] = NoGroup
                                        => x \in done \/ \E w \in Workers : x \in HeldBy(w)

\* The pool knows what has become of the works: by its maps, and by not losing them.
WorksAccountedFor == MapsAgree /\ UngroupedKept

\* What becomes of a work that was added and is not done: its worker has exited, or
\* Shutdown or ReclaimWorkers closed the queue of the worker with it or before it.
Gone(w) == pc[w] \in {"exited", "deleted"}
Dropped(x) == LET w == workerOf[x] IN
  w # NoWorker /\ (Gone(w) \/ (m_shutdown[w] /\ x \notin HeldBy(w)))

\* The works of a group run one at a time and in the order of AddWork, whichever
\* workers come, go and are shared with other groups in between: when one runs, those
\* before it are done or will never be.
OrderOfGroups ==
  \A w \in Workers : pc[w] = "working" /\ groupOf[item[w]] # NoGroup =>
    \A x \in 1..(item[w] - 1) : groupOf[x] = groupOf[item[w]] => x \in done \/ Dropped(x)

\* A pool without a limit of units never has more workers than the limit up to which
\* the workers themselves raise the maximum, while others are being allocated.  The
\* maximum itself may be exceeded: a worker that was slow to write it puts back an
\* old one.
WorkersWithinLimit ==
  m_maxWorkUnitCount = 0 /\ (\A count \in Counts : count <= m_workerIncreaseLimit)
    => Len(m_workers) <= m_workerIncreaseLimit

\* The limit of units per worker is exceeded by no more than the one work that
\* GetWorkSize does not see, between Dequeue and the setting of m_working, as long as
\* no work has a group.
UnitsExceededByOne ==
  m_maxWorkUnitCount > 0 /\ (\A x \in Works : groupOf[x] = NoGroup)
    => \A w \in Workers : GetWorkSize(w) <= m_maxWorkUnitCount + 1

\* The two limits of the pool: on its workers as their number rises, and on the units
\* of a worker.
LimitsHold == WorkersWithinLimit /\ UnitsExceededByOne

\* "if the worker thread has work, leave it alone": ReclaimWorkers stops only
\* workers that have no work.
ReclaimsIdleWorkers ==
  \A t \in Threads : call[t] = "reclaim" /\ stopping[t] # NoWorker
                       => item[stopping[t]] = NoWork

\* When Shutdown returns every worker ever created is gone, those included that
\* running works have caused to be created meanwhile.
ShutdownLeavesNobody ==
  (\E t \in Controllers : call[t] = "finished")
    => \A w \in Workers : pc[w] \in {"none", "deleted"}

\* Shutdown tests m_workers before it takes m_mutex: there is still a first worker
\* when it has it.
FrontExists == \A t \in Threads : call[t] = "front" => m_workers # <<>>

\* Shutdown leaves no worker behind and takes none from the front of an empty list.
ShutdownIsSafe == ShutdownLeavesNobody /\ FrontExists

\* Every work added to a pool that nobody reclaims or shuts down gets done.
EveryWorkRuns == \A x \in Works : x <= added ~> x \in done

\* SetMaxWorkers and Shutdown return, although they wait for workers whose works
\* call SetMaxWorkers themselves.
CommandsReturn == \A t \in Threads : call[t] \in {"reclaim", "shutdown", "front"}
                                       ~> call[t] \in {"none", "finished"}
=============================================================================
