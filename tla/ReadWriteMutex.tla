--------------------------- MODULE ReadWriteMutex ---------------------------
(***************************************************************************)
(* PReadWriteMutex of src/ptlib/common/osutils.cxx: a nested, upgradable   *)
(* read/write lock built from two semaphores and three mutexes.  Every     *)
(* wait is a step of its own; the update of a counter is in the step that  *)
(* takes the mutex which protects it, and a call that only changes the     *)
(* nesting counts of its own thread is a single step.  A wait that exceeds *)
(* the deadlock timeout only writes a report and waits again, so waits do  *)
(* not time out here.  End calls without a matching Start are reported and *)
(* ignored by the code; they are stuttering steps.                         *)
(***************************************************************************)
EXTENDS Naturals, FiniteSets

CONSTANTS Threads,          \* the threads that share the mutex
          NoThread,         \* the owner of a mutex nobody owns
          MaxNest,          \* bound on nested Start calls of one kind
          MaxCalls          \* bound on the Start calls of one thread

ASSUME ThreadsAssumption == IsFiniteSet(Threads) /\ NoThread \notin Threads
ASSUME BoundsAssumption == MaxNest \in Nat /\ MaxCalls \in Nat

VARIABLES
  pc,                       \* where each thread is inside the mutex
  m_nestedThreads,          \* the threads that have a Nest entry
  nestReaders,              \* Nest::m_readerCount of each entry
  nestWriters,              \* Nest::m_writerCount of each entry
  m_readerSemaphore, m_writerSemaphore,
  m_readerMutex, m_writerMutex, m_starvationPreventer,
  m_readerCount, m_writerCount,
  life,                     \* progress of ~PReadWriteMutex
  callsLeft                 \* the Start calls each thread may still make

nests   == <<m_nestedThreads, nestReaders, nestWriters>>
rlocks  == <<m_readerMutex, m_readerCount, m_starvationPreventer>>
wlocks  == <<m_writerMutex, m_writerCount>>
sems    == <<m_readerSemaphore, m_writerSemaphore>>
usage   == <<life, callsLeft>>
vars    == <<pc, nests, rlocks, wlocks, sems, usage>>

\* Program locations: StartReadWithNest, EndReadWithNest, StartWriteWithNest,
\* EndWriteWithNest, and the final removal of the Nest entry.
StartReadPCs  == {"sr_starve", "sr_rsem", "sr_rmutex", "sr_wsem",
                  "sr_unlockM", "sr_unlockS", "sr_unlockP"}
EndReadPCs    == {"er_rmutex", "er_wsem", "er_unlockM"}
StartWritePCs == {"sw_wmutex", "sw_rsem", "sw_unlockM", "sw_wsem"}
EndWritePCs   == {"ew_wsem", "ew_wmutex", "ew_rsem", "ew_unlockM"}
PCs == {"idle", "endnest"} \cup StartReadPCs \cup EndReadPCs
                           \cup StartWritePCs \cup EndWritePCs

At(S) == {t \in Threads : pc[t] \in S}

Goto(t, from, to) == pc[t] = from /\ pc' = [pc EXCEPT ![t] = to]

Init ==
  /\ pc = [t \in Threads |-> "idle"]
  /\ m_nestedThreads = {}
  /\ nestReaders = [t \in Threads |-> 0]
  /\ nestWriters = [t \in Threads |-> 0]
  /\ m_readerSemaphore = 1
  /\ m_writerSemaphore = 1
  /\ m_readerMutex = NoThread
  /\ m_writerMutex = NoThread
  /\ m_starvationPreventer = NoThread
  /\ m_readerCount = 0
  /\ m_writerCount = 0
  /\ life = "alive"
  /\ callsLeft = [t \in Threads |-> MaxCalls]

-----------------------------------------------------------------------------
(* The calls: nesting is resolved here, the text book algorithm follows.   *)

\* StartNest of the calling thread, with one more call counted.
Call(t) == /\ pc[t] = "idle"
           /\ life = "alive"
           /\ callsLeft[t] > 0
           /\ callsLeft' = [callsLeft EXCEPT ![t] = @ - 1]
           /\ m_nestedThreads' = m_nestedThreads \cup {t}
           /\ UNCHANGED <<life, rlocks, wlocks, sems>>

StartRead(t) ==
  /\ Call(t)
  /\ nestReaders[t] < MaxNest
  /\ nestReaders' = [nestReaders EXCEPT ![t] = @ + 1]
  /\ pc' = [pc EXCEPT ![t] = IF nestReaders[t] = 0 /\ nestWriters[t] = 0
                             THEN "sr_starve" ELSE "idle"]
  /\ UNCHANGED nestWriters

StartWrite(t) ==
  /\ Call(t)
  /\ nestWriters[t] < MaxNest
  /\ nestWriters' = [nestWriters EXCEPT ![t] = @ + 1]
  /\ pc' = [pc EXCEPT ![t] = IF nestWriters[t] > 0 THEN "idle"
                             ELSE IF nestReaders[t] > 0 THEN "er_rmutex"
                             ELSE "sw_wmutex"]
  /\ UNCHANGED nestReaders

EndRead(t) ==
  /\ pc[t] = "idle" /\ life = "alive" /\ nestReaders[t] > 0
  /\ nestReaders' = [nestReaders EXCEPT ![t] = @ - 1]
  /\ pc' = [pc EXCEPT ![t] = IF nestReaders[t] = 1 /\ nestWriters[t] = 0
                             THEN "er_rmutex" ELSE "idle"]
  /\ UNCHANGED <<m_nestedThreads, nestWriters, rlocks, wlocks, sems, usage>>

\* Mutant: every EndWrite unlocks, nested or not.
MutEndWrite(t) ==
  /\ pc[t] = "idle" /\ life = "alive" /\ nestWriters[t] > 0
  /\ nestWriters' = [nestWriters EXCEPT ![t] = @ - 1]
  /\ pc' = [pc EXCEPT ![t] = "ew_wsem"]
  /\ UNCHANGED <<m_nestedThreads, nestReaders, rlocks, wlocks, sems, usage>>

EndWrite(t) ==
  /\ pc[t] = "idle" /\ life = "alive" /\ nestWriters[t] > 0
  /\ nestWriters' = [nestWriters EXCEPT ![t] = @ - 1]
  /\ pc' = [pc EXCEPT ![t] = IF nestWriters[t] = 1 THEN "ew_wsem" ELSE "idle"]
  /\ UNCHANGED <<m_nestedThreads, nestReaders, rlocks, wlocks, sems, usage>>

\* The last step of EndRead and EndWrite, under m_nestingMutex.
EndNest(t) ==
  /\ Goto(t, "endnest", "idle")
  /\ m_nestedThreads' = m_nestedThreads \ {t}
  /\ UNCHANGED <<nestReaders, nestWriters, rlocks, wlocks, sems, usage>>

-----------------------------------------------------------------------------
(* InternalStartReadWithNest                                               *)

ReadLockStarvationPreventer(t) ==
  /\ Goto(t, "sr_starve", "sr_rsem")
  /\ m_starvationPreventer = NoThread
  /\ m_starvationPreventer' = t
  /\ UNCHANGED <<nests, m_readerMutex, m_readerCount, wlocks, sems, usage>>

ReadWaitReaderSemaphore(t) ==
  /\ Goto(t, "sr_rsem", "sr_rmutex")
  /\ m_readerSemaphore > 0
  /\ m_readerSemaphore' = m_readerSemaphore - 1
  /\ UNCHANGED <<nests, rlocks, wlocks, m_writerSemaphore, usage>>

ReadCountIn(t) ==
  /\ Goto(t, "sr_rmutex", IF m_readerCount = 0 THEN "sr_wsem" ELSE "sr_unlockM")
  /\ m_readerMutex = NoThread
  /\ m_readerMutex' = t
  /\ m_readerCount' = m_readerCount + 1
  /\ UNCHANGED <<nests, m_starvationPreventer, wlocks, sems, usage>>

ReadWaitWriterSemaphore(t) ==
  /\ Goto(t, "sr_wsem", "sr_unlockM")
  /\ m_writerSemaphore > 0
  /\ m_writerSemaphore' = m_writerSemaphore - 1
  /\ UNCHANGED <<nests, rlocks, wlocks, m_readerSemaphore, usage>>

ReadUnlockReaderMutex(t) ==
  /\ Goto(t, "sr_unlockM", "sr_unlockS")
  /\ m_readerMutex' = NoThread
  /\ UNCHANGED <<nests, m_readerCount, m_starvationPreventer, wlocks, sems, usage>>

ReadSignalReaderSemaphore(t) ==
  /\ Goto(t, "sr_unlockS", "sr_unlockP")
  /\ m_readerSemaphore' = m_readerSemaphore + 1
  /\ UNCHANGED <<nests, rlocks, wlocks, m_writerSemaphore, usage>>

ReadUnlockStarvationPreventer(t) ==
  /\ Goto(t, "sr_unlockP", "idle")
  /\ m_starvationPreventer' = NoThread
  /\ UNCHANGED <<nests, m_readerMutex, m_readerCount, wlocks, sems, usage>>

StartReadStep(t) ==
  \/ ReadLockStarvationPreventer(t) \/ ReadWaitReaderSemaphore(t)
  \/ ReadCountIn(t) \/ ReadWaitWriterSemaphore(t) \/ ReadUnlockReaderMutex(t)
  \/ ReadSignalReaderSemaphore(t) \/ ReadUnlockStarvationPreventer(t)

-----------------------------------------------------------------------------
(* InternalEndReadWithNest: the way out of EndRead, and the first half of  *)
(* a StartWrite by a thread that already reads.                            *)

\* Mutant: the last reader does not signal m_writerSemaphore.
MutReadCountOut(t) ==
  /\ Goto(t, "er_rmutex", "er_unlockM")
  /\ m_readerMutex = NoThread
  /\ m_readerMutex' = t
  /\ m_readerCount' = m_readerCount - 1
  /\ UNCHANGED <<nests, m_starvationPreventer, wlocks, sems, usage>>

ReadCountOut(t) ==
  /\ Goto(t, "er_rmutex", IF m_readerCount = 1 THEN "er_wsem" ELSE "er_unlockM")
  /\ m_readerMutex = NoThread
  /\ m_readerMutex' = t
  /\ m_readerCount' = m_readerCount - 1
  /\ UNCHANGED <<nests, m_starvationPreventer, wlocks, sems, usage>>

ReadSignalWriterSemaphore(t) ==
  /\ Goto(t, "er_wsem", "er_unlockM")
  /\ m_writerSemaphore' = m_writerSemaphore + 1
  /\ UNCHANGED <<nests, rlocks, wlocks, m_readerSemaphore, usage>>

ReadLeave(t) ==
  /\ Goto(t, "er_unlockM", IF nestWriters[t] > 0 THEN "sw_wmutex" ELSE "endnest")
  /\ m_readerMutex' = NoThread
  /\ UNCHANGED <<nests, m_readerCount, m_starvationPreventer, wlocks, sems, usage>>

EndReadStep(t) == ReadCountOut(t) \/ ReadSignalWriterSemaphore(t) \/ ReadLeave(t)

-----------------------------------------------------------------------------
(* InternalStartWriteWithNest                                              *)

WriteCountIn(t) ==
  /\ Goto(t, "sw_wmutex", IF m_writerCount = 0 THEN "sw_rsem" ELSE "sw_unlockM")
  /\ m_writerMutex = NoThread
  /\ m_writerMutex' = t
  /\ m_writerCount' = m_writerCount + 1
  /\ UNCHANGED <<nests, rlocks, sems, usage>>

WriteWaitReaderSemaphore(t) ==
  /\ Goto(t, "sw_rsem", "sw_unlockM")
  /\ m_readerSemaphore > 0
  /\ m_readerSemaphore' = m_readerSemaphore - 1
  /\ UNCHANGED <<nests, rlocks, wlocks, m_writerSemaphore, usage>>

WriteUnlockWriterMutex(t) ==
  /\ Goto(t, "sw_unlockM", "sw_wsem")
  /\ m_writerMutex' = NoThread
  /\ UNCHANGED <<nests, rlocks, m_writerCount, sems, usage>>

WriteWaitWriterSemaphore(t) ==
  /\ Goto(t, "sw_wsem", "idle")
  /\ m_writerSemaphore > 0
  /\ m_writerSemaphore' = m_writerSemaphore - 1
  /\ UNCHANGED <<nests, rlocks, wlocks, m_readerSemaphore, usage>>

StartWriteStep(t) == \/ WriteCountIn(t) \/ WriteWaitReaderSemaphore(t)
                     \/ WriteUnlockWriterMutex(t) \/ WriteWaitWriterSemaphore(t)

-----------------------------------------------------------------------------
(* InternalEndWriteWithNest; a thread that still has nested read calls     *)
(* goes on to take the read lock again.                                    *)

WriteSignalWriterSemaphore(t) ==
  /\ Goto(t, "ew_wsem", "ew_wmutex")
  /\ m_writerSemaphore' = m_writerSemaphore + 1
  /\ UNCHANGED <<nests, rlocks, wlocks, m_readerSemaphore, usage>>

WriteCountOut(t) ==
  /\ Goto(t, "ew_wmutex", IF m_writerCount = 1 THEN "ew_rsem" ELSE "ew_unlockM")
  /\ m_writerMutex = NoThread
  /\ m_writerMutex' = t
  /\ m_writerCount' = m_writerCount - 1
  /\ UNCHANGED <<nests, rlocks, sems, usage>>

WriteSignalReaderSemaphore(t) ==
  /\ Goto(t, "ew_rsem", "ew_unlockM")
  /\ m_readerSemaphore' = m_readerSemaphore + 1
  /\ UNCHANGED <<nests, rlocks, wlocks, m_writerSemaphore, usage>>

\* Mutant: a thread that still has nested read calls does not read-lock again.
MutWriteLeave(t) ==
  /\ Goto(t, "ew_unlockM", "endnest")
  /\ m_writerMutex' = NoThread
  /\ UNCHANGED <<nests, rlocks, m_writerCount, sems, usage>>

WriteLeave(t) ==
  /\ Goto(t, "ew_unlockM", IF nestReaders[t] > 0 THEN "sr_starve" ELSE "endnest")
  /\ m_writerMutex' = NoThread
  /\ UNCHANGED <<nests, rlocks, m_writerCount, sems, usage>>

EndWriteStep(t) == \/ WriteSignalWriterSemaphore(t) \/ WriteCountOut(t)
                   \/ WriteSignalReaderSemaphore(t) \/ WriteLeave(t)

-----------------------------------------------------------------------------
(* ~PReadWriteMutex.  Its caller may hold the lock; every other thread is  *)
(* outside the mutex or, as the comment in the destructor allows, on the   *)
(* way out of the End call that gave the lock up.  The counts of the       *)
(* caller's erased entry keep their value: no later call reads them.       *)

WayOut(t) == \/ pc[t] = "idle" /\ nestReaders[t] = 0 /\ nestWriters[t] = 0
             \/ pc[t] \in {"er_unlockM", "endnest"} /\ nestWriters[t] = 0
             \/ pc[t] \in {"ew_wmutex", "ew_rsem", "ew_unlockM"} /\ nestReaders[t] = 0

BeginDestroy(t) ==
  /\ life = "alive"
  /\ pc[t] = "idle"
  /\ \A u \in Threads \ {t} : WayOut(u)
  /\ life' = "destroying"
  /\ m_nestedThreads' = m_nestedThreads \ {t}
  /\ UNCHANGED <<pc, nestReaders, nestWriters, rlocks, wlocks, sems, callsLeft>>

\* Mutant: the destructor does not wait for threads on their way out.
MutEndDestroy ==
  /\ life = "destroying"
  /\ life' = "destroyed"
  /\ UNCHANGED <<pc, nests, rlocks, wlocks, sems, callsLeft>>

EndDestroy ==
  /\ life = "destroying"
  /\ m_nestedThreads = {}
  /\ life' = "destroyed"
  /\ UNCHANGED <<pc, nests, rlocks, wlocks, sems, callsLeft>>

-----------------------------------------------------------------------------
EndCall(t) == EndRead(t) \/ EndWrite(t)
Step(t) == \/ StartReadStep(t) \/ EndReadStep(t)
           \/ StartWriteStep(t) \/ EndWriteStep(t) \/ EndNest(t)

ThreadNext(t) == StartRead(t) \/ StartWrite(t) \/ EndCall(t) \/ Step(t) \/ BeginDestroy(t)

Next == (\E t \in Threads : ThreadNext(t)) \/ EndDestroy

Spec == Init /\ [][Next]_vars

\* A thread inside the mutex keeps running, a holder releases what it holds,
\* and the loop of the destructor polls until it may leave.
Fairness == /\ \A t \in Threads : WF_vars(Step(t)) /\ WF_vars(EndCall(t))
            /\ WF_vars(EndDestroy)

FairSpec == Spec /\ Fairness

-----------------------------------------------------------------------------
(* Who holds what, read off the locations.                                 *)

Readers == At({"sr_unlockM", "sr_unlockS", "sr_unlockP", "er_rmutex"}) \cup
           {t \in At({"idle"}) : nestReaders[t] > 0 /\ nestWriters[t] = 0}
Writers == At({"ew_wsem"}) \cup {t \in At({"idle"}) : nestWriters[t] > 0}

\* The writers that keep m_readerSemaphore from every reader.
QueuedWriters == Writers \cup At({"sw_unlockM", "sw_wsem", "ew_wmutex", "ew_rsem"})

TypeOK ==
  /\ pc \in [Threads -> PCs]
  /\ m_nestedThreads \subseteq Threads
  /\ nestReaders \in [Threads -> Nat]
  /\ nestWriters \in [Threads -> Nat]
  /\ m_readerSemaphore \in Nat
  /\ m_writerSemaphore \in Nat
  /\ {m_readerMutex, m_writerMutex, m_starvationPreventer} \subseteq Threads \cup {NoThread}
  /\ m_readerCount \in Nat
  /\ m_writerCount \in Nat
  /\ life \in {"alive", "destroying", "destroyed"}
  /\ callsLeft \in [Threads -> 0..MaxCalls]

\* A writer excludes every reader and every other writer, across nesting,
\* upgrades (StartWrite while reading) and the downgrade in EndWrite.
MutualExclusion ==
  \A w \in Writers : Readers = {} /\ Writers = {w}

\* The two semaphores are created with maximum 1, which sem_post does not
\* enforce: only the protocol keeps a second permit from being handed out.
BinarySemaphores == m_readerSemaphore <= 1 /\ m_writerSemaphore <= 1

\* A thread gets the read lock only while no writer is queued: the starvation
\* preventer and m_readerSemaphore let no reader slip past a waiting writer.
NoReaderOvertakesWriter ==
  [][Readers' \subseteq Readers \/ QueuedWriters = {}]_vars

\* The destructor returns only when no thread will touch the mutex again.
DestroyedUntouched == life = "destroyed" => At(PCs \ {"idle"}) = {}

\* Every StartRead, StartWrite, EndRead and EndWrite returns once the holders
\* release: no wakeup is lost, no set of nested or upgrading callers deadlocks.
\* So does the destructor.
EveryCallReturns == /\ \A t \in Threads : pc[t] # "idle" ~> pc[t] = "idle"
                    /\ life = "destroying" ~> life = "destroyed"

\* The mutex implements the lock its callers are promised.
Lock == INSTANCE RWLock WITH
  holds  <- [t \in Threads |-> IF t \in Readers THEN "read"
                               ELSE IF t \in Writers THEN "write" ELSE "none"],
  queued <- QueuedWriters

ImplementsRWLock == Lock!RWSpec
=============================================================================
