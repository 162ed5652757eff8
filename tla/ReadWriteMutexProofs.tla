------------------------ MODULE ReadWriteMutexProofs ------------------------
(***************************************************************************)
(* Proofs about PReadWriteMutex for any finite set of threads and any      *)
(* bounds on nesting and calls.                                            *)
(***************************************************************************)
EXTENDS ReadWriteMutex, FiniteSetTheorems, TLAPS

(***************************************************************************)
(* The inductive invariant.                                                *)
(***************************************************************************)

\* Each internal mutex is owned by the thread that is between its lock and
\* its unlock, and by no other.
MutexInv ==
  \A t \in Threads :
    /\ m_readerMutex = t <=>
         pc[t] \in {"sr_wsem", "sr_unlockM", "er_wsem", "er_unlockM"}
    /\ m_writerMutex = t <=>
         pc[t] \in {"sw_rsem", "sw_unlockM", "ew_rsem", "ew_unlockM"}
    /\ m_starvationPreventer = t <=>
         pc[t] \in StartReadPCs \ {"sr_starve"}

\* What the nesting counts of a thread say at each location.
NestInv ==
  \A t \in Threads :
    /\ pc[t] \in StartReadPCs => nestReaders[t] > 0 /\ nestWriters[t] = 0
    /\ pc[t] \in EndReadPCs => (nestReaders[t] > 0 <=> nestWriters[t] > 0)
    /\ pc[t] \in StartWritePCs => nestWriters[t] > 0
    /\ pc[t] \in EndWritePCs => nestWriters[t] = 0
    /\ pc[t] = "endnest" => nestReaders[t] = 0 /\ nestWriters[t] = 0
    /\ pc[t] # "idle" => t \in m_nestedThreads
    /\ life = "alive" /\ (nestReaders[t] > 0 \/ nestWriters[t] > 0)
         => t \in m_nestedThreads

\* The threads m_readerCount and m_writerCount count.
CountedReaders == Readers \cup At({"sr_wsem"})
CountedWriters == Writers \cup At({"sw_rsem", "sw_unlockM", "sw_wsem",
     "ew_wmutex"})

CountInv ==
  /\ m_readerCount = Cardinality(CountedReaders)
  /\ m_writerCount = Cardinality(CountedWriters)
  /\ \A t \in Threads :
       /\ pc[t] = "sr_wsem" => m_readerCount = 1
       /\ pc[t] = "er_wsem" => m_readerCount = 0
       /\ pc[t] = "sw_rsem" => m_writerCount = 1
       /\ pc[t] = "ew_rsem" => m_writerCount = 0

\* The threads that have taken m_writerSemaphore, alone or as one of the
\* readers that share it, and the readers that have taken m_readerSemaphore.
WSHolders == Readers \cup Writers \cup At({"er_wsem"})
RSReaders == At({"sr_rmutex", "sr_wsem", "sr_unlockM", "sr_unlockS"})

SemaphoreInv ==
  /\ m_writerSemaphore \in {0, 1}
  /\ m_readerSemaphore \in {0, 1}
  /\ m_writerSemaphore = 1 => WSHolders = {}
  /\ \A w \in Writers : WSHolders = {w}
  /\ m_readerSemaphore = 1 => RSReaders = {} /\ QueuedWriters = {}
  /\ RSReaders # {} => QueuedWriters = {}

DestroyInv == life = "destroyed" => m_nestedThreads = {}

IInv == TypeOK /\ MutexInv /\ NestInv /\ CountInv /\ SemaphoreInv /\ DestroyInv

(* The locations and the groups of variables are expanded throughout. *)
USE ThreadsAssumption, BoundsAssumption
    DEF PCs, StartReadPCs, EndReadPCs, StartWritePCs, EndWritePCs,
        nests, rlocks, wlocks, sems, usage

\* Lock and unlock of the three internal mutexes keep owner and location in step.
LEMMA MutexStep == TypeOK /\ MutexInv /\ [Next]_vars => MutexInv'
<1> SUFFICES ASSUME TypeOK, MutexInv, [Next]_vars PROVE MutexInv'
  OBVIOUS
<1> USE DEF TypeOK, MutexInv
<1>1. ASSUME NEW t \in Threads, StartRead(t) PROVE MutexInv'
  BY <1>1 DEF StartRead, Call
<1>2. ASSUME NEW t \in Threads, StartWrite(t) PROVE MutexInv'
  BY <1>2 DEF StartWrite, Call
<1>3. ASSUME NEW t \in Threads, EndRead(t) PROVE MutexInv'
  BY <1>3 DEF EndRead
<1>4. ASSUME NEW t \in Threads, EndWrite(t) PROVE MutexInv'
  BY <1>4 DEF EndWrite
<1>5. ASSUME NEW t \in Threads, EndNest(t) PROVE MutexInv'
  BY <1>5 DEF EndNest, Goto
<1>6. ASSUME NEW t \in Threads, StartReadStep(t) PROVE MutexInv'
  BY <1>6 DEF StartReadStep, ReadLockStarvationPreventer,
     ReadWaitReaderSemaphore,
     ReadCountIn, ReadWaitWriterSemaphore, ReadUnlockReaderMutex,
     ReadSignalReaderSemaphore, ReadUnlockStarvationPreventer, Goto
<1>7. ASSUME NEW t \in Threads, EndReadStep(t) PROVE MutexInv'
  BY <1>7 DEF EndReadStep, ReadCountOut, ReadSignalWriterSemaphore, ReadLeave,
     Goto
<1>8. ASSUME NEW t \in Threads, StartWriteStep(t) PROVE MutexInv'
  BY <1>8 DEF StartWriteStep, WriteCountIn, WriteWaitReaderSemaphore,
     WriteUnlockWriterMutex, WriteWaitWriterSemaphore, Goto
<1>9. ASSUME NEW t \in Threads, EndWriteStep(t) PROVE MutexInv'
  BY <1>9 DEF EndWriteStep, WriteSignalWriterSemaphore, WriteCountOut,
     WriteSignalReaderSemaphore, WriteLeave, Goto
<1>10. ASSUME NEW t \in Threads, BeginDestroy(t) PROVE MutexInv'
  BY <1>10 DEF BeginDestroy
<1>11. CASE EndDestroy
  BY <1>11 DEF EndDestroy
<1>12. CASE UNCHANGED vars
  BY <1>12 DEF vars
<1>13. QED
  BY <1>1, <1>2, <1>3, <1>4, <1>5, <1>6, <1>7, <1>8, <1>9, <1>10, <1>11, <1>12
  DEF Next, ThreadNext, EndCall, Step

\* The nesting counts of a thread stay what its location says.
LEMMA NestStep == TypeOK /\ NestInv /\ [Next]_vars => NestInv'
<1> SUFFICES ASSUME TypeOK, NestInv, [Next]_vars PROVE NestInv'
  OBVIOUS
<1> USE DEF TypeOK, NestInv
<1>1. ASSUME NEW t \in Threads, StartRead(t) PROVE NestInv'
  BY <1>1 DEF StartRead, Call
<1>2. ASSUME NEW t \in Threads, StartWrite(t) PROVE NestInv'
  BY <1>2 DEF StartWrite, Call
<1>3. ASSUME NEW t \in Threads, EndRead(t) PROVE NestInv'
  BY <1>3 DEF EndRead
<1>4. ASSUME NEW t \in Threads, EndWrite(t) PROVE NestInv'
  BY <1>4 DEF EndWrite
<1>5. ASSUME NEW t \in Threads, EndNest(t) PROVE NestInv'
  BY <1>5 DEF EndNest, Goto
<1>6. ASSUME NEW t \in Threads, StartReadStep(t) PROVE NestInv'
  BY <1>6 DEF StartReadStep, ReadLockStarvationPreventer,
     ReadWaitReaderSemaphore,
     ReadCountIn, ReadWaitWriterSemaphore, ReadUnlockReaderMutex,
     ReadSignalReaderSemaphore, ReadUnlockStarvationPreventer, Goto
<1>7. ASSUME NEW t \in Threads, EndReadStep(t) PROVE NestInv'
  BY <1>7 DEF EndReadStep, ReadCountOut, ReadSignalWriterSemaphore, ReadLeave,
     Goto
<1>8. ASSUME NEW t \in Threads, StartWriteStep(t) PROVE NestInv'
  BY <1>8 DEF StartWriteStep, WriteCountIn, WriteWaitReaderSemaphore,
     WriteUnlockWriterMutex, WriteWaitWriterSemaphore, Goto
<1>9. ASSUME NEW t \in Threads, EndWriteStep(t) PROVE NestInv'
  BY <1>9 DEF EndWriteStep, WriteSignalWriterSemaphore, WriteCountOut,
     WriteSignalReaderSemaphore, WriteLeave, Goto
<1>10. ASSUME NEW t \in Threads, BeginDestroy(t) PROVE NestInv'
  BY <1>10 DEF BeginDestroy
<1>11. CASE EndDestroy
  BY <1>11 DEF EndDestroy
<1>12. CASE UNCHANGED vars
  BY <1>12 DEF vars
<1>13. QED
  BY <1>1, <1>2, <1>3, <1>4, <1>5, <1>6, <1>7, <1>8, <1>9, <1>10, <1>11, <1>12
  DEF Next, ThreadNext, EndCall, Step

\* A step adds one thread to the counted readers and to m_readerCount, removes
\* one from both, or leaves both alone.
LEMMA CountedReadersStep == TypeOK /\ NestInv /\ [Next]_vars => 
   \/ CountedReaders' = CountedReaders /\ m_readerCount' = m_readerCount
   \/ \E u \in Threads \ CountedReaders :
        CountedReaders' = CountedReaders \cup {u}
        /\ m_readerCount' = m_readerCount + 1
   \/ \E u \in CountedReaders :
        CountedReaders' = CountedReaders \ {u}
        /\ m_readerCount' = m_readerCount - 1
<1> DEFINE Goal == 
   \/ CountedReaders' = CountedReaders /\ m_readerCount' = m_readerCount
   \/ \E u \in Threads \ CountedReaders :
        CountedReaders' = CountedReaders \cup {u}
        /\ m_readerCount' = m_readerCount + 1
   \/ \E u \in CountedReaders :
        CountedReaders' = CountedReaders \ {u}
        /\ m_readerCount' = m_readerCount - 1
<1> SUFFICES ASSUME TypeOK, NestInv, [Next]_vars PROVE Goal
  OBVIOUS
<1> USE DEF TypeOK, NestInv, CountedReaders, Readers, At
<1>1. ASSUME NEW t \in Threads, StartRead(t) PROVE Goal
  BY <1>1 DEF StartRead, Call
<1>2. ASSUME NEW t \in Threads, StartWrite(t) PROVE Goal
  BY <1>2 DEF StartWrite, Call
<1>3. ASSUME NEW t \in Threads, EndRead(t) PROVE Goal
  BY <1>3 DEF EndRead
<1>4. ASSUME NEW t \in Threads, EndWrite(t) PROVE Goal
  BY <1>4 DEF EndWrite
<1>5. ASSUME NEW t \in Threads, EndNest(t) PROVE Goal
  BY <1>5 DEF EndNest, Goto
<1>6. ASSUME NEW t \in Threads, StartReadStep(t) PROVE Goal
  BY <1>6 DEF StartReadStep, ReadLockStarvationPreventer,
     ReadWaitReaderSemaphore,
     ReadCountIn, ReadWaitWriterSemaphore, ReadUnlockReaderMutex,
     ReadSignalReaderSemaphore, ReadUnlockStarvationPreventer, Goto
<1>7. ASSUME NEW t \in Threads, EndReadStep(t) PROVE Goal
  BY <1>7 DEF EndReadStep, ReadCountOut, ReadSignalWriterSemaphore, ReadLeave,
     Goto
<1>8. ASSUME NEW t \in Threads, StartWriteStep(t) PROVE Goal
  BY <1>8 DEF StartWriteStep, WriteCountIn, WriteWaitReaderSemaphore,
     WriteUnlockWriterMutex, WriteWaitWriterSemaphore, Goto
<1>9. ASSUME NEW t \in Threads, EndWriteStep(t) PROVE Goal
  BY <1>9 DEF EndWriteStep, WriteSignalWriterSemaphore, WriteCountOut,
     WriteSignalReaderSemaphore, WriteLeave, Goto
<1>10. ASSUME NEW t \in Threads, BeginDestroy(t) PROVE Goal
  BY <1>10 DEF BeginDestroy
<1>11. CASE EndDestroy
  BY <1>11 DEF EndDestroy
<1>12. CASE UNCHANGED vars
  BY <1>12 DEF vars
<1>13. QED
  BY <1>1, <1>2, <1>3, <1>4, <1>5, <1>6, <1>7, <1>8, <1>9, <1>10, <1>11, <1>12
  DEF Next, ThreadNext, EndCall, Step

\* The same for the counted writers and m_writerCount.
LEMMA CountedWritersStep == TypeOK /\ NestInv /\ [Next]_vars => 
   \/ CountedWriters' = CountedWriters /\ m_writerCount' = m_writerCount
   \/ \E u \in Threads \ CountedWriters :
        CountedWriters' = CountedWriters \cup {u}
        /\ m_writerCount' = m_writerCount + 1
   \/ \E u \in CountedWriters :
        CountedWriters' = CountedWriters \ {u}
        /\ m_writerCount' = m_writerCount - 1
<1> DEFINE Goal == 
   \/ CountedWriters' = CountedWriters /\ m_writerCount' = m_writerCount
   \/ \E u \in Threads \ CountedWriters :
        CountedWriters' = CountedWriters \cup {u}
        /\ m_writerCount' = m_writerCount + 1
   \/ \E u \in CountedWriters :
        CountedWriters' = CountedWriters \ {u}
        /\ m_writerCount' = m_writerCount - 1
<1> SUFFICES ASSUME TypeOK, NestInv, [Next]_vars PROVE Goal
  OBVIOUS
<1> USE DEF TypeOK, NestInv, CountedWriters, Writers, At
<1>1. ASSUME NEW t \in Threads, StartRead(t) PROVE Goal
  BY <1>1 DEF StartRead, Call
<1>2. ASSUME NEW t \in Threads, StartWrite(t) PROVE Goal
  BY <1>2 DEF StartWrite, Call
<1>3. ASSUME NEW t \in Threads, EndRead(t) PROVE Goal
  BY <1>3 DEF EndRead
<1>4. ASSUME NEW t \in Threads, EndWrite(t) PROVE Goal
  BY <1>4 DEF EndWrite
<1>5. ASSUME NEW t \in Threads, EndNest(t) PROVE Goal
  BY <1>5 DEF EndNest, Goto
<1>6. ASSUME NEW t \in Threads, StartReadStep(t) PROVE Goal
  BY <1>6 DEF StartReadStep, ReadLockStarvationPreventer,
     ReadWaitReaderSemaphore,
     ReadCountIn, ReadWaitWriterSemaphore, ReadUnlockReaderMutex,
     ReadSignalReaderSemaphore, ReadUnlockStarvationPreventer, Goto
<1>7. ASSUME NEW t \in Threads, EndReadStep(t) PROVE Goal
  BY <1>7 DEF EndReadStep, ReadCountOut, ReadSignalWriterSemaphore, ReadLeave,
     Goto
<1>8. ASSUME NEW t \in Threads, StartWriteStep(t) PROVE Goal
  BY <1>8 DEF StartWriteStep, WriteCountIn, WriteWaitReaderSemaphore,
     WriteUnlockWriterMutex, WriteWaitWriterSemaphore, Goto
<1>9. ASSUME NEW t \in Threads, EndWriteStep(t) PROVE Goal
  BY <1>9 DEF EndWriteStep, WriteSignalWriterSemaphore, WriteCountOut,
     WriteSignalReaderSemaphore, WriteLeave, Goto
<1>10. ASSUME NEW t \in Threads, BeginDestroy(t) PROVE Goal
  BY <1>10 DEF BeginDestroy
<1>11. CASE EndDestroy
  BY <1>11 DEF EndDestroy
<1>12. CASE UNCHANGED vars
  BY <1>12 DEF vars
<1>13. QED
  BY <1>1, <1>2, <1>3, <1>4, <1>5, <1>6, <1>7, <1>8, <1>9, <1>10, <1>11, <1>12
  DEF Next, ThreadNext, EndCall, Step

\* The counted threads are finite in number, before and after any step.
LEMMA CountedThreads ==
  /\ IsFiniteSet(CountedReaders) /\ Cardinality(CountedReaders) \in Nat
  /\ IsFiniteSet(CountedWriters) /\ Cardinality(CountedWriters) \in Nat
  /\ IsFiniteSet(CountedReaders)' /\ Cardinality(CountedReaders)' \in Nat
  /\ IsFiniteSet(CountedWriters)' /\ Cardinality(CountedWriters)' \in Nat
<1>1. /\ CountedReaders \subseteq Threads /\ CountedWriters \subseteq Threads
      /\ CountedReaders' \subseteq Threads /\ CountedWriters' \subseteq Threads
  BY DEF CountedReaders, CountedWriters, Readers, Writers, At
<1>2. QED
  BY <1>1, ThreadsAssumption, FS_Subset, FS_CardinalityType

\* The first thread in and the last one out see the counter at its boundary for
\* as long as they hold the mutex that protects it.
LEMMA CountLocationStep == TypeOK /\ MutexInv /\ CountInv /\ [Next]_vars => 
   \A u \in Threads :
     /\ pc'[u] = "sr_wsem" => m_readerCount' = 1
     /\ pc'[u] = "er_wsem" => m_readerCount' = 0
     /\ pc'[u] = "sw_rsem" => m_writerCount' = 1
     /\ pc'[u] = "ew_rsem" => m_writerCount' = 0
<1> DEFINE Goal == 
   \A u \in Threads :
     /\ pc'[u] = "sr_wsem" => m_readerCount' = 1
     /\ pc'[u] = "er_wsem" => m_readerCount' = 0
     /\ pc'[u] = "sw_rsem" => m_writerCount' = 1
     /\ pc'[u] = "ew_rsem" => m_writerCount' = 0
<1> SUFFICES ASSUME TypeOK, MutexInv, CountInv, [Next]_vars PROVE Goal
  OBVIOUS
<1> USE DEF TypeOK, MutexInv, CountInv
<1>1. ASSUME NEW t \in Threads, StartRead(t) PROVE Goal
  BY <1>1 DEF StartRead, Call
<1>2. ASSUME NEW t \in Threads, StartWrite(t) PROVE Goal
  BY <1>2 DEF StartWrite, Call
<1>3. ASSUME NEW t \in Threads, EndRead(t) PROVE Goal
  BY <1>3 DEF EndRead
<1>4. ASSUME NEW t \in Threads, EndWrite(t) PROVE Goal
  BY <1>4 DEF EndWrite
<1>5. ASSUME NEW t \in Threads, EndNest(t) PROVE Goal
  BY <1>5 DEF EndNest, Goto
<1>6. ASSUME NEW t \in Threads, StartReadStep(t) PROVE Goal
  BY <1>6 DEF StartReadStep, ReadLockStarvationPreventer,
     ReadWaitReaderSemaphore,
     ReadCountIn, ReadWaitWriterSemaphore, ReadUnlockReaderMutex,
     ReadSignalReaderSemaphore, ReadUnlockStarvationPreventer, Goto
<1>7. ASSUME NEW t \in Threads, EndReadStep(t) PROVE Goal
  BY <1>7 DEF EndReadStep, ReadCountOut, ReadSignalWriterSemaphore, ReadLeave,
     Goto
<1>8. ASSUME NEW t \in Threads, StartWriteStep(t) PROVE Goal
  BY <1>8 DEF StartWriteStep, WriteCountIn, WriteWaitReaderSemaphore,
     WriteUnlockWriterMutex, WriteWaitWriterSemaphore, Goto
<1>9. ASSUME NEW t \in Threads, EndWriteStep(t) PROVE Goal
  BY <1>9 DEF EndWriteStep, WriteSignalWriterSemaphore, WriteCountOut,
     WriteSignalReaderSemaphore, WriteLeave, Goto
<1>10. ASSUME NEW t \in Threads, BeginDestroy(t) PROVE Goal
  BY <1>10 DEF BeginDestroy
<1>11. CASE EndDestroy
  BY <1>11 DEF EndDestroy
<1>12. CASE UNCHANGED vars
  BY <1>12 DEF vars
<1>13. QED
  BY <1>1, <1>2, <1>3, <1>4, <1>5, <1>6, <1>7, <1>8, <1>9, <1>10, <1>11, <1>12
  DEF Next, ThreadNext, EndCall, Step

\* The counters stay the numbers of the threads they count.
LEMMA CountStep ==
  TypeOK /\ MutexInv /\ NestInv /\ CountInv /\ [Next]_vars => CountInv'
<1> SUFFICES ASSUME TypeOK, MutexInv, NestInv, CountInv, [Next]_vars
             PROVE  CountInv'
  OBVIOUS
<1>1. m_readerCount' = Cardinality(CountedReaders')
  <2>1. CASE CountedReaders' = CountedReaders /\ m_readerCount' = m_readerCount
    BY <2>1 DEF CountInv
  <2>2. ASSUME NEW u \in Threads \ CountedReaders,
               CountedReaders' = CountedReaders \cup {u},
               m_readerCount' = m_readerCount + 1
        PROVE  m_readerCount' = Cardinality(CountedReaders')
    BY <2>2, CountedThreads, FS_AddElement DEF CountInv
  <2>3. ASSUME NEW u \in CountedReaders,
               CountedReaders' = CountedReaders \ {u},
               m_readerCount' = m_readerCount - 1
        PROVE  m_readerCount' = Cardinality(CountedReaders')
    BY <2>3, CountedThreads, FS_RemoveElement DEF CountInv
  <2>4. QED
    BY <2>1, <2>2, <2>3, CountedReadersStep
<1>2. m_writerCount' = Cardinality(CountedWriters')
  <2>1. CASE CountedWriters' = CountedWriters /\ m_writerCount' = m_writerCount
    BY <2>1 DEF CountInv
  <2>2. ASSUME NEW u \in Threads \ CountedWriters,
               CountedWriters' = CountedWriters \cup {u},
               m_writerCount' = m_writerCount + 1
        PROVE  m_writerCount' = Cardinality(CountedWriters')
    BY <2>2, CountedThreads, FS_AddElement DEF CountInv
  <2>3. ASSUME NEW u \in CountedWriters,
               CountedWriters' = CountedWriters \ {u},
               m_writerCount' = m_writerCount - 1
        PROVE  m_writerCount' = Cardinality(CountedWriters')
    BY <2>3, CountedThreads, FS_RemoveElement DEF CountInv
  <2>4. QED
    BY <2>1, <2>2, <2>3, CountedWritersStep
<1>3. QED
  BY <1>1, <1>2, CountLocationStep DEF CountInv

\* Steps preserve the types; a counter is not zero when it is decremented.
LEMMA TypeStep ==
  TypeOK /\ MutexInv /\ NestInv /\ CountInv /\ [Next]_vars => TypeOK'
<1> SUFFICES ASSUME TypeOK, MutexInv, NestInv, CountInv, [Next]_vars
             PROVE  TypeOK'
  OBVIOUS
<1> USE DEF TypeOK
<1>0. m_readerCount' \in Nat /\ m_writerCount' \in Nat
  BY CountedThreads, CountStep DEF CountInv
<1>1. ASSUME NEW t \in Threads, StartRead(t) PROVE TypeOK'
  BY <1>1 DEF StartRead, Call
<1>2. ASSUME NEW t \in Threads, StartWrite(t) PROVE TypeOK'
  BY <1>2 DEF StartWrite, Call
<1>3. ASSUME NEW t \in Threads, EndRead(t) PROVE TypeOK'
  BY <1>3 DEF EndRead
<1>4. ASSUME NEW t \in Threads, EndWrite(t) PROVE TypeOK'
  BY <1>4 DEF EndWrite
<1>5. ASSUME NEW t \in Threads, EndNest(t) PROVE TypeOK'
  BY <1>5 DEF EndNest, Goto
<1>6. ASSUME NEW t \in Threads, StartReadStep(t) PROVE TypeOK'
  BY <1>6 DEF StartReadStep, ReadLockStarvationPreventer,
     ReadWaitReaderSemaphore,
     ReadCountIn, ReadWaitWriterSemaphore, ReadUnlockReaderMutex,
     ReadSignalReaderSemaphore, ReadUnlockStarvationPreventer, Goto
<1>7. ASSUME NEW t \in Threads, EndReadStep(t) PROVE TypeOK'
  BY <1>7, <1>0 DEF EndReadStep, ReadCountOut, ReadSignalWriterSemaphore,
     ReadLeave, Goto
<1>8. ASSUME NEW t \in Threads, StartWriteStep(t) PROVE TypeOK'
  BY <1>8 DEF StartWriteStep, WriteCountIn, WriteWaitReaderSemaphore,
     WriteUnlockWriterMutex, WriteWaitWriterSemaphore, Goto
<1>9. ASSUME NEW t \in Threads, EndWriteStep(t) PROVE TypeOK'
  BY <1>9, <1>0 DEF EndWriteStep, WriteSignalWriterSemaphore, WriteCountOut,
     WriteSignalReaderSemaphore, WriteLeave, Goto
<1>10. ASSUME NEW t \in Threads, BeginDestroy(t) PROVE TypeOK'
  BY <1>10 DEF BeginDestroy
<1>11. CASE EndDestroy
  BY <1>11 DEF EndDestroy
<1>12. CASE UNCHANGED vars
  BY <1>12 DEF vars
<1>13. QED
  BY <1>1, <1>2, <1>3, <1>4, <1>5, <1>6, <1>7, <1>8, <1>9, <1>10, <1>11, <1>12
  DEF Next, ThreadNext, EndCall, Step

\* What the counters say about who is counted.
LEMMA CountedWhen ==
  ASSUME CountInv
  PROVE  /\ m_readerCount = 0 <=> CountedReaders = {}
         /\ m_writerCount = 0 <=> CountedWriters = {}
         /\ m_readerCount = 1 => \A u \in CountedReaders : CountedReaders = {u}
         /\ m_writerCount = 1 => \A u \in CountedWriters : CountedWriters = {u}
BY CountedThreads, FS_EmptySet, FS_Singleton DEF CountInv

\* Steps keep both semaphores binary and their holders exclusive.
LEMMA SemaphoreStep ==
  TypeOK /\ MutexInv /\ NestInv /\ CountInv /\ SemaphoreInv /\ [Next]_vars
    => SemaphoreInv'
<1> SUFFICES ASSUME TypeOK, MutexInv, NestInv, CountInv, SemaphoreInv, [Next]_vars
             PROVE  SemaphoreInv'
  OBVIOUS
<1> USE DEF TypeOK, MutexInv, NestInv, SemaphoreInv, WSHolders, RSReaders,
     QueuedWriters, Readers, Writers, At
<1>1. ASSUME NEW t \in Threads, StartRead(t) PROVE SemaphoreInv'
  BY <1>1 DEF StartRead, Call
<1>2. ASSUME NEW t \in Threads, StartWrite(t) PROVE SemaphoreInv'
  BY <1>2 DEF StartWrite, Call
<1>3. ASSUME NEW t \in Threads, EndRead(t) PROVE SemaphoreInv'
  BY <1>3 DEF EndRead
<1>4. ASSUME NEW t \in Threads, EndWrite(t) PROVE SemaphoreInv'
  BY <1>4 DEF EndWrite
<1>5. ASSUME NEW t \in Threads, EndNest(t) PROVE SemaphoreInv'
  BY <1>5 DEF EndNest, Goto
<1>6. ASSUME NEW t \in Threads, StartReadStep(t) PROVE SemaphoreInv'
  BY <1>6, CountedWhen DEF CountInv, StartReadStep, CountedReaders,
     ReadLockStarvationPreventer, ReadWaitReaderSemaphore,
     ReadCountIn, ReadWaitWriterSemaphore, ReadUnlockReaderMutex,
     ReadSignalReaderSemaphore, ReadUnlockStarvationPreventer, Goto
<1>7. ASSUME NEW t \in Threads, EndReadStep(t) PROVE SemaphoreInv'
  BY <1>7, CountedWhen DEF CountInv, EndReadStep, CountedReaders, ReadCountOut,
     ReadSignalWriterSemaphore, ReadLeave, Goto
<1>8. ASSUME NEW t \in Threads, StartWriteStep(t) PROVE SemaphoreInv'
  BY <1>8, CountedWhen DEF CountInv, StartWriteStep, CountedWriters,
     WriteCountIn, WriteWaitReaderSemaphore,
     WriteUnlockWriterMutex, WriteWaitWriterSemaphore, Goto
<1>9. ASSUME NEW t \in Threads, EndWriteStep(t) PROVE SemaphoreInv'
  BY <1>9, CountedWhen DEF CountInv, EndWriteStep, CountedWriters,
     WriteSignalWriterSemaphore, WriteCountOut,
     WriteSignalReaderSemaphore, WriteLeave, Goto
<1>10. ASSUME NEW t \in Threads, BeginDestroy(t) PROVE SemaphoreInv'
  BY <1>10 DEF BeginDestroy
<1>11. CASE EndDestroy
  BY <1>11 DEF EndDestroy
<1>12. CASE UNCHANGED vars
  BY <1>12 DEF vars
<1>13. QED
  BY <1>1, <1>2, <1>3, <1>4, <1>5, <1>6, <1>7, <1>8, <1>9, <1>10, <1>11, <1>12
  DEF Next, ThreadNext, EndCall, Step

\* Nobody gets a Nest entry once the destructor has found none.
LEMMA DestroyStep == TypeOK /\ DestroyInv /\ [Next]_vars => DestroyInv'
<1> SUFFICES ASSUME TypeOK, DestroyInv, [Next]_vars PROVE DestroyInv'
  OBVIOUS
<1>1. CASE life' = life /\ m_nestedThreads' \subseteq m_nestedThreads
  BY <1>1 DEF DestroyInv
<1>2. CASE life' \in {"alive", "destroying"}
  BY <1>2 DEF DestroyInv
<1>3. CASE EndDestroy
  BY <1>3 DEF EndDestroy, DestroyInv
<1>4. ASSUME NEW t \in Threads, ThreadNext(t)
      PROVE  \/ life' = life /\ m_nestedThreads' \subseteq m_nestedThreads
             \/ life' \in {"alive", "destroying"}
  BY <1>4 DEF ThreadNext, StartRead, StartWrite, Call, EndCall, EndRead, EndWrite,
     Step, StartReadStep, ReadLockStarvationPreventer, ReadWaitReaderSemaphore,
     ReadCountIn, ReadWaitWriterSemaphore, ReadUnlockReaderMutex,
     ReadSignalReaderSemaphore, ReadUnlockStarvationPreventer, EndReadStep,
     ReadCountOut, ReadSignalWriterSemaphore, ReadLeave, StartWriteStep,
     WriteCountIn, WriteWaitReaderSemaphore, WriteUnlockWriterMutex,
     WriteWaitWriterSemaphore, EndWriteStep, WriteSignalWriterSemaphore,
     WriteCountOut, WriteSignalReaderSemaphore, WriteLeave, EndNest, BeginDestroy
<1>5. QED
  BY <1>1, <1>2, <1>3, <1>4 DEF Next, vars

-----------------------------------------------------------------------------
(* The refinement.  What the abstract lock shows is determined by the sets *)
(* of readers, writers and queued writers; a step of the mutex changes one *)
(* of them by one thread, or none.                                         *)

Same == Readers' = Readers /\ Writers' = Writers /\ QueuedWriters' = QueuedWriters

GrantRead(t) == /\ t \notin Readers /\ Writers = {} /\ QueuedWriters = {}
                /\ Readers' = Readers \cup {t} /\ Writers' = {} /\ QueuedWriters' = {}

GiveUpRead(t) == /\ t \in Readers /\ Readers' = Readers \ {t}
                 /\ Writers' = Writers /\ QueuedWriters' = QueuedWriters

JoinQueue(t) == /\ t \notin Readers \cup Writers \cup QueuedWriters
                /\ Readers' = Readers /\ Writers' = Writers
                /\ QueuedWriters' = QueuedWriters \cup {t}

GrantWrite(t) == /\ t \in QueuedWriters /\ Readers = {} /\ Writers = {}
                 /\ Readers' = {} /\ Writers' = {t} /\ QueuedWriters' = QueuedWriters

GiveUpWrite(t) == /\ t \in Writers /\ Writers' = Writers \ {t}
                  /\ Readers' = Readers /\ QueuedWriters' = QueuedWriters

QuitQueue(t) == /\ t \in QueuedWriters \ (Readers \cup Writers)
                /\ Readers' = Readers /\ Writers' = Writers
                /\ QueuedWriters' = QueuedWriters \ {t}

\* Each change of the three sets is the abstract action of that name.
LEMMA AbstractActions ==
  ASSUME NEW t \in Threads
  PROVE  /\ GrantRead(t) => Lock!AcquireRead(t)
         /\ GiveUpRead(t) => Lock!Release(t)
         /\ JoinQueue(t) => Lock!QueueWriter(t)
         /\ GrantWrite(t) => Lock!AcquireWrite(t)
         /\ GiveUpWrite(t) => Lock!Release(t)
         /\ QuitQueue(t) => Lock!LeaveQueue(t)
<1>1. Readers \cap Writers = {} /\ Readers' \cap Writers' = {}
  BY DEF Readers, Writers, At
<1>2. GrantRead(t) => Lock!AcquireRead(t)
  BY <1>1 DEF GrantRead, Lock!AcquireRead
<1>3. GiveUpRead(t) => Lock!Release(t)
  BY <1>1 DEF GiveUpRead, Lock!Release
<1>4. JoinQueue(t) => Lock!QueueWriter(t)
  BY <1>1 DEF JoinQueue, Lock!QueueWriter
<1>5. GrantWrite(t) => Lock!AcquireWrite(t)
  BY <1>1 DEF GrantWrite, Lock!AcquireWrite
<1>6. GiveUpWrite(t) => Lock!Release(t)
  BY <1>1 DEF GiveUpWrite, Lock!Release
<1>7. QuitQueue(t) => Lock!LeaveQueue(t)
  BY <1>1 DEF QuitQueue, Lock!LeaveQueue
<1>8. QED
  BY <1>2, <1>3, <1>4, <1>5, <1>6, <1>7

\* Every step of the mutex changes the three sets in one of these ways.
LEMMA SetStep ==
  TypeOK /\ MutexInv /\ NestInv /\ CountInv /\ SemaphoreInv /\ [Next]_vars
    => \/ Same
       \/ \E t \in Threads : \/ GrantRead(t) \/ GiveUpRead(t) \/ JoinQueue(t)
                             \/ GrantWrite(t) \/ GiveUpWrite(t) \/ QuitQueue(t)
<1> SUFFICES ASSUME TypeOK, MutexInv, NestInv, CountInv, SemaphoreInv, [Next]_vars
             PROVE  \/ Same
                    \/ \E t \in Threads :
                         \/ GrantRead(t) \/ GiveUpRead(t) \/ JoinQueue(t)
                         \/ GrantWrite(t) \/ GiveUpWrite(t) \/ QuitQueue(t)
  OBVIOUS
<1> USE DEF TypeOK, MutexInv, NestInv, SemaphoreInv, CountInv, CountedReaders,
      CountedWriters, WSHolders, RSReaders, QueuedWriters, Readers, Writers, At
<1>1. ASSUME NEW t \in Threads, StartRead(t) \/ StartWrite(t) PROVE Same
  BY <1>1 DEF StartRead, StartWrite, Call, Same
<1>2. ASSUME NEW t \in Threads, EndCall(t) PROVE Same
  BY <1>2 DEF EndCall, EndRead, EndWrite, Same
<1>3. ASSUME NEW t \in Threads, EndNest(t) PROVE Same
  BY <1>3 DEF EndNest, Goto, Same
<1>4. ASSUME NEW t \in Threads, StartReadStep(t) PROVE Same \/ GrantRead(t)
  <2>1. CASE ReadCountIn(t)
    BY <2>1, CountedWhen DEF ReadCountIn, Goto, Same, GrantRead
  <2>2. CASE ReadWaitWriterSemaphore(t)
    BY <2>2 DEF ReadWaitWriterSemaphore, Goto, GrantRead
  <2>3. CASE ReadUnlockReaderMutex(t) \/ ReadSignalReaderSemaphore(t)
             \/ ReadUnlockStarvationPreventer(t)
    BY <2>3 DEF ReadUnlockReaderMutex, ReadSignalReaderSemaphore,
       ReadUnlockStarvationPreventer, Goto, Same
  <2>4. CASE ReadLockStarvationPreventer(t) \/ ReadWaitReaderSemaphore(t)
    BY <2>4 DEF ReadLockStarvationPreventer, ReadWaitReaderSemaphore, Goto, Same
  <2>5. QED
    BY <1>4, <2>1, <2>2, <2>3, <2>4 DEF StartReadStep
<1>5. ASSUME NEW t \in Threads, EndReadStep(t) PROVE Same \/ GiveUpRead(t)
  <2>1. CASE ReadCountOut(t)
    BY <2>1 DEF ReadCountOut, Goto, GiveUpRead
  <2>2. CASE ReadSignalWriterSemaphore(t) \/ ReadLeave(t)
    BY <2>2 DEF ReadSignalWriterSemaphore, ReadLeave, Goto, Same
  <2>3. QED
    BY <1>5, <2>1, <2>2 DEF EndReadStep
<1>6. ASSUME NEW t \in Threads, StartWriteStep(t)
      PROVE  Same \/ JoinQueue(t) \/ GrantWrite(t)
  <2>1. CASE WriteCountIn(t)
    BY <2>1 DEF WriteCountIn, Goto, Same, JoinQueue
  <2>2. CASE WriteWaitReaderSemaphore(t)
    BY <2>2 DEF WriteWaitReaderSemaphore, Goto, JoinQueue
  <2>3. CASE WriteUnlockWriterMutex(t)
    BY <2>3 DEF WriteUnlockWriterMutex, Goto, Same
  <2>4. CASE WriteWaitWriterSemaphore(t)
    BY <2>4 DEF WriteWaitWriterSemaphore, Goto, GrantWrite
  <2>5. QED
    BY <1>6, <2>1, <2>2, <2>3, <2>4 DEF StartWriteStep
<1>7. ASSUME NEW t \in Threads, EndWriteStep(t)
      PROVE  Same \/ GiveUpWrite(t) \/ QuitQueue(t)
  <2>1. CASE WriteSignalWriterSemaphore(t)
    BY <2>1 DEF WriteSignalWriterSemaphore, Goto, GiveUpWrite
  <2>2. CASE WriteCountOut(t)
    BY <2>2 DEF WriteCountOut, Goto, Same, QuitQueue
  <2>3. CASE WriteSignalReaderSemaphore(t)
    BY <2>3 DEF WriteSignalReaderSemaphore, Goto, QuitQueue
  <2>4. CASE WriteLeave(t)
    BY <2>4 DEF WriteLeave, Goto, Same
  <2>5. QED
    BY <1>7, <2>1, <2>2, <2>3, <2>4 DEF EndWriteStep
<1>8. ASSUME NEW t \in Threads, BeginDestroy(t) PROVE Same
  BY <1>8 DEF BeginDestroy, Same
<1>9. CASE EndDestroy \/ UNCHANGED vars
  BY <1>9 DEF EndDestroy, vars, Same
<1>10. QED
  BY <1>1, <1>2, <1>3, <1>4, <1>5, <1>6, <1>7, <1>8, <1>9
  DEF Next, ThreadNext, Step

-----------------------------------------------------------------------------
(* The theorems.                                                           *)

\* IInv is inductive.
LEMMA InductiveInvariant == Spec => []IInv
<1>1. Init => IInv
  <2> SUFFICES ASSUME Init PROVE IInv
    OBVIOUS
  <2>1. CountedReaders = {} /\ CountedWriters = {} /\ WSHolders = {}
        /\ RSReaders = {} /\ QueuedWriters = {} /\ Writers = {}
    BY DEF Init, CountedReaders, CountedWriters, WSHolders, RSReaders,
       QueuedWriters, Readers, Writers, At
  <2>2. QED
    BY <2>1, FS_EmptySet DEF Init, IInv, TypeOK, MutexInv, NestInv, CountInv,
       SemaphoreInv, DestroyInv
<1>2. IInv /\ [Next]_vars => IInv'
  <2> SUFFICES ASSUME IInv, [Next]_vars PROVE IInv'
    OBVIOUS
  <2>1. TypeOK' /\ MutexInv' /\ NestInv' /\ CountInv' /\ SemaphoreInv'
    BY TypeStep, MutexStep, NestStep, CountStep, SemaphoreStep DEF IInv
  <2>2. DestroyInv'
    BY DestroyStep DEF IInv
  <2>3. QED
    BY <2>1, <2>2 DEF IInv
<1>3. QED
  BY <1>1, <1>2, PTL DEF Spec

\* Every reachable state of the mutex is well typed.
THEOREM TypeCorrect == Spec => []TypeOK
BY InductiveInvariant, PTL DEF IInv

\* PReadWriteMutex excludes: while a thread holds the write lock, nested,
\* upgraded or not, no other thread holds the lock in any mode.
THEOREM Exclusion == Spec => []MutualExclusion
<1>1. IInv => MutualExclusion
  <2> SUFFICES ASSUME IInv, NEW w \in Writers
               PROVE  Readers = {} /\ Writers = {w}
    BY DEF MutualExclusion
  <2>1. WSHolders = {w}
    BY DEF IInv, SemaphoreInv
  <2>2. Readers \cap Writers = {}
    BY DEF Readers, Writers, At
  <2>3. QED
    BY <2>1, <2>2 DEF WSHolders
<1>2. QED
  BY <1>1, InductiveInvariant, PTL

\* m_readerSemaphore and m_writerSemaphore never hold a second permit, though
\* PSemaphore::Signal does not enforce their maximum.
THEOREM PermitsBounded == Spec => []BinarySemaphores
<1>1. IInv => BinarySemaphores
  BY DEF IInv, SemaphoreInv, BinarySemaphores
<1>2. QED
  BY <1>1, InductiveInvariant, PTL

\* When ~PReadWriteMutex returns, every thread has left the mutex for good.
THEOREM SafeDestruction == Spec => []DestroyedUntouched
<1>1. IInv => DestroyedUntouched
  BY DEF IInv, TypeOK, NestInv, DestroyInv, DestroyedUntouched, At
<1>2. QED
  BY <1>1, InductiveInvariant, PTL

\* No reader gets the lock in a step taken while a writer is queued.
THEOREM WriterPreference == Spec => NoReaderOvertakesWriter
<1>1. IInv /\ [Next]_vars => Readers' \subseteq Readers \/ QueuedWriters = {}
  BY SetStep DEF IInv, Same, GrantRead, GiveUpRead, JoinQueue, GrantWrite,
     GiveUpWrite, QuitQueue
<1>2. QED
  BY <1>1, InductiveInvariant, PTL DEF Spec, NoReaderOvertakesWriter

\* PReadWriteMutex implements the lock of RWLock.
THEOREM Refinement == Spec => ImplementsRWLock
<1>1. Init => Lock!RWInit
  BY DEF Init, Lock!RWInit, Readers, Writers, QueuedWriters, At
<1>2. IInv /\ [Next]_vars => [Lock!RWNext]_(Lock!rwVars)
  <2> SUFFICES ASSUME IInv, [Next]_vars
               PROVE  UNCHANGED Lock!rwVars \/ Lock!RWNext
    OBVIOUS
  <2>1. CASE Same
    BY <2>1 DEF Same, Lock!rwVars
  <2>2. ASSUME NEW t \in Threads,
               \/ GrantRead(t) \/ GiveUpRead(t) \/ JoinQueue(t)
               \/ GrantWrite(t) \/ GiveUpWrite(t) \/ QuitQueue(t)
        PROVE  Lock!RWNext
    BY <2>2, AbstractActions DEF Lock!RWNext
  <2>3. QED
    BY <2>1, <2>2, SetStep DEF IInv
<1>3. QED
  BY <1>1, <1>2, InductiveInvariant, PTL DEF Spec, ImplementsRWLock, Lock!RWSpec
=============================================================================
