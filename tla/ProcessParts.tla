----------------------------- MODULE ProcessParts ---------------------------
(***************************************************************************)
(* The small things a program made with the library uses, side by side: a  *)
(* timer, what is built from PSyncPoint, the run-time signals, notifiers   *)
(* and shared contents.  MCProcess checks them, with the sorted lists, and *)
(* ProcessProofs proves what is asked of them here.                        *)
(***************************************************************************)
EXTENDS Timer, SyncPointUse

CONSTANTS Client, Server, MaxRequests,          \* SyncPointAck
          IntValues, Operation, Target, MaxCondCalls,               \* CondMutex
          None,
          Rooms, MaxRunTimeSignals,             \* RunTimeSignals
          Notifying, AsyncTargets, ValidatedTargets, MaxPosts, MaxExecutes,   \* Notifiers
          Sharers, MaxReferences                \* Containers

VARIABLES syncSignalled, syncCond, ackSignalled, ackCond, ackPc, timed,
          requests, serving, acknowledged, request, everTimed,            \* SyncPointAck
          owner, value, mutexSignalled, mutexCond, mutexPc, mutexCalls,   \* CondMutex
          m_RunTimeSignalsQueueBuffer, m_RunTimeSignalsQueueIn,
          m_RunTimeSignalsQueueOut, handling, posted, handled, overrun,   \* RunTimeSignals
          m_mutex, inUse, queue, notifierPc, subject, wait,
          asyncPosted, asyncCalled, executes,                             \* Notifiers
          reference, m_theArray, count, references, freed,
          sharerPc, dividing, raced                                       \* Containers

A == INSTANCE SyncPointAck WITH
       Clients <- {Client}, AllowTimed <- TRUE, MaxSignals <- MaxRequests, pc <- ackPc

C == INSTANCE CondMutex WITH
       Values <- IntValues, MaxCalls <- MaxCondCalls,
       signalled <- mutexSignalled, cond <- mutexCond, pc <- mutexPc, calls <- mutexCalls

S == INSTANCE RunTimeSignals WITH Size <- Rooms, MaxSignals <- MaxRunTimeSignals

N == INSTANCE Notifiers WITH
       Callers <- Notifying, Nobody <- None, Endless <- FALSE, pc <- notifierPc,
       posted <- asyncPosted, called <- asyncCalled

O == INSTANCE Containers WITH
       Threads <- Sharers, Nothing <- None,
       made <- references, pc <- sharerPc, subject <- dividing

ackPart  == <<syncSignalled, syncCond, ackSignalled, ackCond, ackPc, timed,
              requests, serving, acknowledged, request, everTimed>>
condPart == <<owner, value, mutexSignalled, mutexCond, mutexPc, mutexCalls>>
ringPart == <<m_RunTimeSignalsQueueBuffer, m_RunTimeSignalsQueueIn, m_RunTimeSignalsQueueOut,
              handling, posted, handled, overrun>>
notifierPart  == <<m_mutex, inUse, queue, notifierPc, subject, wait, asyncPosted, asyncCalled,
                   executes>>
containerPart == <<reference, m_theArray, count, references, freed, sharerPc, dividing, raced>>

ASSUME PartsAssumption == /\ Client # Server
                          /\ NoThread \notin Threads
                          /\ S!SizeAssumption
                          /\ O!SharersAssumption

-----------------------------------------------------------------------------
\* PSyncPointAck: see SyncPointAck.
AcknowledgedUntilTimed == A!AcknowledgedUntilTimed

\* A set PSyncPoint has woken one of the threads that sleep on it, and a PIntCondMutex
\* whose condition holds one of those that wait for it: see SyncPointUse, CondMutex.
NoWakeUpLost == NoLostWakeup /\ C!NoStrandedWaiter

\* Run-time signals and asynchronous notifications are delivered once, in the order
\* in which they were given, and none is left out: see RunTimeSignals, Notifiers.
DeliveredInOrder == S!HandledInOrder /\ N!CallbacksInOrder

\* The contents of strings and arrays: see Containers.
ContentsIntactUnlessRaced == O!ContentsIntactUnlessRaced
=============================================================================
