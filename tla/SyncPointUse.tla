---------------------------- MODULE SyncPointUse ----------------------------
(***************************************************************************)
(* Threads that wait for, and signal, one PSyncPoint.                      *)
(***************************************************************************)
EXTENDS SyncPoint, Naturals, FiniteSets

CONSTANTS TimedThreads,     \* the threads that call Wait with a timeout
          MaxSignals,       \* bound on the calls of Signal
          MaxWaits,         \* bound on the calls of Wait by one thread
          SpuriousWakeups   \* whether pthread_cond_wait returns unprompted

ASSUME UsersAssumption == TimedThreads \subseteq Threads /\ SpuriousWakeups \in BOOLEAN
ASSUME UseBounds == MaxSignals \in Nat /\ MaxWaits \in Nat

VARIABLES signals,          \* calls of Signal so far
          releases,         \* calls of Wait that returned the event
          calls             \* calls of Wait of each thread

useVars == <<spVars, signals, releases, calls>>

UseInit == /\ SPInit
           /\ signals = 0
           /\ releases = 0
           /\ calls = [t \in Threads |-> 0]

BeginWait(t) ==
  /\ calls[t] < MaxWaits
  /\ calls' = [calls EXCEPT ![t] = @ + 1]
  /\ \/ WaitPasses(t) /\ releases' = releases + 1
     \/ t \notin TimedThreads /\ WaitBlocks(t) /\ UNCHANGED releases
     \/ t \in TimedThreads /\ TimedWaitBlocks(t) /\ UNCHANGED releases
  /\ UNCHANGED signals

\* What a thread does next once pthread_cond_wait has returned.
Resume(t) ==
  /\ \/ (WakePasses(t) \/ TimedWakePasses(t)) /\ releases' = releases + 1
     \/ (WakeBlocks(t) \/ ExpireReturns(t)) /\ UNCHANGED releases
  /\ UNCHANGED <<signals, calls>>

TimeOut(t) == Expire(t) /\ UNCHANGED <<signals, releases, calls>>

Spurious(t) == SpuriousWakeups /\ SpuriousWake(t) /\ UNCHANGED <<signals, releases, calls>>

DoSignal == /\ signals < MaxSignals
            /\ Signal
            /\ signals' = signals + 1
            /\ UNCHANGED <<releases, calls>>

UseNext == \/ \E t \in Threads : BeginWait(t) \/ Resume(t) \/ TimeOut(t) \/ Spurious(t)
           \/ DoSignal

UseSpec == UseInit /\ [][UseNext]_useVars

\* A thread that has left pthread_cond_wait gets the mutex and goes on.
UseFairSpec == UseSpec /\ \A t \in Threads : WF_useVars(Resume(t))

-----------------------------------------------------------------------------
UseTypeOK == /\ SPTypeOK
             /\ signals \in 0..MaxSignals
             /\ releases \in Nat
             /\ calls \in [Threads -> 0..MaxWaits]

\* Each release answers a Signal of its own: "if multiple threads are waiting
\* on the event, only one thread will be released".
OneReleasePerSignal == releases <= signals /\ (signalled => releases < signals)

\* It holds as long as no thread has waited with a timeout, for then every Wait
\* looks at the event after it has been woken.
NoTimedWait == \A t \in TimedThreads : calls[t] = 0
OneReleasePerUntimedSignal == NoTimedWait => OneReleasePerSignal

\* While the event is set no thread is left asleep in the condition variable
\* unless another one has been woken to take the event.
NoLostWakeup == signalled /\ Blocked # {} => Woken # {}

\* A set event reaches the thread that waits for it.
EventReachesWaiter == signalled /\ Blocked # {} ~> ~signalled
=============================================================================
