-------------------------------- MODULE Timer -------------------------------
(***************************************************************************)
(* PTimer and PTimer::List of src/ptlib/common/osutils.cxx: one timer, the *)
(* user thread that starts, stops and destroys it, the housekeeper that    *)
(* runs Process(), and the threads of the pool that run Timeout::Work().   *)
(*                                                                         *)
(* What is done under m_timersMutex is one action.  m_callbackMutex is     *)
(* recursive: the callback may stop and start its own timer.  Time is left *)
(* out: a running timer may be found expired by any Process().             *)
(***************************************************************************)
EXTENDS Naturals

CONSTANTS PoolThreads,      \* the threads of the timers' PQueuedThreadPool
          CallbackRestarts, \* whether the callback starts its own timer again
          Modes,            \* the values of m_oneshot that are used
          RetryLimit,       \* 5 in Stop()
          MaxStarts,        \* bound on the starts of the timer
          MaxQueued         \* bound on the Timeout works in the pool

NoThread == "none"

ASSUME TimerAssumption == /\ NoThread \notin PoolThreads
                          /\ CallbackRestarts \in BOOLEAN
                          /\ Modes \subseteq BOOLEAN
                          /\ RetryLimit \in Nat \ {0}
ASSUME TimerBounds == MaxStarts \in Nat /\ MaxQueued \in Nat

VARIABLES listed,           \* the handle is in m_timers
          m_running, m_oneshot,
          holder,           \* the pool thread that holds m_callbackMutex
          queued,           \* the Timeout works in the queues of the pool
          pc,               \* of the pool threads
          user, retry,      \* the user thread
          after,            \* what the user does when Stop() returns
          starts, called, restarted   \* history: the starts, whether the
                            \* callback was called since the last one, and
                            \* whether it ever started the timer itself

timer   == <<listed, m_running, m_oneshot>>
control == <<user, retry, after>>
history == <<starts, called, restarted>>
vars    == <<timer, holder, queued, pc, control, history>>

Init == /\ listed = FALSE /\ m_running = FALSE
        /\ m_oneshot = TRUE
        /\ holder = NoThread
        /\ queued = 0
        /\ pc = [p \in PoolThreads |-> "idle"]
        /\ user = "idle" /\ retry = 0 /\ after = "idle"
        /\ starts = 0 /\ called = FALSE /\ restarted = FALSE

Goto(p, from, to) == pc[p] = from /\ pc' = [pc EXCEPT ![p] = to]

\* The erasure in Stop().
Erase == listed' = FALSE /\ m_running' = FALSE

\* The end of InternalStart, when Stop() has returned: the timer runs.
Insert ==
  /\ starts < MaxStarts
  /\ m_oneshot' \in Modes
  /\ listed' = TRUE /\ m_running' = TRUE
  /\ starts' = starts + 1
  /\ called' = FALSE

-----------------------------------------------------------------------------
(* The user thread.                                                        *)

\* Stop(), InternalStart() and the destructor begin with the same loop.
BeginStop(next) ==
  /\ user \in {"idle", "stopped", "stoppedNoWait"}
  /\ user' = "erase"
  /\ after' = next
  /\ retry' = 0
  /\ UNCHANGED <<timer, holder, queued, pc, history>>

StopErase ==
  /\ user = "erase"
  /\ Erase
  /\ user' = IF after = "stoppedNoWait" THEN "check" ELSE "await"
  /\ UNCHANGED <<m_oneshot, holder, queued, pc, retry, after, history>>

\* Mutant: Stop() does not wait for the callback.
MutStopAwait ==
  /\ user = "await"
  /\ user' = "check"
  /\ UNCHANGED <<timer, holder, queued, pc, retry, after, history>>

\* Takes and releases m_callbackMutex.
StopAwait ==
  /\ user = "await"
  /\ holder = NoThread
  /\ user' = "check"
  /\ UNCHANGED <<timer, holder, queued, pc, retry, after, history>>

\* Again, at most RetryLimit times, when the callback has restarted the timer.
StopCheck ==
  /\ user = "check"
  /\ IF m_running /\ retry + 1 < RetryLimit
     THEN user' = "erase" /\ retry' = retry + 1
     ELSE user' = after /\ retry' = 0
  /\ UNCHANGED <<timer, holder, queued, pc, after, history>>

\* InternalStart with a time of zero leaves the timer stopped.
Start ==
  /\ user = "set"
  /\ user' = "idle"
  /\ \/ Insert /\ UNCHANGED restarted
     \/ UNCHANGED <<timer, history>>
  /\ UNCHANGED <<holder, queued, pc, retry, after>>

UserStep == StopErase \/ StopAwait \/ StopCheck \/ Start

-----------------------------------------------------------------------------
(* The housekeeper and the pool.                                           *)

\* The timer has run out; m_callbackMutex is taken and released on the way.
Process ==
  /\ listed /\ m_running
  /\ holder = NoThread
  /\ queued < MaxQueued
  /\ m_running' = ~m_oneshot
  /\ queued' = queued + 1
  /\ UNCHANGED <<listed, m_oneshot, holder, pc, control, history>>

\* A round that finds nothing expired, or the callback running.
ProcessNothing == /\ ~listed \/ ~m_running \/ holder # NoThread
                  /\ UNCHANGED vars

TakeWork(p) ==
  /\ Goto(p, "idle", "work")
  /\ queued > 0
  /\ queued' = queued - 1
  /\ UNCHANGED <<timer, holder, control, history>>

\* Mutant: any timer that is not running is taken for stopped.
MutStopped == ~listed \/ ~m_running

\* A one-shot timer that has run out is listed and not running.
Stopped == ~listed \/ (~m_oneshot /\ ~m_running)

GiveUp(p) ==
  /\ Goto(p, "work", "idle")
  /\ Stopped
  /\ UNCHANGED <<timer, holder, queued, control, history>>

\* Mutant: a one-shot timer is erased also when it has been started again.
MutOnTimeout(p) ==
  /\ Goto(p, "work", "calling")
  /\ ~Stopped
  /\ holder = NoThread
  /\ holder' = p
  /\ listed' = ~m_oneshot
  /\ called' = TRUE
  /\ UNCHANGED <<m_running, m_oneshot, queued, control, starts, restarted>>

\* While another thread is in the callback the work is tried again after 10 ms.
OnTimeout(p) ==
  /\ Goto(p, "work", "calling")
  /\ ~Stopped
  /\ holder = NoThread
  /\ holder' = p
  /\ listed' = ~(m_oneshot /\ ~m_running)
  /\ called' = TRUE
  /\ UNCHANGED <<m_running, m_oneshot, queued, control, starts, restarted>>

\* The callback calls InternalStart: Stop() in the thread of the callback.
CallbackStops(p) ==
  /\ CallbackRestarts
  /\ Goto(p, "calling", "restart")
  /\ Erase
  /\ UNCHANGED <<m_oneshot, holder, queued, control, history>>

CallbackStarts(p) ==
  /\ Goto(p, "restart", "returning")
  /\ \/ Insert /\ restarted' = TRUE
     \/ UNCHANGED <<timer, history>>
  /\ UNCHANGED <<holder, queued, control>>

CallbackReturns(p) ==
  /\ Goto(p, "calling", "idle") \/ Goto(p, "returning", "idle")
  /\ holder' = NoThread
  /\ UNCHANGED <<timer, queued, control, history>>

PoolStep(p) == \/ TakeWork(p) \/ GiveUp(p) \/ OnTimeout(p)
               \/ CallbackStops(p) \/ CallbackStarts(p) \/ CallbackReturns(p)

-----------------------------------------------------------------------------
Next == \/ \E next \in {"set", "stopped", "stoppedNoWait", "destroyed"} : BeginStop(next)
        \/ UserStep
        \/ Process \/ ProcessNothing
        \/ \E p \in PoolThreads : PoolStep(p)

Spec == Init /\ [][Next]_vars

\* The housekeeper keeps calling Process, the pool keeps running works, callbacks
\* return, and a call of the user goes on.  It gets m_callbackMutex between two
\* callbacks, which are an interval of the timer apart.
FairSpec == /\ Spec
            /\ WF_vars(Process) /\ WF_vars(UserStep) /\ SF_vars(StopAwait)
            /\ \A p \in PoolThreads : WF_vars(PoolStep(p))

-----------------------------------------------------------------------------
InCallback == {p \in PoolThreads : pc[p] \in {"calling", "restart", "returning"}}
InStop == user \in {"erase", "await", "check"}

TypeOK ==
  /\ listed \in BOOLEAN /\ m_running \in BOOLEAN /\ m_oneshot \in BOOLEAN
  /\ called \in BOOLEAN /\ restarted \in BOOLEAN
  /\ holder \in PoolThreads \cup {NoThread}
  /\ queued \in 0..MaxQueued
  /\ pc \in [PoolThreads -> {"idle", "work", "calling", "restart", "returning"}]
  /\ user \in {"idle", "erase", "await", "check",
               "set", "stopped", "stoppedNoWait", "destroyed"}
  /\ retry \in 0..(RetryLimit - 1)
  /\ starts \in 0..MaxStarts

\* A running timer is in the list, so that neither the assertion in Stop() fires nor
\* Process() misses it: Stop() and a callback that removes the expired timer do not
\* take a timer out that another thread has just started.
RunningIsListed == m_running => listed

\* Stop() that waits, a start and the destructor are done with the timer only when
\* its callback is not running and will not be called before the next start.
QuietAfterStop == user \in {"set", "stopped", "destroyed"} => InCallback = {} /\ ~listed

\* That holds as long as the callback does not start its own timer.
QuietUnlessRestarted == ~restarted => QuietAfterStop

\* A timer that runs is called back unless it is stopped or started anew.
TimerFires == \A n \in 1..MaxStarts :
                starts = n /\ m_running ~> called \/ ~listed \/ starts # n

\* Stop() returns although the callback keeps starting the timer.
StopReturns == InStop ~> ~InStop
=============================================================================
