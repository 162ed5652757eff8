------------------------------ MODULE CondMutex -----------------------------
(***************************************************************************)
(* PCondMutex and PIntCondMutex: a mutex that WaitCondition acquires only  *)
(* when an integer satisfies a comparison with its target.                 *)
(***************************************************************************)
EXTENDS Integers

CONSTANTS Threads, NoThread,
          Values,           \* the values the operators leave the integer at
          Target, Operation,   \* LT, LE, EQ, GE or GT, as PIntCondMutex names them
          MaxCalls          \* bound on the calls of one thread

VARIABLES owner,            \* the owner of the PMutex
          value,
          signalled, cond,  \* PCondMutex::syncPoint
          pc, calls

SP == INSTANCE SyncPoint

syncPoint == <<signalled, cond>>
vars == <<owner, value, syncPoint, pc, calls>>

Condition == CASE Operation = "LT" -> value < Target
               [] Operation = "LE" -> value <= Target
               [] Operation = "GE" -> value >= Target
               [] Operation = "GT" -> value > Target
               [] OTHER -> value = Target

Goto(t, from, to) == pc[t] = from /\ pc' = [pc EXCEPT ![t] = to]

Init == /\ owner = NoThread
        /\ value \in Values
        /\ SP!SPInit
        /\ pc = [t \in Threads |-> "idle"]
        /\ calls = [t \in Threads |-> 0]

Call(t, to) == /\ Goto(t, "idle", to)
               /\ calls[t] < MaxCalls
               /\ calls' = [calls EXCEPT ![t] = @ + 1]
               /\ UNCHANGED <<owner, value, syncPoint>>

CallWaitCondition(t) == Call(t, "lock")
CallOperator(t) == Call(t, "assign")

\* Wait() and the test of the condition, in the loop of WaitCondition.
Lock(t) ==
  /\ owner = NoThread
  /\ owner' = t
  /\ Goto(t, "lock", IF Condition THEN "in" ELSE "unlock")
  /\ UNCHANGED <<value, syncPoint, calls>>

\* PMutex::Signal() before the thread sleeps on the sync point.
Unlock(t) ==
  /\ Goto(t, "unlock", "sleep")
  /\ owner' = NoThread
  /\ UNCHANGED <<value, syncPoint, calls>>

Sleep(t) ==
  /\ pc[t] = "sleep"
  /\ SP!WaitBlocks(t) \/ SP!WakeBlocks(t)
  /\ UNCHANGED <<owner, value, pc, calls>>

WakeUp(t) ==
  /\ Goto(t, "sleep", "lock")
  /\ SP!WaitPasses(t) \/ SP!WakePasses(t)
  /\ UNCHANGED <<owner, value, calls>>

\* Operators =, ++, --, += and -= take the mutex and change the value.
Assign(t) ==
  /\ owner = NoThread
  /\ owner' = t
  /\ Goto(t, "assign", "in")
  /\ value' \in Values
  /\ UNCHANGED <<syncPoint, calls>>

\* PCondMutex::Signal, by whoever owns the mutex.
Signal(t) ==
  /\ Goto(t, "in", "idle")
  /\ IF Condition THEN SP!Signal ELSE UNCHANGED syncPoint
  /\ owner' = NoThread
  /\ UNCHANGED <<value, calls>>

Spurious(t) == SP!SpuriousWake(t) /\ UNCHANGED <<owner, value, pc, calls>>

Step(t) == Lock(t) \/ Unlock(t) \/ Sleep(t) \/ WakeUp(t) \/ Assign(t) \/ Signal(t)

Next == \E t \in Threads : \/ CallWaitCondition(t) \/ CallOperator(t)
                           \/ Step(t) \/ Spurious(t)

Spec == Init /\ [][Next]_vars
FairSpec == Spec /\ \A t \in Threads : WF_vars(Step(t))

-----------------------------------------------------------------------------
\* While the condition holds and nobody is inside, a thread asleep in
\* WaitCondition implies a signal, or a woken thread, that will get it out:
\* the wake-ups one Signal gives are passed from each waiter to the next.
NoStrandedWaiter ==
  (Condition /\ owner = NoThread /\ \E t \in Threads : cond[t] = "blocked")
    => signalled \/ \E t \in Threads : pc[t] = "lock" \/ cond[t] = "woken"

\* While the condition holds every WaitCondition returns.
Waiting(t)   == pc[t] \in {"lock", "unlock", "sleep"}
Through(t)   == pc[t] = "in" \/ ~Condition
WaitersGetIn == \A t \in Threads : Waiting(t) ~> Through(t)
=============================================================================
