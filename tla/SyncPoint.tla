------------------------------ MODULE SyncPoint -----------------------------
(***************************************************************************)
(* PSyncPoint of src/ptlib/unix/tlibthrd.cxx, an auto-reset event made of  *)
(* a flag, a mutex and a condition variable.  The mutex is held throughout *)
(* except inside pthread_cond_wait, so an action is the code from one such *)
(* point to the next.  The module has no Next of its own: the modules that *)
(* use a sync point compose these actions into their steps.                *)
(***************************************************************************)
CONSTANT Threads

VARIABLES signalled,        \* PSyncPoint::signalled
          cond              \* where each thread is in the condition variable

spVars == <<signalled, cond>>

CondStates == {"out", "blocked", "woken",                  \* Wait()
               "timedBlocked", "timedWoken", "expired"}    \* Wait(timeout)

SPInit == signalled = FALSE /\ cond = [t \in Threads |-> "out"]

SPTypeOK == signalled \in BOOLEAN /\ cond \in [Threads -> CondStates]

Moves(t, from, to) == cond[t] = from /\ cond' = [cond EXCEPT ![t] = to]

Consume == signalled /\ signalled' = FALSE

\* Either Wait finds the flag set and does not block.
WaitPasses(t) == cond[t] = "out" /\ Consume /\ UNCHANGED cond

\* Mutant: Wait goes to sleep without a look at the flag.
MutWaitBlocks(t) == Moves(t, "out", "blocked") /\ UNCHANGED signalled

WaitBlocks(t) == Moves(t, "out", "blocked") /\ ~signalled /\ UNCHANGED signalled

TimedWaitBlocks(t) == Moves(t, "out", "timedBlocked") /\ ~signalled /\ UNCHANGED signalled

\* Mutant: Wait() trusts the return of pthread_cond_wait.
MutWakePasses(t) == Moves(t, "woken", "out") /\ signalled' = FALSE

\* Wait() looks at the flag again whenever pthread_cond_wait returns.
WakePasses(t) == Moves(t, "woken", "out") /\ Consume

WakeBlocks(t) == Moves(t, "woken", "blocked") /\ ~signalled /\ UNCHANGED signalled

\* Wait(timeout) does not: err == 0 leaves the loop, clears the flag whatever
\* its value is, and the call returns true.
TimedWakePasses(t) == Moves(t, "timedWoken", "out") /\ signalled' = FALSE

\* ETIMEDOUT: the thread is no longer waiting, then returns false and leaves
\* the flag alone.
Expire(t) == Moves(t, "timedBlocked", "expired") /\ UNCHANGED signalled

ExpireReturns(t) == Moves(t, "expired", "out") /\ UNCHANGED signalled

Blocked == {t \in Threads : cond[t] \in {"blocked", "timedBlocked"}}
Woken   == {t \in Threads : cond[t] \in {"woken", "timedWoken"}}

WakeUp(t) == cond' = [cond EXCEPT ![t] = IF @ = "blocked" THEN "woken" ELSE "timedWoken"]

\* Signal sets the flag and wakes one of the threads in the condition variable.
Signal ==
  /\ signalled' = TRUE
  /\ IF Blocked = {} THEN UNCHANGED cond ELSE \E t \in Blocked : WakeUp(t)

\* POSIX lets either form of pthread_cond_wait return without a signal.
SpuriousWake(t) == t \in Blocked /\ WakeUp(t) /\ UNCHANGED signalled
=============================================================================
