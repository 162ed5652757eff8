---------------------------- MODULE ProcessProofs ---------------------------
(***************************************************************************)
(* What is built from PSyncPoint, the run-time signals, the notifiers,     *)
(* shared contents and timers, for any sets of threads, targets and        *)
(* instances and any bounds on their calls: the properties of ProcessParts *)
(* and of Timer, each from an inductive invariant of its part.             *)
(***************************************************************************)
EXTENDS ProcessParts, Sequences, FiniteSetTheorems, TLAPS

-----------------------------------------------------------------------------
(* PSyncPoint: until a thread waits with a timeout, each Signal releases   *)
(* at most one Wait.  The count of a thread's calls only grows, so the     *)
(* condition, once lost, stays lost, and the invariant is needed only      *)
(* while it holds.                                                         *)

\* Only the untimed waits occur.
UntimedType == /\ cond \in [Threads -> {"out", "blocked", "woken"}]
               /\ signals \in Nat
               /\ releases \in Nat

CallsType == calls \in [Threads -> Nat]

\* A step takes the event that is set, leaves the event alone, or sets it.
Takes    == /\ signalled /\ ~signalled'
            /\ releases' = releases + 1 /\ signals' = signals
Keeps    == /\ (signalled' => signalled)
            /\ releases' = releases /\ signals' = signals
Sets     == releases' = releases /\ signals' = signals + 1

\* The condition is never regained.
LEMMA CallsGrow ==
  ASSUME CallsType, [UseNext]_useVars
  PROVE  CallsType' /\ (NoTimedWait' => NoTimedWait)
<1>1. ASSUME NEW t \in Threads, calls' = [calls EXCEPT ![t] = @ + 1]
      PROVE  CallsType' /\ (NoTimedWait' => NoTimedWait)
  BY <1>1, UsersAssumption DEF CallsType, NoTimedWait
<1>2. CASE UNCHANGED calls
  BY <1>2 DEF CallsType, NoTimedWait
<1>3. QED
  BY <1>1, <1>2 DEF UseNext, BeginWait, Resume, TimeOut, Spurious, DoSignal, useVars

\* Threads that have not waited with a timeout stay in the untimed part of the condition
\* variable, and touch the event in one of those three ways.
LEMMA UntimedStep ==
  ASSUME CallsType, NoTimedWait', UntimedType, [UseNext]_useVars
  PROVE  UntimedType' /\ (Takes \/ Keeps \/ Sets)
<1> USE DEF UntimedType, Moves
<1>1. ASSUME NEW t \in Threads, BeginWait(t) PROVE UntimedType' /\ (Takes \/ Keeps)
  <2>1. CASE WaitPasses(t) /\ releases' = releases + 1
    <3>1. UntimedType'
      BY <1>1, <2>1 DEF BeginWait, WaitPasses
    <3>2. Takes
      BY <1>1, <2>1, Zenon DEF BeginWait, WaitPasses, Consume, Takes
    <3>3. QED
      BY <3>1, <3>2
  <2>2. CASE WaitBlocks(t) /\ UNCHANGED releases
    <3>1. UntimedType'
      BY <1>1, <2>2 DEF BeginWait, WaitBlocks
    <3>2. Keeps
      BY <1>1, <2>2, Zenon DEF BeginWait, WaitBlocks, Keeps
    <3>3. QED
      BY <3>1, <3>2
  <2>3. t \notin TimedThreads
    <3>1. calls'[t] = calls[t] + 1 /\ calls[t] \in Nat
      BY <1>1 DEF BeginWait, CallsType
    <3>2. QED
      BY <3>1 DEF NoTimedWait
  <2>4. QED
    BY <1>1, <2>1, <2>2, <2>3 DEF BeginWait
<1>2. ASSUME NEW t \in Threads, Resume(t) PROVE UntimedType' /\ (Takes \/ Keeps)
  <2>1. CASE WakePasses(t) /\ releases' = releases + 1
    <3>1. UntimedType'
      BY <1>2, <2>1 DEF Resume, WakePasses
    <3>2. Takes
      BY <1>2, <2>1, Zenon DEF Resume, WakePasses, Consume, Takes
    <3>3. QED
      BY <3>1, <3>2
  <2>2. CASE WakeBlocks(t) /\ UNCHANGED releases
    <3>1. UntimedType'
      BY <1>2, <2>2 DEF Resume, WakeBlocks
    <3>2. Keeps
      BY <1>2, <2>2, Zenon DEF Resume, WakeBlocks, Keeps
    <3>3. QED
      BY <3>1, <3>2
  <2>3. cond[t] \notin {"timedWoken", "expired"}
    OBVIOUS
  <2>4. QED
    BY <1>2, <2>1, <2>2, <2>3 DEF Resume, TimedWakePasses, ExpireReturns
<1>3. ASSUME NEW t \in Threads, TimeOut(t) PROVE FALSE
  BY <1>3 DEF TimeOut, Expire
<1>4. ASSUME NEW t \in Threads, Spurious(t) PROVE UntimedType' /\ Keeps
  <2>1. UntimedType'
    BY <1>4 DEF Spurious, SpuriousWake, WakeUp, Blocked
  <2>2. Keeps
    BY <1>4, Zenon DEF Spurious, SpuriousWake, Keeps
  <2>3. QED
    BY <2>1, <2>2
<1>5. CASE DoSignal
  BY <1>5 DEF DoSignal, Signal, WakeUp, Blocked, Sets
<1>6. CASE UNCHANGED useVars
  <2>1. UntimedType'
    BY <1>6 DEF useVars, spVars
  <2>2. Keeps
    BY <1>6, Zenon DEF useVars, spVars, Keeps
  <2>3. QED
    BY <2>1, <2>2
<1>7. QED
  BY <1>1, <1>2, <1>3, <1>4, <1>5, <1>6 DEF UseNext

\* None of the three lets the releases get ahead of the signals.
LEMMA ReleaseStep ==
  ASSUME UntimedType, OneReleasePerSignal, Takes \/ Keeps \/ Sets
  PROVE  OneReleasePerSignal'
<1>1. CASE Takes
  <2>1. releases < signals
    BY <1>1, Zenon DEF Takes, OneReleasePerSignal
  <2>2. releases' <= signals'
    BY <1>1, <2>1 DEF Takes, UntimedType
  <2>3. QED
    BY <1>1, <2>2, Zenon DEF Takes, OneReleasePerSignal
<1>2. CASE Keeps
  BY <1>2, Zenon DEF Keeps, OneReleasePerSignal
<1>3. CASE Sets
  <2>1. releases <= signals
    BY Zenon DEF OneReleasePerSignal
  <2>2. releases' <= signals' /\ releases' < signals'
    BY <1>3, <2>1 DEF Sets, UntimedType
  <2>3. QED
    BY <2>2, Zenon DEF OneReleasePerSignal
<1>4. QED
  BY <1>1, <1>2, <1>3

\* PSyncPoint::Wait(): one call of Signal releases at most one waiting thread,
\* as long as no thread has called Wait with a timeout.
THEOREM OneReleaseUntilTimedWait == UseSpec => []OneReleasePerUntimedSignal
<1> DEFINE Inv == CallsType /\ (NoTimedWait => UntimedType /\ OneReleasePerSignal)
<1>1. UseInit => CallsType /\ UntimedType
  BY DEF UseInit, SPInit, UntimedType, CallsType
<1>2. UseInit => OneReleasePerSignal
  <2>1. UseInit => releases <= signals
    BY DEF UseInit
  <2>2. UseInit => ~signalled
    BY Zenon DEF UseInit, SPInit
  <2>3. QED
    BY <2>1, <2>2, Zenon DEF OneReleasePerSignal
<1>3. Inv /\ [UseNext]_useVars => Inv'
  <2> SUFFICES ASSUME Inv, [UseNext]_useVars PROVE Inv'
    OBVIOUS
  <2>1. CallsType' /\ (NoTimedWait' => NoTimedWait)
    BY CallsGrow
  <2>2. ASSUME NoTimedWait' PROVE UntimedType' /\ OneReleasePerSignal'
    <3>1. UntimedType /\ OneReleasePerSignal
      BY <2>1, <2>2
    <3>2. UntimedType' /\ (Takes \/ Keeps \/ Sets)
      BY <2>2, <3>1, UntimedStep
    <3>3. QED
      BY <3>1, <3>2, ReleaseStep
  <2>3. QED
    BY <2>1, <2>2
<1>4. Inv => OneReleasePerUntimedSignal
  BY DEF OneReleasePerUntimedSignal
<1>5. QED
  BY <1>1, <1>2, <1>3, <1>4, PTL DEF UseSpec

-----------------------------------------------------------------------------
(* Nobody sleeps through an event.                                         *)

\* The steps of the sync point keep SPTypeOK, and wake somebody whenever the event is set.
LEMMA WokenStep ==
  ASSUME SPTypeOK, NoLostWakeup, [UseNext]_useVars
  PROVE  SPTypeOK' /\ NoLostWakeup'
<1> USE DEF SPTypeOK, CondStates, Moves
<1>1. ASSUME signalled' = FALSE, cond' = cond \/ \E t \in Threads, s \in CondStates :
                                              cond' = [cond EXCEPT ![t] = s]
      PROVE  SPTypeOK' /\ NoLostWakeup'
  <2>1. cond' \in [Threads -> CondStates]
    <3>1. CASE cond' = cond
      BY <3>1
    <3>2. CASE \E t \in Threads, s \in CondStates : cond' = [cond EXCEPT ![t] = s]
      BY <3>2
    <3>3. QED
      BY <1>1, <3>1, <3>2
  <2>2. QED
    BY <1>1, <2>1, Zenon DEF NoLostWakeup
<1>2. ASSUME NEW t \in Threads, signalled' = signalled, cond' = [cond EXCEPT ![t] = "expired"],
             cond[t] = "timedBlocked"
      PROVE  SPTypeOK' /\ NoLostWakeup'
  <2>1. cond' \in [Threads -> CondStates] /\ Blocked' \subseteq Blocked /\ Woken' = Woken
    BY <1>2 DEF Blocked, Woken
  <2>2. QED
    BY <1>2, <2>1, Zenon DEF NoLostWakeup
<1>3. ASSUME NEW t \in Threads, signalled' = signalled, cond' = [cond EXCEPT ![t] = "out"],
             cond[t] = "expired"
      PROVE  SPTypeOK' /\ NoLostWakeup'
  <2>1. cond' \in [Threads -> CondStates] /\ Blocked' = Blocked /\ Woken' = Woken
    BY <1>3 DEF Blocked, Woken
  <2>2. QED
    BY <1>3, <2>1, Zenon DEF NoLostWakeup
<1>4. ASSUME NEW t \in Threads, signalled' \in BOOLEAN, t \in Blocked, WakeUp(t)
      PROVE  SPTypeOK' /\ NoLostWakeup'
  <2>1. cond' \in [Threads -> CondStates] /\ t \in Woken'
    BY <1>4 DEF Blocked, Woken, WakeUp
  <2>2. QED
    BY <1>4, <2>1, Zenon DEF NoLostWakeup
<1>5. ASSUME UNCHANGED spVars
      PROVE  SPTypeOK' /\ NoLostWakeup'
  BY <1>5, Zenon DEF spVars, NoLostWakeup, Blocked, Woken
<1>6. ASSUME NEW t \in Threads, BeginWait(t) PROVE SPTypeOK' /\ NoLostWakeup'
  <2>1. CASE WaitPasses(t)
    BY <1>1, <2>1, Zenon DEF WaitPasses, Consume
  <2>2. CASE WaitBlocks(t) \/ TimedWaitBlocks(t)
    <3>1. signalled' = FALSE
      BY <2>2, Zenon DEF WaitBlocks, TimedWaitBlocks
    <3>2. \E s \in CondStates : cond' = [cond EXCEPT ![t] = s]
      BY <2>2 DEF WaitBlocks, TimedWaitBlocks
    <3>3. QED
      BY <1>1, <3>1, <3>2
  <2>3. QED
    BY <1>6, <2>1, <2>2 DEF BeginWait
<1>7. ASSUME NEW t \in Threads, Resume(t) PROVE SPTypeOK' /\ NoLostWakeup'
  <2>1. CASE WakePasses(t) \/ TimedWakePasses(t) \/ WakeBlocks(t)
    <3>1. signalled' = FALSE
      BY <2>1, Zenon DEF WakePasses, TimedWakePasses, WakeBlocks, Consume
    <3>2. \E s \in CondStates : cond' = [cond EXCEPT ![t] = s]
      BY <2>1 DEF WakePasses, TimedWakePasses, WakeBlocks
    <3>3. QED
      BY <1>1, <3>1, <3>2
  <2>2. CASE ExpireReturns(t)
    BY <1>3, <2>2, Zenon DEF ExpireReturns
  <2>3. QED
    BY <1>7, <2>1, <2>2 DEF Resume
<1>8. ASSUME NEW t \in Threads, TimeOut(t) PROVE SPTypeOK' /\ NoLostWakeup'
  BY <1>2, <1>8, Zenon DEF TimeOut, Expire
<1>9. ASSUME NEW t \in Threads, Spurious(t) PROVE SPTypeOK' /\ NoLostWakeup'
  BY <1>4, <1>9, Zenon DEF Spurious, SpuriousWake
<1>10. ASSUME DoSignal PROVE SPTypeOK' /\ NoLostWakeup'
  <2>1. CASE Blocked = {}
    <3>1. UNCHANGED cond /\ signalled' = TRUE
      BY <1>10, <2>1, Zenon DEF DoSignal, Signal
    <3>2. Blocked' = {}
      BY <2>1, <3>1 DEF Blocked
    <3>3. QED
      BY <3>1, <3>2, Zenon DEF NoLostWakeup
  <2>2. CASE Blocked # {}
    <3>1. PICK t \in Blocked : WakeUp(t)
      BY <1>10, <2>2, Zenon DEF DoSignal, Signal
    <3>2. signalled' \in BOOLEAN
      BY <1>10, Zenon DEF DoSignal, Signal
    <3>3. t \in Threads
      BY DEF Blocked
    <3>4. QED
      BY <1>4, <3>1, <3>2, <3>3
  <2>3. QED
    BY <2>1, <2>2
<1>11. CASE UNCHANGED useVars
  BY <1>5, <1>11 DEF useVars
<1>12. QED
  BY <1>6, <1>7, <1>8, <1>9, <1>10, <1>11 DEF UseNext

\* Whoever owns the mutex is past the lock, and owns it alone.
OwnerInside ==
  /\ mutexPc \in [Threads -> {"idle", "lock", "unlock", "sleep", "assign", "in"}]
  /\ \A t \in Threads : mutexPc[t] \in {"unlock", "in"} => owner = t

\* Who is about to sleep on the sync point has found the condition false, and nobody
\* can have changed that.
UnlocksInVain == \A t \in Threads : mutexPc[t] = "unlock" => ~C!Condition

\* When the condition holds and nobody is inside, one of the threads that sleep is
\* let out by the event, or one that has been is on its way in.
SleepersLetOut ==
  C!Condition /\ owner = NoThread /\ (\E t \in Threads : mutexPc[t] = "sleep")
    => mutexSignalled \/ \E t \in Threads : mutexPc[t] = "lock"

\* Only who sleeps is in the condition variable.
SleepersInCond ==
  /\ mutexCond \in [Threads -> {"out", "blocked", "woken"}]
  /\ \A t \in Threads : mutexCond[t] # "out" => mutexPc[t] = "sleep"

CondInv == OwnerInside /\ UnlocksInVain /\ SleepersLetOut /\ SleepersInCond

LEMMA CondInitially == C!Init => CondInv
<1> SUFFICES ASSUME C!Init PROVE CondInv
  OBVIOUS
<1>1. mutexPc = [t \in Threads |-> "idle"] /\ mutexCond = [t \in Threads |-> "out"]
  BY Zenon DEF C!Init, C!SP!SPInit
<1>2. QED
  BY <1>1 DEF CondInv, OwnerInside, UnlocksInVain, SleepersLetOut, SleepersInCond

LEMMA CondStep == ASSUME CondInv, [C!Next]_(C!vars) PROVE CondInv'
<1> DEFINE PCs == {"idle", "lock", "unlock", "sleep", "assign", "in"}
<1>t. /\ mutexPc \in [Threads -> PCs]
      /\ \A t \in Threads : mutexPc[t] \in {"unlock", "in"} => owner = t
  BY DEF CondInv, OwnerInside
<1>n. \A t \in Threads : t # NoThread
  BY PartsAssumption
<1>s. SleepersInCond /\ SleepersLetOut /\ UnlocksInVain
  BY DEF CondInv
<1>c. ASSUME value' = value PROVE C!Condition' = C!Condition
  BY <1>c, Zenon DEF C!Condition
<1>1. ASSUME NEW t \in Threads, C!CallWaitCondition(t) \/ C!CallOperator(t) PROVE CondInv'
  <2>1. PICK to \in {"lock", "assign"} : C!Call(t, to)
    BY <1>1, Zenon DEF C!CallWaitCondition, C!CallOperator
  <2>2. /\ mutexPc[t] = "idle" /\ mutexPc' = [mutexPc EXCEPT ![t] = to]
        /\ UNCHANGED <<owner, value, mutexSignalled, mutexCond>>
    BY <2>1, Zenon DEF C!Call, C!Goto, C!syncPoint
  <2>3. OwnerInside'
    BY <2>2, <1>t DEF OwnerInside
  <2>4. UnlocksInVain' /\ SleepersInCond'
    BY <2>2, <1>t, <1>s, <1>c DEF UnlocksInVain, SleepersInCond
  <2>5. (\E u \in Threads : mutexPc'[u] = "sleep") => \E u \in Threads : mutexPc[u] = "sleep"
    BY <2>2, <1>t
  <2>6. (\E u \in Threads : mutexPc[u] = "lock") => \E u \in Threads : mutexPc'[u] = "lock"
    BY <2>2, <1>t
  <2>7. SleepersLetOut'
    BY <2>2, <2>5, <2>6, <1>s, <1>c, Zenon DEF SleepersLetOut
  <2>8. QED
    BY <2>3, <2>4, <2>7 DEF CondInv
<1>2. ASSUME NEW t \in Threads, C!Lock(t) PROVE CondInv'
  <2>2. /\ mutexPc[t] = "lock" /\ owner = NoThread /\ owner' = t
        /\ mutexPc' = [mutexPc EXCEPT ![t] = IF C!Condition THEN "in" ELSE "unlock"]
        /\ UNCHANGED <<value, mutexSignalled, mutexCond>>
    BY <1>2, Zenon DEF C!Lock, C!Goto, C!syncPoint
  <2>3. OwnerInside'
    BY <2>2, <1>t, <1>n DEF OwnerInside
  <2>4. UnlocksInVain' /\ SleepersInCond'
    BY <2>2, <1>t, <1>s, <1>c DEF UnlocksInVain, SleepersInCond
  <2>7. SleepersLetOut'
    BY <2>2, <1>n, Zenon DEF SleepersLetOut
  <2>8. QED
    BY <2>3, <2>4, <2>7 DEF CondInv
<1>3. ASSUME NEW t \in Threads, C!Unlock(t) PROVE CondInv'
  <2>2. /\ mutexPc[t] = "unlock" /\ owner' = NoThread
        /\ mutexPc' = [mutexPc EXCEPT ![t] = "sleep"]
        /\ UNCHANGED <<value, mutexSignalled, mutexCond>>
    BY <1>3, Zenon DEF C!Unlock, C!Goto, C!syncPoint
  <2>3. OwnerInside'
    BY <2>2, <1>t, <1>n DEF OwnerInside
  <2>4. UnlocksInVain' /\ SleepersInCond'
    BY <2>2, <1>t, <1>s, <1>c DEF UnlocksInVain, SleepersInCond
  <2>5. ~C!Condition
    BY <2>2, <1>s DEF UnlocksInVain
  <2>7. SleepersLetOut'
    BY <2>2, <2>5, <1>c, Zenon DEF SleepersLetOut
  <2>8. QED
    BY <2>3, <2>4, <2>7 DEF CondInv
<1>4. ASSUME NEW t \in Threads, C!Sleep(t) \/ C!Spurious(t) PROVE CondInv'
  <2>1. /\ UNCHANGED <<owner, value, mutexPc, mutexSignalled>>
        /\ \/ mutexPc[t] = "sleep"
              /\ mutexCond' = [mutexCond EXCEPT ![t] = "blocked"]
           \/ mutexCond[t] = "blocked" /\ mutexCond' = [mutexCond EXCEPT ![t] = "woken"]
    BY <1>4, <1>s DEF C!Sleep, C!Spurious, C!SP!WaitBlocks, C!SP!WakeBlocks, C!SP!Moves,
       C!SP!SpuriousWake, C!SP!Blocked, C!SP!WakeUp, SleepersInCond
  <2>2. SleepersInCond'
    BY <2>1, <1>s, Zenon DEF SleepersInCond
  <2>3. OwnerInside' /\ UnlocksInVain'
    BY <2>1, <1>t, <1>s, <1>c DEF OwnerInside, UnlocksInVain
  <2>5. SleepersLetOut'
    BY <2>1, <1>s, <1>c, Zenon DEF SleepersLetOut
  <2>4. QED
    BY <2>2, <2>3, <2>5 DEF CondInv
<1>5. ASSUME NEW t \in Threads, C!WakeUp(t) PROVE CondInv'
  <2>1. /\ UNCHANGED <<owner, value>>
        /\ mutexPc[t] = "sleep" /\ mutexPc' = [mutexPc EXCEPT ![t] = "lock"]
        /\ mutexCond[t] \in {"out", "woken"} /\ mutexCond' = [mutexCond EXCEPT ![t] = "out"]
    BY <1>5, <1>s DEF C!WakeUp, C!Goto, C!SP!WaitPasses, C!SP!WakePasses, C!SP!Moves, SleepersInCond
  <2>2. SleepersInCond'
    BY <2>1, <1>s, <1>t DEF SleepersInCond
  <2>3. OwnerInside' /\ UnlocksInVain'
    BY <2>1, <1>t, <1>s, <1>c DEF OwnerInside, UnlocksInVain
  <2>4. mutexPc'[t] = "lock"
    BY <2>1, <1>t
  <2>5. SleepersLetOut'
    BY <2>4, Zenon DEF SleepersLetOut
  <2>6. QED
    BY <2>2, <2>3, <2>5 DEF CondInv
<1>6. ASSUME NEW t \in Threads, C!Assign(t) PROVE CondInv'
  <2>2. /\ mutexPc[t] = "assign" /\ owner = NoThread /\ owner' = t
        /\ mutexPc' = [mutexPc EXCEPT ![t] = "in"]
        /\ UNCHANGED <<mutexSignalled, mutexCond>>
    BY <1>6, Zenon DEF C!Assign, C!Goto, C!syncPoint
  <2>3. OwnerInside'
    BY <2>2, <1>t, <1>n DEF OwnerInside
  <2>4. UnlocksInVain' /\ SleepersInCond'
    BY <2>2, <1>t, <1>s, <1>n DEF UnlocksInVain, SleepersInCond
  <2>7. SleepersLetOut'
    BY <2>2, <1>n, Zenon DEF SleepersLetOut
  <2>8. QED
    BY <2>3, <2>4, <2>7 DEF CondInv
<1>7. ASSUME NEW t \in Threads, C!Signal(t) PROVE CondInv'
  <2>1. /\ mutexPc[t] = "in" /\ owner' = NoThread /\ UNCHANGED value
        /\ mutexPc' = [mutexPc EXCEPT ![t] = "idle"]
    BY <1>7, Zenon DEF C!Signal, C!Goto
  <2>2. \/ UNCHANGED mutexCond
        \/ \E u \in Threads : /\ mutexCond[u] = "blocked"
                             /\ mutexCond' = [mutexCond EXCEPT ![u] = "woken"]
    BY <1>7, <1>s DEF C!Signal, C!SP!Signal, C!SP!Blocked, C!SP!WakeUp, SleepersInCond, C!syncPoint
  <2>3. C!Condition => mutexSignalled'
    BY <1>7, Zenon DEF C!Signal, C!SP!Signal
  <2>4. OwnerInside' /\ UnlocksInVain'
    BY <2>1, <1>t, <1>s, <1>c, <1>n DEF OwnerInside, UnlocksInVain
  <2>5. SleepersInCond'
    BY <2>1, <2>2, <1>t, <1>s DEF SleepersInCond
  <2>6. SleepersLetOut'
    BY <2>1, <2>3, <1>c, Zenon DEF SleepersLetOut
  <2>7. QED
    BY <2>4, <2>5, <2>6 DEF CondInv
<1>8. CASE UNCHANGED C!vars
  <2>1. UNCHANGED <<owner, value, mutexSignalled, mutexCond, mutexPc>>
    BY <1>8, Zenon DEF C!vars, C!syncPoint
  <2>2. OwnerInside' /\ UnlocksInVain' /\ SleepersInCond'
    BY <2>1, <1>t, <1>s, <1>c DEF OwnerInside, UnlocksInVain, SleepersInCond
  <2>3. SleepersLetOut'
    BY <2>1, <1>s, <1>c, Zenon DEF SleepersLetOut
  <2>4. QED
    BY <2>2, <2>3 DEF CondInv
<1>9. QED
  BY <1>1, <1>2, <1>3, <1>4, <1>5, <1>6, <1>7, <1>8, Zenon DEF C!Next, C!Step

\* A set PSyncPoint is on its way to a thread when one sleeps on it, and so is the
\* mutex of a PIntCondMutex whose condition holds.
THEOREM WakeUpsReachSleepers == UseSpec /\ C!Spec => []NoWakeUpLost
<1>1. UseInit => SPTypeOK /\ NoLostWakeup
  <2> SUFFICES ASSUME UseInit PROVE SPTypeOK /\ NoLostWakeup
    OBVIOUS
  <2>1. signalled = FALSE /\ cond = [t \in Threads |-> "out"]
    BY Zenon DEF UseInit, SPInit
  <2>2. QED
    BY <2>1 DEF SPTypeOK, CondStates, NoLostWakeup
<1>2. SPTypeOK /\ NoLostWakeup /\ [UseNext]_useVars => (SPTypeOK /\ NoLostWakeup)'
  BY WokenStep
<1>3. CondInv => C!NoStrandedWaiter
  <2> SUFFICES ASSUME CondInv, C!Condition, owner = NoThread,
                      NEW t \in Threads, mutexCond[t] = "blocked"
               PROVE  \/ mutexSignalled
                      \/ \E u \in Threads : mutexPc[u] = "lock" \/ mutexCond[u] = "woken"
    BY Zenon DEF C!NoStrandedWaiter
  <2>1. mutexPc[t] = "sleep"
    BY DEF CondInv, SleepersInCond
  <2>2. QED
    BY <2>1, Zenon DEF CondInv, SleepersLetOut
<1>4. C!Init => CondInv
  BY CondInitially
<1>5. CondInv /\ [C!Next]_(C!vars) => CondInv'
  BY CondStep
<1>6. NoLostWakeup /\ C!NoStrandedWaiter => NoWakeUpLost
  BY DEF NoWakeUpLost
<1>7. QED
  BY <1>1, <1>2, <1>3, <1>4, <1>5, <1>6, PTL DEF UseSpec, C!Spec

-----------------------------------------------------------------------------
(* PSyncPointAck with one client.                                          *)

AckType ==
  /\ ackPc \in [{Client, Server} -> {"idle", "ack", "done", "wait", "working"}]
  /\ ackCond \in [{Client, Server} -> A!Ack!CondStates]
  /\ syncSignalled \in BOOLEAN /\ ackSignalled \in BOOLEAN
  /\ requests \in Nat /\ request = [c \in {Client} |-> requests]

\* Without a Signal(waitTime) the client waits for its acknowledgement untimed, and the
\* request is in one place: nowhere, in the sync point, with the server, or acknowledged.
Idle  == /\ ackPc[Client] \in {"idle", "done"} /\ ackPc[Server] = "wait"
         /\ ~syncSignalled /\ ~ackSignalled /\ acknowledged = requests
Asked == /\ ackPc[Client] = "ack" /\ ackPc[Server] = "wait"
         /\ syncSignalled /\ ~ackSignalled
Served == /\ ackPc[Client] = "ack" /\ ackPc[Server] = "working"
          /\ ~syncSignalled /\ ~ackSignalled /\ serving = requests
Acked == /\ ackPc[Client] = "ack" /\ ackPc[Server] = "wait"
         /\ ~syncSignalled /\ ackSignalled /\ acknowledged = requests

Untimed == timed = {} /\ ackCond[Client] \in {"out", "blocked", "woken"}
AckInv  == AckType /\ (~everTimed => Untimed /\ (Idle \/ Asked \/ Served \/ Acked))

LEMMA AckInitially == A!Init => AckInv
<1> SUFFICES ASSUME A!Init PROVE AckInv
  OBVIOUS
<1> USE DEF A!Parties
<1>1. /\ syncSignalled = FALSE /\ ackSignalled = FALSE /\ ackCond = [t \in A!Parties |-> "out"]
      /\ ackPc = [t \in A!Parties |-> IF t = Server THEN "wait" ELSE "idle"]
      /\ timed = {} /\ requests = 0 /\ acknowledged = 0 /\ request = [c \in {Client} |-> 0]
  BY Zenon DEF A!Init, A!Sync!SPInit, A!Ack!SPInit
<1>2. AckType
  BY <1>1 DEF AckType, A!Ack!CondStates
<1>3. Untimed /\ Idle
  BY <1>1, PartsAssumption DEF Untimed, Idle
<1>4. QED
  BY <1>2, <1>3 DEF AckInv

LEMMA AckStep == ASSUME AckInv, [A!Next]_(A!vars) PROVE AckInv'
<1> USE DEF A!Parties, A!Ack!CondStates
<1>t. AckType /\ Client # Server
  BY PartsAssumption DEF AckInv
<1>i. ~everTimed => Untimed /\ (Idle \/ Asked \/ Served \/ Acked)
  BY DEF AckInv
<1>1. CASE A!ServerWaits
  <2>1. UNCHANGED <<syncSignalled, ackSignalled, ackCond, ackPc, timed, requests, serving,
                    acknowledged, request, everTimed>>
    BY <1>1, Zenon DEF A!ServerWaits, A!Sync!WaitBlocks, A!Sync!WakeBlocks, A!ackVars, A!history
  <2>2. QED
    BY <2>1, <1>t, <1>i DEF AckInv, AckType, Untimed, Idle, Asked, Served, Acked
<1>2. CASE A!ServerWakes
  <2>1. /\ syncSignalled /\ syncSignalled' = FALSE /\ serving' = requests
        /\ ackPc[Server] = "wait" /\ ackPc' = [ackPc EXCEPT ![Server] = "working"]
        /\ UNCHANGED <<ackSignalled, ackCond, timed, requests, acknowledged, request, everTimed>>
    BY <1>2, Zenon DEF A!ServerWakes, A!Goto, A!Sync!WaitPasses, A!Sync!WakePasses, A!Sync!Consume,
       A!ackVars
  <2>2. AckType'
    BY <2>1, <1>t DEF AckType
  <2>3. ~everTimed' => Untimed' /\ Served'
    BY <2>1, <1>t, <1>i DEF AckType, Untimed, Idle, Asked, Served, Acked
  <2>4. QED
    BY <2>2, <2>3 DEF AckInv
<1>3. CASE A!Acknowledge
  <2>1. /\ ackSignalled' = TRUE /\ acknowledged' = serving
        /\ ackPc[Server] = "working" /\ ackPc' = [ackPc EXCEPT ![Server] = "wait"]
        /\ UNCHANGED <<syncSignalled, timed, requests, serving, request, everTimed>>
    BY <1>3, Zenon DEF A!Acknowledge, A!Goto, A!Ack!Signal, A!syncVars
  <2>c. \/ UNCHANGED ackCond
        \/ \E t \in {Client, Server} : /\ ackCond[t] \in {"blocked", "timedBlocked"}
              /\ ackCond' = [ackCond EXCEPT ![t] = IF @ = "blocked" THEN "woken" ELSE "timedWoken"]
    BY <1>3 DEF A!Acknowledge, A!Ack!Signal, A!Ack!Blocked, A!Ack!WakeUp
  <2>2. AckType'
    BY <2>1, <2>c, <1>t DEF AckType
  <2>3. ~everTimed => Untimed'
    BY <2>1, <2>c, <1>t, <1>i DEF AckType, Untimed
  <2>4. ~everTimed => Acked'
    BY <2>1, <1>t, <1>i DEF AckType, Idle, Asked, Served, Acked
  <2>5. QED
    BY <2>1, <2>2, <2>3, <2>4 DEF AckInv
<1>4. CASE A!Signal(Client)
  <2>1. /\ syncSignalled' = TRUE /\ requests' = requests + 1
        /\ request' = [request EXCEPT ![Client] = requests + 1]
        /\ ackPc[Client] = "idle" /\ ackPc' = [ackPc EXCEPT ![Client] = "ack"]
        /\ UNCHANGED <<ackSignalled, ackCond, serving, acknowledged>>
    BY <1>4, Zenon DEF A!Signal, A!Goto, A!Sync!Signal, A!ackVars
  <2>e. UNCHANGED <<timed, everTimed>> \/ everTimed' = TRUE
    BY <1>4, Zenon DEF A!Signal
  <2>r. requests' \in Nat /\ request' = [c \in {Client} |-> requests']
    <3>1. requests \in Nat /\ request = [c \in {Client} |-> requests]
      BY <1>t DEF AckType
    <3>2. [request EXCEPT ![Client] = requests + 1] = [c \in {Client} |-> requests + 1]
      BY <3>1
    <3>3. QED
      BY <2>1, <3>1, <3>2
  <2>p. ackPc' \in [{Client, Server} -> {"idle", "ack", "done", "wait", "working"}]
    BY <2>1, <1>t DEF AckType
  <2>2. AckType'
    BY <2>1, <2>r, <2>p, <1>t DEF AckType
  <2>3. ~everTimed' => Untimed' /\ Asked'
    BY <2>1, <2>e, <1>t, <1>i DEF AckType, Untimed, Idle, Asked, Served, Acked
  <2>4. QED
    BY <2>2, <2>3 DEF AckInv
<1>5. CASE A!ClientWaits(Client)
  <2>1. UNCHANGED <<syncSignalled, ackPc, timed, requests, serving, acknowledged, request,
                    everTimed, ackSignalled>>
    BY <1>5, Zenon DEF A!ClientWaits, A!syncVars, A!history, A!Ack!WaitBlocks,
       A!Ack!TimedWaitBlocks, A!Ack!WakeBlocks, A!Ack!Expire
  <2>2. /\ ackCond' \in [{Client, Server} -> A!Ack!CondStates]
        /\ timed = {} /\ ackCond[Client] \in {"out", "blocked", "woken"}
           => ackCond'[Client] = "blocked"
    BY <1>5, <1>t DEF A!ClientWaits, A!Ack!WaitBlocks,
       A!Ack!TimedWaitBlocks, A!Ack!WakeBlocks, A!Ack!Expire, A!Ack!Moves, AckType
  <2>3. AckType'
    BY <2>1, <2>2, <1>t DEF AckType
  <2>4. ~everTimed => Untimed'
    BY <2>1, <2>2, <1>i DEF Untimed
  <2>5. ~everTimed => (Idle \/ Asked \/ Served \/ Acked)'
    BY <2>1, <1>i DEF Idle, Asked, Served, Acked
  <2>6. QED
    BY <2>1, <2>3, <2>4, <2>5 DEF AckInv
<1>6. CASE A!ClientReturns(Client)
  <2>1. /\ ackPc[Client] = "ack"
        /\ ackPc' = [ackPc EXCEPT ![Client] = IF Client \in timed THEN "idle" ELSE "done"]
        /\ timed' = timed \ {Client}
        /\ UNCHANGED <<syncSignalled, requests, serving, acknowledged, request, everTimed>>
    BY <1>6, Zenon DEF A!ClientReturns, A!syncVars, A!history
  <2>2. /\ ackCond' = [ackCond EXCEPT ![Client] = "out"] \/ ackCond' = ackCond
        /\ ackSignalled' \in BOOLEAN
        /\ ackCond[Client] \in {"out", "blocked", "woken"} => ackSignalled /\ ~ackSignalled'
    BY <1>6, <1>t DEF A!ClientReturns, A!Ack!WaitPasses, A!Ack!WakePasses, A!Ack!TimedWakePasses,
       A!Ack!ExpireReturns, A!Ack!Moves, A!Ack!Consume, AckType
  <2>3. AckType'
    BY <2>1, <2>2, <1>t DEF AckType
  <2>4. ~everTimed => Untimed' /\ Idle'
    BY <2>1, <2>2, <1>t, <1>i DEF AckType, Untimed, Idle, Asked, Served, Acked
  <2>5. QED
    BY <2>1, <2>3, <2>4 DEF AckInv
<1>7. CASE A!ClientGoesOn(Client)
  <2>1. /\ ackPc[Client] = "done" /\ ackPc' = [ackPc EXCEPT ![Client] = "idle"]
        /\ UNCHANGED <<syncSignalled, ackSignalled, ackCond, timed, requests, serving,
                       acknowledged, request, everTimed>>
    BY <1>7, Zenon DEF A!ClientGoesOn, A!Goto, A!syncVars, A!ackVars, A!history
  <2>2. QED
    BY <2>1, <1>t, <1>i DEF AckInv, AckType, Untimed, Idle, Asked, Served, Acked
<1>8. ASSUME NEW t \in {Client, Server}, A!Spurious(t) PROVE AckInv'
  <2>1. UNCHANGED <<syncSignalled, ackSignalled, ackPc, timed, requests, serving,
                    acknowledged, request, everTimed>>
    BY <1>8, Zenon DEF A!Spurious, A!syncVars, A!ackVars, A!history, A!Sync!SpuriousWake,
       A!Ack!SpuriousWake
  <2>2. \/ UNCHANGED ackCond
        \/ /\ ackCond[t] \in {"blocked", "timedBlocked"}
           /\ ackCond' = [ackCond EXCEPT ![t] = IF @ = "blocked" THEN "woken" ELSE "timedWoken"]
    BY <1>8 DEF A!Spurious, A!ackVars, A!Ack!SpuriousWake, A!Ack!Blocked, A!Ack!WakeUp
  <2>3. AckType'
    BY <2>1, <2>2, <1>t DEF AckType
  <2>4. ~everTimed => Untimed'
    BY <2>1, <2>2, <1>t, <1>i DEF AckType, Untimed
  <2>5. ~everTimed => (Idle \/ Asked \/ Served \/ Acked)'
    BY <2>1, <1>i DEF Idle, Asked, Served, Acked
  <2>6. QED
    BY <2>1, <2>3, <2>4, <2>5 DEF AckInv
<1>9. CASE UNCHANGED A!vars
  <2>1. UNCHANGED <<syncSignalled, ackSignalled, ackCond, ackPc, timed, requests, serving,
                    acknowledged, request, everTimed>>
    BY <1>9, Zenon DEF A!vars, A!syncVars, A!ackVars, A!history
  <2>2. QED
    BY <2>1, <1>t, <1>i DEF AckInv, AckType, Untimed, Idle, Asked, Served, Acked
<1>10. QED
  BY <1>1, <1>2, <1>3, <1>4, <1>5, <1>6, <1>7, <1>8, <1>9, Zenon
     DEF A!Next, A!ServerStep, A!ClientStep

\* Signal() of PSyncPointAck comes back when its request has been acknowledged, as long
\* as its one client never called Signal(waitTime).
THEOREM SignalIsAcknowledged == A!Spec => []AcknowledgedUntilTimed
<1>1. A!Init => AckInv
  BY AckInitially
<1>2. AckInv /\ [A!Next]_(A!vars) => AckInv'
  BY AckStep
<1>3. AckInv => AcknowledgedUntilTimed
  <2> SUFFICES ASSUME AckInv, ~everTimed, NEW c \in {Client}, ackPc[c] = "done"
               PROVE  acknowledged >= request[c]
    BY Zenon DEF AcknowledgedUntilTimed, A!AcknowledgedUntilTimed, A!SignalMeansAcknowledged
  <2>1. AckType /\ acknowledged = requests
    BY DEF AckInv, Idle, Asked, Served, Acked
  <2>2. QED
    BY <2>1 DEF AckType
<1>4. QED
  BY <1>1, <1>2, <1>3, PTL DEF A!Spec

-----------------------------------------------------------------------------
(* The ring of run-time signals.                                           *)

RingType ==
  /\ m_RunTimeSignalsQueueBuffer \in [0 .. Rooms - 1 -> Nat]
  /\ m_RunTimeSignalsQueueIn \in 0 .. Rooms - 1 /\ m_RunTimeSignalsQueueOut \in 0 .. Rooms - 1
  /\ handling \in Nat /\ posted \in Nat /\ handled \in Seq(Nat) /\ overrun \in BOOLEAN

\* How far room i is from Out, and so how many signals wait when i is In.
AheadOfOut(i) == IF i >= m_RunTimeSignalsQueueOut
                 THEN i - m_RunTimeSignalsQueueOut
                 ELSE i + Rooms - m_RunTimeSignalsQueueOut
Pending == AheadOfOut(m_RunTimeSignalsQueueIn)

\* The signals that were taken out: all that are handled, and the one that is being.
Taken == IF handling = 0 THEN Len(handled) ELSE Len(handled) + 1

\* What was taken is the first that came, and what waits is the rest, in its order.
InTheirOrder ==
  /\ posted = Taken + Pending
  /\ handling # 0 => handling = Taken
  /\ \A n \in 1 .. Len(handled) : handled[n] = n
  /\ \A i \in 0 .. Rooms - 1 :
        AheadOfOut(i) < Pending => m_RunTimeSignalsQueueBuffer[i] = Taken + 1 + AheadOfOut(i)

RingInv == RingType /\ (~overrun => InTheirOrder)

LEMMA RoomAfter ==
  ASSUME NEW i \in 0 .. Rooms - 1
  PROVE  S!Following(i) = IF i = Rooms - 1 THEN 0 ELSE i + 1
<1>1. Rooms \in Nat \ {0}
  BY PartsAssumption DEF S!SizeAssumption
<1>2. QED
  BY <1>1 DEF S!Following

\* A signal that arrives in a room that is not the last of the free ones.
LEMMA SignalArrives ==
  ASSUME RingInv, S!InternalPostRunTimeSignal
  PROVE  RingInv'
<1>r. Rooms \in Nat \ {0}
  BY PartsAssumption DEF S!SizeAssumption
<1>1. /\ posted' = posted + 1
      /\ m_RunTimeSignalsQueueBuffer' =
           [m_RunTimeSignalsQueueBuffer EXCEPT ![m_RunTimeSignalsQueueIn] = posted + 1]
      /\ m_RunTimeSignalsQueueIn' =
           IF m_RunTimeSignalsQueueIn = Rooms - 1 THEN 0 ELSE m_RunTimeSignalsQueueIn + 1
      /\ UNCHANGED <<m_RunTimeSignalsQueueOut, handling, handled>>
  BY RoomAfter DEF S!InternalPostRunTimeSignal, RingInv, RingType
<1>2. /\ overrun' \in BOOLEAN
      /\ ~overrun' => ~overrun /\ m_RunTimeSignalsQueueIn' # m_RunTimeSignalsQueueOut
  BY DEF S!InternalPostRunTimeSignal, RingInv, RingType
<1>3. RingType'
  BY <1>1, <1>2, <1>r DEF RingInv, RingType
<1>4. ASSUME ~overrun' PROVE InTheirOrder'
  <2>1. RingType /\ InTheirOrder /\ m_RunTimeSignalsQueueIn' # m_RunTimeSignalsQueueOut
    BY <1>2, <1>4 DEF RingInv
  <2>2. Taken' = Taken /\ Taken \in Nat
    BY <1>1, <2>1 DEF Taken, RingType
  <2>3. Pending' = Pending + 1 /\ Pending \in Nat
    BY <1>1, <2>1, <1>r DEF Pending, AheadOfOut, RingType
  <2>4. posted' = Taken' + Pending' /\ (handling' # 0 => handling' = Taken')
    BY <1>1, <2>1, <2>2, <2>3 DEF InTheirOrder, RingType
  <2>5. \A n \in 1 .. Len(handled') : handled'[n] = n
    BY <1>1, <2>1 DEF InTheirOrder
  <2>6. ASSUME NEW i \in 0 .. Rooms - 1, AheadOfOut(i)' < Pending'
        PROVE  m_RunTimeSignalsQueueBuffer'[i] = Taken' + 1 + AheadOfOut(i)'
    <3>1. AheadOfOut(i)' = AheadOfOut(i) /\ AheadOfOut(i) \in Nat
      BY <1>1, <2>1, <1>r DEF AheadOfOut, RingType
    <3>2. CASE i = m_RunTimeSignalsQueueIn
      <4>1. m_RunTimeSignalsQueueBuffer'[i] = posted + 1
        BY <1>1, <2>1, <3>2 DEF RingType
      <4>2. AheadOfOut(i) = Pending /\ posted = Taken + Pending
        BY <2>1, <3>2 DEF Pending, InTheirOrder
      <4>3. QED
        BY <4>1, <4>2, <3>1, <2>2, <2>3
    <3>3. CASE i # m_RunTimeSignalsQueueIn
      <4>1. m_RunTimeSignalsQueueBuffer'[i] = m_RunTimeSignalsQueueBuffer[i]
        BY <1>1, <2>1, <3>3 DEF RingType
      <4>2. AheadOfOut(i) # Pending
        BY <2>1, <3>3, <1>r DEF Pending, AheadOfOut, RingType
      <4>3. AheadOfOut(i) < Pending
        BY <4>2, <2>3, <2>6, <3>1
      <4>4. m_RunTimeSignalsQueueBuffer[i] = Taken + 1 + AheadOfOut(i)
        BY <4>3, <2>1 DEF InTheirOrder
      <4>5. QED
        BY <4>1, <4>4, <2>2, <3>1
    <3>4. QED
      BY <3>2, <3>3
  <2>7. QED
    BY <2>4, <2>5, <2>6 DEF InTheirOrder
<1>5. QED
  BY <1>3, <1>4 DEF RingInv

LEMMA SignalTaken ==
  ASSUME RingInv, S!TakeSignal
  PROVE  RingInv'
<1>r. Rooms \in Nat \ {0}
  BY PartsAssumption DEF S!SizeAssumption
<1>1. /\ handling = 0 /\ m_RunTimeSignalsQueueIn # m_RunTimeSignalsQueueOut
      /\ handling' = m_RunTimeSignalsQueueBuffer[m_RunTimeSignalsQueueOut]
      /\ m_RunTimeSignalsQueueOut' =
           IF m_RunTimeSignalsQueueOut = Rooms - 1 THEN 0 ELSE m_RunTimeSignalsQueueOut + 1
      /\ UNCHANGED <<m_RunTimeSignalsQueueBuffer, m_RunTimeSignalsQueueIn, posted, handled,
                     overrun>>
  BY RoomAfter DEF S!TakeSignal, RingInv, RingType
<1>2. RingType'
  BY <1>1, <1>r DEF RingInv, RingType
<1>3. ASSUME ~overrun' PROVE InTheirOrder'
  <2>1. RingType /\ InTheirOrder
    BY <1>1, <1>3 DEF RingInv
  <2>2. AheadOfOut(m_RunTimeSignalsQueueOut) = 0 /\ Pending \in Nat \ {0} /\ Taken = Len(handled)
    BY <1>1, <2>1, <1>r DEF AheadOfOut, Pending, RingType, Taken
  <2>3. handling' = Len(handled) + 1
    BY <1>1, <2>1, <2>2 DEF InTheirOrder, RingType
  <2>4. Taken' = Taken + 1 /\ Taken \in Nat
    BY <1>1, <2>1, <2>2, <2>3 DEF Taken, RingType
  <2>5. \A i \in 0 .. Rooms - 1 : i # m_RunTimeSignalsQueueOut =>
           AheadOfOut(i)' = AheadOfOut(i) - 1 /\ AheadOfOut(i) \in Nat
    BY <1>1, <2>1, <1>r DEF AheadOfOut, RingType
  <2>6. Pending' = Pending - 1
    BY <1>1, <2>1, <2>5 DEF Pending, AheadOfOut, RingType
  <2>7. posted' = Taken' + Pending' /\ (handling' # 0 => handling' = Taken')
    BY <1>1, <2>1, <2>2, <2>3, <2>4, <2>6 DEF InTheirOrder, RingType
  <2>8. \A n \in 1 .. Len(handled') : handled'[n] = n
    BY <1>1, <2>1 DEF InTheirOrder
  <2>9. ASSUME NEW i \in 0 .. Rooms - 1, AheadOfOut(i)' < Pending'
        PROVE  m_RunTimeSignalsQueueBuffer'[i] = Taken' + 1 + AheadOfOut(i)'
    <3>1. CASE i = m_RunTimeSignalsQueueOut
      <4>1. AheadOfOut(i)' = Rooms - 1
        BY <1>1, <2>1, <3>1, <1>r DEF AheadOfOut, RingType
      <4>2. Pending' \in 0 .. Rooms - 1
        BY <1>1, <2>1, <1>r, <1>2 DEF AheadOfOut, RingType, Pending
      <4>3. QED
        BY <4>1, <4>2, <2>9, <1>r
    <3>2. CASE i # m_RunTimeSignalsQueueOut
      <4>1. AheadOfOut(i)' = AheadOfOut(i) - 1 /\ AheadOfOut(i) \in Nat
        BY <2>5, <3>2
      <4>2. AheadOfOut(i) < Pending
        BY <4>1, <2>6, <2>9, <2>2
      <4>3. m_RunTimeSignalsQueueBuffer[i] = Taken + 1 + AheadOfOut(i)
        BY <4>2, <2>1 DEF InTheirOrder
      <4>4. QED
        BY <4>1, <4>3, <1>1, <2>4
    <3>3. QED
      BY <3>1, <3>2
  <2>10. QED
    BY <2>7, <2>8, <2>9 DEF InTheirOrder
<1>4. QED
  BY <1>2, <1>3 DEF RingInv

LEMMA SignalHandled ==
  ASSUME RingInv, S!InternalHandleRunTimeSignal
  PROVE  RingInv'
<1>1. /\ handling # 0 /\ handled' = Append(handled, handling) /\ handling' = 0
      /\ UNCHANGED <<m_RunTimeSignalsQueueBuffer, m_RunTimeSignalsQueueIn,
                     m_RunTimeSignalsQueueOut, posted, overrun>>
  BY Zenon DEF S!InternalHandleRunTimeSignal, S!ring
<1>2. RingType'
  BY <1>1 DEF RingInv, RingType
<1>3. ASSUME ~overrun' PROVE InTheirOrder'
  <2>1. RingType /\ InTheirOrder
    BY <1>1, <1>3 DEF RingInv
  <2>2. Len(handled') = Len(handled) + 1 /\ Len(handled) \in Nat
    BY <1>1, <2>1 DEF RingType
  <2>3. Taken' = Taken /\ Taken = Len(handled) + 1 /\ handling = Taken
    BY <1>1, <2>1, <2>2 DEF Taken, InTheirOrder
  <2>4. Pending' = Pending /\ \A i \in 0 .. Rooms - 1 : AheadOfOut(i)' = AheadOfOut(i)
    BY <1>1 DEF Pending, AheadOfOut
  <2>5. ASSUME NEW n \in 1 .. Len(handled') PROVE handled'[n] = n
    BY <1>1, <2>1, <2>2, <2>3 DEF InTheirOrder, RingType
  <2>6. QED
    BY <1>1, <2>1, <2>3, <2>4, <2>5 DEF InTheirOrder
<1>4. QED
  BY <1>2, <1>3 DEF RingInv

LEMMA RingInitially == S!RSInit => RingInv
<1> SUFFICES ASSUME S!RSInit PROVE RingInv
  OBVIOUS
<1>r. Rooms \in Nat \ {0}
  BY PartsAssumption DEF S!SizeAssumption
<1>0. /\ m_RunTimeSignalsQueueBuffer = [i \in 0 .. Rooms - 1 |-> 0]
      /\ m_RunTimeSignalsQueueIn = 0 /\ m_RunTimeSignalsQueueOut = 0
      /\ handling = 0 /\ posted = 0 /\ handled = << >> /\ overrun = FALSE
  BY Zenon DEF S!RSInit
<1>1. RingType
  <2>1. m_RunTimeSignalsQueueBuffer \in [0 .. Rooms - 1 -> Nat] /\ 0 \in 0 .. Rooms - 1
    BY <1>0, <1>r
  <2>e. << >> \in Seq(Nat)
    OBVIOUS
  <2>2. handled \in Seq(Nat) /\ overrun \in BOOLEAN
    BY <1>0, <2>e
  <2>3. QED
    BY <1>0, <2>1, <2>2 DEF RingType
<1>2. Taken = 0 /\ Pending = 0 /\ \A i \in 0 .. Rooms - 1 : AheadOfOut(i) = i
  BY <1>0, <1>r DEF Taken, Pending, AheadOfOut
<1>3. InTheirOrder
  BY <1>0, <1>2 DEF InTheirOrder
<1>4. QED
  BY <1>1, <1>3 DEF RingInv

LEMMA RingStep == ASSUME RingInv, [S!RSNext]_(S!ringVars) PROVE RingInv'
<1>1. CASE UNCHANGED S!ringVars
  <2>1. UNCHANGED <<m_RunTimeSignalsQueueBuffer, m_RunTimeSignalsQueueIn,
                    m_RunTimeSignalsQueueOut, handling, posted, handled, overrun>>
    BY <1>1, Zenon DEF S!ringVars, S!ring
  <2>2. RingType' /\ Taken' = Taken /\ Pending' = Pending
        /\ \A i \in 0 .. Rooms - 1 : AheadOfOut(i)' = AheadOfOut(i)
    BY <2>1 DEF RingInv, RingType, Taken, Pending, AheadOfOut
  <2>3. QED
    BY <2>1, <2>2 DEF RingInv, InTheirOrder
<1>2. QED
  BY <1>1, SignalArrives, SignalTaken, SignalHandled DEF S!RSNext

-----------------------------------------------------------------------------
(* The queues of asynchronous notifications.                               *)

\* What was called and what is queued are all the callbacks there were, in their order;
\* once the target is gone only what was called counts.
CallbacksOf(o) ==
  /\ queue[o] \in Seq(Nat) /\ asyncCalled[o] \in Seq(Nat)
  /\ \A n \in 1 .. Len(asyncCalled[o]) : asyncCalled[o][n] = n
  /\ notifierPc[o] = "executing" => queue[o] # << >>
  /\ notifierPc[o] # "destroyed" =>
       /\ asyncPosted[o] = Len(asyncCalled[o]) + Len(queue[o])
       /\ \A n \in 1 .. Len(queue[o]) : queue[o][n] = Len(asyncCalled[o]) + n

NotifierType ==
  /\ notifierPc \in [Notifying \cup N!Targets ->
       {"idle", "queueing", "exists", "inGet", "executing", "destroying", "destroyed"}]
  /\ DOMAIN queue = AsyncTargets /\ queue = [o \in AsyncTargets |-> queue[o]]
  /\ asyncPosted \in [AsyncTargets -> Nat]
  /\ asyncCalled = [o \in AsyncTargets |-> asyncCalled[o]]

NotifierInv == NotifierType /\ \A o \in AsyncTargets : CallbacksOf(o)

\* What Queue and Call do to the target they are about.
PutLast(o)  == /\ queue'[o] = Append(queue[o], asyncPosted[o] + 1)
               /\ asyncPosted'[o] = asyncPosted[o] + 1 /\ asyncCalled'[o] = asyncCalled[o]
CallFirst(o) == /\ queue'[o] = Tail(queue[o]) /\ asyncPosted'[o] = asyncPosted[o]
                /\ asyncCalled'[o] = Append(asyncCalled[o], Head(queue[o]))

LEMMA CallbackQueued ==
  ASSUME NotifierType, NEW o \in AsyncTargets, CallbacksOf(o), PutLast(o),
         notifierPc'[o] # "destroyed" => notifierPc[o] # "destroyed",
         notifierPc'[o] = "executing" => notifierPc[o] = "executing"
  PROVE  CallbacksOf(o)'
<1>1. /\ queue[o] \in Seq(Nat) /\ asyncCalled[o] \in Seq(Nat) /\ asyncPosted[o] + 1 \in Nat
      /\ Len(queue[o]) \in Nat /\ Len(asyncCalled[o]) \in Nat
      /\ \A n \in 1 .. Len(asyncCalled[o]) : asyncCalled[o][n] = n
  BY DEF CallbacksOf, NotifierType
<1>2. /\ queue'[o] \in Seq(Nat) /\ Len(queue'[o]) = Len(queue[o]) + 1
      /\ queue'[o] # << >>
      /\ \A n \in 1 .. Len(queue[o]) : queue'[o][n] = queue[o][n]
      /\ queue'[o][Len(queue[o]) + 1] = asyncPosted[o] + 1
  <2> DEFINE post == asyncPosted[o] + 1   line == queue[o]   longer == queue'[o]
  <2>1. line \in Seq(Nat) /\ post \in Nat /\ longer = Append(line, post)
    BY <1>1 DEF PutLast
  <2> HIDE DEF post, line, longer
  <2>2. /\ longer \in Seq(Nat) /\ Len(longer) = Len(line) + 1 /\ longer # << >>
        /\ \A n \in 1 .. Len(line) : longer[n] = line[n]
        /\ longer[Len(line) + 1] = post
    BY <2>1
  <2>3. QED
    BY <2>2 DEF post, line, longer
<1>3. ASSUME notifierPc[o] # "destroyed"
      PROVE  /\ asyncPosted'[o] = Len(asyncCalled'[o]) + Len(queue'[o])
             /\ \A n \in 1 .. Len(queue'[o]) : queue'[o][n] = Len(asyncCalled'[o]) + n
  <2>1. /\ asyncPosted[o] = Len(asyncCalled[o]) + Len(queue[o])
        /\ \A n \in 1 .. Len(queue[o]) : queue[o][n] = Len(asyncCalled[o]) + n
    BY <1>3 DEF CallbacksOf
  <2> DEFINE k == Len(queue[o])   j == Len(asyncCalled[o])   p == asyncPosted[o]
  <2>2. /\ k \in Nat /\ j \in Nat /\ p = j + k /\ Len(queue'[o]) = k + 1
        /\ \A n \in 1 .. k : queue'[o][n] = j + n
        /\ queue'[o][k + 1] = p + 1
    BY <1>1, <1>2, <2>1
  <2>3. asyncPosted'[o] = p + 1 /\ Len(asyncCalled'[o]) = j
    BY DEF PutLast
  <2> HIDE DEF k, j, p
  <2>4. asyncPosted'[o] = Len(asyncCalled'[o]) + Len(queue'[o])
    BY <2>2, <2>3
  <2>5. ASSUME NEW n \in 1 .. k + 1 PROVE queue'[o][n] = j + n
    BY <2>2
  <2>6. QED
    BY <2>2, <2>3, <2>4, <2>5
<1>4. asyncCalled'[o] = asyncCalled[o]
  BY DEF PutLast
<1>5. QED
  BY <1>1, <1>2, <1>3, <1>4 DEF CallbacksOf

LEMMA CallbackCalled ==
  ASSUME NEW o \in AsyncTargets, CallbacksOf(o), CallFirst(o),
         notifierPc[o] = "executing", notifierPc'[o] = "idle"
  PROVE  CallbacksOf(o)'
<1>1. /\ queue[o] \in Seq(Nat) /\ asyncCalled[o] \in Seq(Nat) /\ queue[o] # << >>
      /\ asyncPosted[o] = Len(asyncCalled[o]) + Len(queue[o])
      /\ \A n \in 1 .. Len(queue[o]) : queue[o][n] = Len(asyncCalled[o]) + n
      /\ \A n \in 1 .. Len(asyncCalled[o]) : asyncCalled[o][n] = n
  BY DEF CallbacksOf
<1>2. /\ queue'[o] \in Seq(Nat) /\ Len(queue'[o]) = Len(queue[o]) - 1 /\ Len(queue[o]) >= 1
      /\ \A n \in 1 .. Len(queue'[o]) : queue'[o][n] = queue[o][n + 1]
  <2> DEFINE line == queue[o]   rest == queue'[o]
  <2>1. line \in Seq(Nat) /\ line # << >> /\ rest = Tail(line)
    BY <1>1 DEF CallFirst
  <2> HIDE DEF line, rest
  <2>2. /\ rest \in Seq(Nat) /\ Len(rest) = Len(line) - 1 /\ Len(line) >= 1
        /\ \A n \in 1 .. Len(rest) : rest[n] = line[n + 1]
    BY <2>1
  <2>3. QED
    BY <2>2 DEF line, rest
<1>3. Head(queue[o]) = Len(asyncCalled[o]) + 1
  BY <1>1, <1>2
<1>4. /\ asyncCalled'[o] \in Seq(Nat) /\ Len(asyncCalled'[o]) = Len(asyncCalled[o]) + 1
      /\ \A n \in 1 .. Len(asyncCalled[o]) : asyncCalled'[o][n] = asyncCalled[o][n]
      /\ asyncCalled'[o][Len(asyncCalled[o]) + 1] = Len(asyncCalled[o]) + 1
  BY <1>1, <1>3 DEF CallFirst
<1>5. ASSUME NEW n \in 1 .. Len(asyncCalled'[o]) PROVE asyncCalled'[o][n] = n
  <2>1. CASE n \in 1 .. Len(asyncCalled[o])
    BY <1>1, <1>4, <2>1
  <2>2. CASE n = Len(asyncCalled[o]) + 1
    BY <1>4, <2>2
  <2>3. QED
    <3>1. Len(asyncCalled[o]) \in Nat /\ n \in 1 .. Len(asyncCalled[o]) + 1
      BY <1>1, <1>4, <1>5
    <3>2. QED
      BY <3>1, <2>1, <2>2
<1>6. asyncPosted'[o] = Len(asyncCalled'[o]) + Len(queue'[o])
  <2> DEFINE k == Len(queue[o])   j == Len(asyncCalled[o])
  <2>1. /\ k \in Nat /\ j \in Nat /\ asyncPosted[o] = j + k
        /\ Len(queue'[o]) = k - 1 /\ Len(asyncCalled'[o]) = j + 1
        /\ asyncPosted'[o] = asyncPosted[o]
    BY <1>1, <1>2, <1>4 DEF CallFirst
  <2> HIDE DEF k, j
  <2>2. QED
    BY <2>1
<1>7. ASSUME NEW n \in 1 .. Len(queue'[o]) PROVE queue'[o][n] = Len(asyncCalled'[o]) + n
  BY <1>1, <1>2, <1>4
<1>8. QED
  BY <1>2, <1>4, <1>5, <1>6, <1>7 DEF CallbacksOf

\* A step that leaves the callbacks of a target alone, and its thread where the queue is
\* as it should be.
LEMMA CallbacksStay ==
  ASSUME NEW o \in AsyncTargets, CallbacksOf(o),
         UNCHANGED <<queue[o], asyncPosted[o], asyncCalled[o]>>,
         notifierPc'[o] # "destroyed" => notifierPc[o] # "destroyed",
         notifierPc'[o] = "executing" => notifierPc[o] = "executing" \/ queue[o] # << >>
  PROVE  CallbacksOf(o)'
<1>1. queue'[o] = queue[o] /\ asyncPosted'[o] = asyncPosted[o] /\ asyncCalled'[o] = asyncCalled[o]
  OBVIOUS
<1>2. QED
  BY <1>1 DEF CallbacksOf

\* When a target goes, so does its queue.
LEMMA CallbacksForgotten ==
  ASSUME NEW o \in AsyncTargets, CallbacksOf(o), notifierPc'[o] = "destroyed",
         queue'[o] = << >>, asyncCalled'[o] = asyncCalled[o]
  PROVE  CallbacksOf(o)'
BY DEF CallbacksOf

LEMMA NotifierInitially == N!NotifierInit => NotifierInv
<1> SUFFICES ASSUME N!NotifierInit PROVE NotifierInv
  OBVIOUS
<1>1. /\ queue = [o \in AsyncTargets |-> << >>]
      /\ notifierPc = [p \in Notifying \cup N!Targets |-> "idle"]
      /\ asyncPosted = [o \in AsyncTargets |-> 0]
      /\ asyncCalled = [o \in AsyncTargets |-> << >>]
  BY Zenon DEF N!NotifierInit
<1>2. NotifierType
  BY <1>1 DEF NotifierType
<1>3. ASSUME NEW o \in AsyncTargets PROVE CallbacksOf(o)
  BY <1>1, <1>3 DEF CallbacksOf, N!Targets
<1>4. QED
  BY <1>2, <1>3 DEF NotifierInv

LEMMA NotifierStep == ASSUME NotifierInv, [N!NotifierNext]_(N!notifierVars) PROVE NotifierInv'
<1> DEFINE PCs == {"idle", "queueing", "exists", "inGet", "executing", "destroying", "destroyed"}
<1>t. /\ NotifierType /\ \A o \in AsyncTargets : CallbacksOf(o)
      /\ notifierPc \in [Notifying \cup N!Targets -> PCs] /\ AsyncTargets \subseteq N!Targets
  BY DEF NotifierInv, NotifierType, N!Targets
<1> HIDE DEF PCs
<1>g. ASSUME NEW p \in Notifying \cup N!Targets, NEW from \in PCs, NEW to \in PCs, N!At(p, from, to)
      PROVE  /\ notifierPc' \in [Notifying \cup N!Targets -> PCs]
             /\ notifierPc[p] = from /\ notifierPc'[p] = to
             /\ \A q \in N!Targets \ {p} : notifierPc'[q] = notifierPc[q]
  BY <1>g, <1>t DEF N!At
\* The steps that move nothing but a program counter, and never to or from the end.
<1>m. ASSUME NEW p \in Notifying \cup N!Targets,
             NEW from \in PCs \ {"destroyed"}, NEW to \in PCs \ {"destroyed"}, N!At(p, from, to),
             to = "executing" /\ p \in AsyncTargets => queue[p] # << >>,
             UNCHANGED <<queue, asyncPosted, asyncCalled>>
      PROVE  NotifierInv'
  <2>1. /\ notifierPc' \in [Notifying \cup N!Targets -> PCs]
        /\ notifierPc[p] = from /\ notifierPc'[p] = to
        /\ \A q \in N!Targets \ {p} : notifierPc'[q] = notifierPc[q]
    BY <1>m, <1>g
  <2>2. NotifierType'
    BY <1>m, <2>1, <1>t DEF NotifierType, PCs
  <2>3. ASSUME NEW o \in AsyncTargets PROVE CallbacksOf(o)'
    <3>1. UNCHANGED <<queue[o], asyncPosted[o], asyncCalled[o]>>
      BY <1>m
    <3>2. /\ notifierPc'[o] # "destroyed" => notifierPc[o] # "destroyed"
          /\ notifierPc'[o] = "executing" => notifierPc[o] = "executing" \/ queue[o] # << >>
      <4>1. CASE o = p
        BY <1>m, <2>1, <4>1
      <4>2. CASE o # p
        BY <2>1, <4>2, <1>t
      <4>3. QED
        BY <4>1, <4>2
    <3>3. QED
      BY <3>1, <3>2, <1>t, CallbacksStay
  <2>4. QED
    BY <2>2, <2>3 DEF NotifierInv
<1>1. ASSUME NEW c \in Notifying, NEW o \in N!Targets, N!CallAsync(c, o) \/ N!CallValidated(c, o)
      PROVE  NotifierInv'
  <2>1. \E to \in {"queueing", "exists"} : N!At(c, "idle", to)
    BY <1>1, Zenon DEF N!CallAsync, N!CallValidated
  <2>2. UNCHANGED <<queue, asyncPosted, asyncCalled>>
    BY <1>1, Zenon DEF N!CallAsync, N!CallValidated
  <2>3. QED
    BY <2>1, <2>2, <1>m DEF PCs
<1>2. ASSUME NEW c \in Notifying, N!Queue(c) PROVE NotifierInv'
  <2>1. N!At(c, "queueing", "idle")
    BY <1>2, Zenon DEF N!Queue
  <2>2. CASE subject[c] \notin inUse
    <3>1. UNCHANGED <<queue, asyncPosted, asyncCalled>>
      BY <1>2, <2>2, Zenon DEF N!Queue
    <3>2. QED
      BY <2>1, <3>1, <1>m DEF PCs
  <2>3. CASE subject[c] \in inUse
    <3> DEFINE s == subject[c]
    <3>1. /\ asyncPosted' = [asyncPosted EXCEPT ![s] = @ + 1]
          /\ queue' = [queue EXCEPT ![s] = Append(@, asyncPosted'[s])]
          /\ UNCHANGED asyncCalled
      BY <1>2, <2>3, Zenon DEF N!Queue
    <3>2. /\ notifierPc' \in [Notifying \cup N!Targets -> PCs]
          /\ notifierPc[c] = "queueing" /\ notifierPc'[c] = "idle"
          /\ \A q \in N!Targets \ {c} : notifierPc'[q] = notifierPc[q]
      BY <2>1, <1>g DEF PCs
    <3> HIDE DEF s
    <3>p. asyncPosted' \in [AsyncTargets -> Nat]
      <4>1. asyncPosted \in [AsyncTargets -> Nat]
        BY <1>t DEF NotifierType
      <4>2. asyncPosted' = [asyncPosted EXCEPT ![s] = @ + 1]
        BY <3>1
      <4>3. \A o \in AsyncTargets : asyncPosted[o] \in Nat /\ asyncPosted[o] + 1 \in Nat
        BY <4>1
      <4>4. QED
        BY <4>1, <4>2, <4>3, Zenon
    <3>q. DOMAIN queue' = AsyncTargets /\ queue' = [o \in AsyncTargets |-> queue'[o]]
      BY <3>1, <1>t DEF NotifierType
    <3>3. NotifierType'
      BY <3>1, <3>2, <3>p, <3>q, <1>t, Zenon DEF NotifierType, PCs
    <3>4. ASSUME NEW o \in AsyncTargets PROVE CallbacksOf(o)'
      <4>1. CASE o # s
        <5>1. UNCHANGED <<queue[o], asyncPosted[o], asyncCalled[o]>>
          BY <3>1, <4>1, <1>t DEF NotifierType
        <5>2. /\ notifierPc'[o] # "destroyed" => notifierPc[o] # "destroyed"
              /\ notifierPc'[o] = "executing" => notifierPc[o] = "executing"
          BY <3>2, <1>t
        <5>3. QED
          BY <5>1, <5>2, <1>t, CallbacksStay
      <4>2. CASE o = s
        <5>1. asyncPosted'[o] = asyncPosted[o] + 1 /\ asyncCalled'[o] = asyncCalled[o]
          BY <3>1, <4>2, <1>t DEF NotifierType
        <5>2. PutLast(o)
          BY <3>1, <4>2, <5>1, <1>t DEF NotifierType, PutLast
        <5>3. CASE o = c
          <6>1. CallbacksOf(o) /\ notifierPc[o] = "queueing" /\ notifierPc'[o] = "idle"
            BY <3>2, <5>3, <1>t
          <6>2. QED
            BY <6>1, <5>2, <1>t, CallbackQueued
        <5>4. CASE o # c
          BY <5>2, <5>4, <3>2, <1>t, CallbackQueued
        <5>5. QED
          BY <5>3, <5>4
      <4>3. QED
        BY <4>1, <4>2
    <3>5. QED
      BY <3>3, <3>4 DEF NotifierInv
  <2>4. QED
    BY <2>2, <2>3
<1>3. ASSUME NEW c \in Notifying, N!TargetCalled(c) PROVE NotifierInv'
  <2>1. N!At(c, "exists", "idle") /\ UNCHANGED <<queue, asyncPosted, asyncCalled>>
    BY <1>3, Zenon DEF N!TargetCalled
  <2>2. QED
    BY <2>1, <1>m DEF PCs
<1>4. ASSUME NEW o \in AsyncTargets, NEW w \in BOOLEAN, N!Execute(o, w) PROVE NotifierInv'
  <2>1. N!At(o, "idle", "inGet") /\ UNCHANGED <<queue, asyncPosted, asyncCalled>>
    BY <1>4, Zenon DEF N!Execute
  <2>2. QED
    BY <2>1, <1>m, <1>t DEF PCs
<1>5. ASSUME NEW o \in AsyncTargets, N!GetCallback(o) PROVE NotifierInv'
  <2>1. N!At(o, "inGet", "executing") /\ UNCHANGED <<queue, asyncPosted, asyncCalled>>
        /\ queue[o] # << >>
    BY <1>5, Zenon DEF N!GetCallback
  <2>2. QED
    BY <2>1, <1>m, <1>t DEF PCs
<1>6. ASSUME NEW o \in AsyncTargets, N!NoCallback(o) PROVE NotifierInv'
  <2>1. N!At(o, "inGet", "idle") /\ UNCHANGED <<queue, asyncPosted, asyncCalled>>
    BY <1>6, Zenon DEF N!NoCallback
  <2>2. QED
    BY <2>1, <1>m, <1>t DEF PCs
<1>7. ASSUME NEW p \in AsyncTargets, N!Call(p) PROVE NotifierInv'
  <2>1. /\ N!At(p, "executing", "idle") /\ UNCHANGED asyncPosted
        /\ asyncCalled' = [asyncCalled EXCEPT ![p] = Append(@, Head(queue[p]))]
        /\ queue' = [queue EXCEPT ![p] = Tail(@)]
    BY <1>7, Zenon DEF N!Call
  <2>2. /\ notifierPc' \in [Notifying \cup N!Targets -> PCs]
        /\ notifierPc[p] = "executing" /\ notifierPc'[p] = "idle"
        /\ \A q \in N!Targets \ {p} : notifierPc'[q] = notifierPc[q]
    BY <2>1, <1>g, <1>t DEF PCs
  <2>3. NotifierType'
    BY <2>1, <2>2, <1>t DEF NotifierType, PCs
  <2>4. ASSUME NEW o \in AsyncTargets PROVE CallbacksOf(o)'
    <3>1. CASE o = p
      <4>1. CallFirst(o)
        BY <2>1, <3>1, <1>t DEF NotifierType, CallFirst
      <4>2. QED
        BY <4>1, <2>2, <3>1, <1>t, CallbackCalled
    <3>2. CASE o # p
      <4>1. UNCHANGED <<queue[o], asyncPosted[o], asyncCalled[o]>>
        BY <2>1, <3>2, <1>t DEF NotifierType
      <4>2. QED
        BY <4>1, <2>2, <3>2, <1>t, CallbacksStay
    <3>3. QED
      BY <3>1, <3>2
  <2>5. QED
    BY <2>3, <2>4 DEF NotifierInv
<1>8. ASSUME NEW p \in N!Targets, N!Destroy(p) PROVE NotifierInv'
  <2>1. N!At(p, "idle", "destroying") /\ UNCHANGED <<queue, asyncPosted, asyncCalled>>
    BY <1>8, Zenon DEF N!Destroy
  <2>2. QED
    BY <2>1, <1>m DEF PCs
<1>9. ASSUME NEW p \in N!Targets, N!RemoveTarget(p) PROVE NotifierInv'
  <2>1. /\ N!At(p, "destroying", "destroyed") /\ UNCHANGED <<asyncPosted, asyncCalled>>
        /\ queue' = [q \in AsyncTargets |-> IF q = p THEN << >> ELSE queue[q]]
    BY <1>9, Zenon DEF N!RemoveTarget
  <2>2. /\ notifierPc' \in [Notifying \cup N!Targets -> PCs]
        /\ notifierPc[p] = "destroying" /\ notifierPc'[p] = "destroyed"
        /\ \A q \in N!Targets \ {p} : notifierPc'[q] = notifierPc[q]
    BY <2>1, <1>g DEF PCs
  <2>3. NotifierType'
    BY <2>1, <2>2, <1>t DEF NotifierType, PCs
  <2>4. ASSUME NEW o \in AsyncTargets PROVE CallbacksOf(o)'
    <3>1. CASE o = p
      BY <2>1, <2>2, <3>1, <1>t, CallbacksForgotten
    <3>2. CASE o # p
      <4>1. UNCHANGED <<queue[o], asyncPosted[o], asyncCalled[o]>>
        BY <2>1, <3>2
      <4>2. QED
        BY <4>1, <2>2, <3>2, <1>t, CallbacksStay
    <3>3. QED
      BY <3>1, <3>2
  <2>5. QED
    BY <2>3, <2>4 DEF NotifierInv
<1>10. CASE UNCHANGED N!notifierVars
  <2>1. UNCHANGED <<queue, asyncPosted, asyncCalled, notifierPc>>
    BY <1>10, Zenon DEF N!notifierVars
  <2>2. QED
    BY <2>1 DEF NotifierInv, NotifierType, CallbacksOf
<1>11. QED
  BY <1>1, <1>2, <1>3, <1>4, <1>5, <1>6, <1>7, <1>8, <1>9, <1>10, Zenon
     DEF N!NotifierNext, N!TargetStep

\* Run-time signals are handled, and asynchronous notifications called, once each and in
\* their order, whatever the sizes of the ring and the queues and whoever gives them.
THEOREM DeliveredOnceInOrder ==
  S!RSInit /\ [][S!RSNext]_(S!ringVars) /\ N!NotifierSpec => []DeliveredInOrder
<1>1. RingInv => S!HandledInOrder
  <2> SUFFICES ASSUME RingInv, ~overrun
               PROVE  /\ Len(handled) <= posted
                      /\ \A n \in DOMAIN handled : handled[n] = n
                      /\ (m_RunTimeSignalsQueueIn = m_RunTimeSignalsQueueOut /\ handling = 0)
                         => Len(handled) = posted
    BY Zenon DEF S!HandledInOrder
  <2>1. RingType /\ InTheirOrder
    BY DEF RingInv
  <2>2. Rooms \in Nat
    BY PartsAssumption DEF S!SizeAssumption
  <2>3. Pending \in Nat /\ (m_RunTimeSignalsQueueIn = m_RunTimeSignalsQueueOut => Pending = 0)
    BY <2>1, <2>2 DEF Pending, AheadOfOut, RingType
  <2>4. DOMAIN handled = 1 .. Len(handled) /\ Len(handled) \in Nat
    BY <2>1 DEF RingType
  <2>5. posted = Taken + Pending /\ Taken \in {Len(handled), Len(handled) + 1}
        /\ (handling = 0 => Taken = Len(handled))
    BY <2>1 DEF InTheirOrder, Taken
  <2>6. \A n \in DOMAIN handled : handled[n] = n
    BY <2>1, <2>4 DEF InTheirOrder
  <2>7. QED
    BY <2>3, <2>4, <2>5, <2>6
<1>2. NotifierInv => N!CallbacksInOrder
  <2> SUFFICES ASSUME NotifierInv, NEW o \in AsyncTargets
               PROVE  /\ \A n \in DOMAIN asyncCalled[o] : asyncCalled[o][n] = n
                      /\ notifierPc[o] # "destroyed"
                         => Len(asyncCalled[o]) + Len(queue[o]) = asyncPosted[o]
    BY Zenon DEF N!CallbacksInOrder
  <2>1. CallbacksOf(o)
    BY DEF NotifierInv
  <2>2. DOMAIN asyncCalled[o] = 1 .. Len(asyncCalled[o])
    BY <2>1 DEF CallbacksOf
  <2>3. QED
    BY <2>1, <2>2 DEF CallbacksOf
<1>3. RingInv /\ [S!RSNext]_(S!ringVars) => RingInv'
  BY RingStep
<1>4. NotifierInv /\ [N!NotifierNext]_(N!notifierVars) => NotifierInv'
  BY NotifierStep
<1>5. S!HandledInOrder /\ N!CallbacksInOrder => DeliveredInOrder
  BY DEF DeliveredInOrder
<1>6. QED
  BY <1>1, <1>2, <1>3, <1>4, <1>5, RingInitially, NotifierInitially, PTL DEF N!NotifierSpec

-----------------------------------------------------------------------------
(* Reference counted contents.                                             *)

SharerPCs == {"idle", "dividing", "cloning", "writing"}

ContentsType ==
  /\ reference \in [O!Instances -> O!References \cup {None}]
  /\ m_theArray \in [O!Instances -> O!References \cup {None}]
  /\ count \in [O!References -> Nat] /\ references \in O!References
  /\ freed \subseteq 1 .. references
  /\ sharerPc \in [Sharers -> SharerPCs]
  /\ dividing \in [Sharers -> O!Instances \cup {None}]
  /\ raced \in BOOLEAN

\* Who divides an instance divides one of its own, and one that has contents.
DividesOwn ==
  \A t \in Sharers : sharerPc[t] # "idle" =>
     dividing[t] \in O!Of(t) /\ reference[dividing[t]] # None

\* A count is the number of instances that refer.
Refs(r) == {i \in O!Instances : reference[i] = r}
Counted == \A r \in O!References : count[r] = Cardinality(Refs(r))

\* An instance points to the contents of its reference, except between the two halves
\* of MakeUnique, and nothing refers or points to what has not been made.
Cloned(i) == \E t \in Sharers : sharerPc[t] = "cloning" /\ dividing[t] = i
PointsToOwn ==
  \A i \in O!Instances :
     /\ Cloned(i) \/ m_theArray[i] = reference[i]
     /\ reference[i] # None => reference[i] <= references
     /\ m_theArray[i] # None => m_theArray[i] <= references
     /\ Cloned(i) => m_theArray[i] # None

\* No other instance has anything to do with the reference of this one.
Alone(i) == \A j \in O!Instances \ {i} : reference[j] # reference[i] /\ m_theArray[j] # reference[i]
CloningAlone == \A t \in Sharers : sharerPc[t] = "cloning" => Alone(dividing[t])

\* What is true only while no count was touched behind the back of a thread that
\* divides: contents that are to be copied are still there, and those that are
\* changed nobody shares.
NotDisturbed ==
  /\ \A t \in Sharers : sharerPc[t] = "dividing" => count[reference[dividing[t]]] >= 2
  /\ \A t \in Sharers : sharerPc[t] = "cloning" => count[m_theArray[dividing[t]]] >= 1
  /\ \A t \in Sharers : sharerPc[t] = "writing" => Alone(dividing[t])
  /\ \A i \in O!Instances : reference[i] # None => reference[i] \notin freed
  /\ \A r \in 1 .. references : r \in freed \/ Refs(r) # {}

ContentsBase == ContentsType /\ DividesOwn /\ Counted /\ PointsToOwn /\ CloningAlone
ContentsInv  == ContentsBase /\ (~raced => NotDisturbed)

-----------------------------------------------------------------------------
\* The instances with number n, one of every thread.
Numbered(n) == {<<t, n>> : t \in Sharers}

LEMMA SharersFacts ==
  /\ IsFiniteSet(Sharers) /\ Sharers # {}
  /\ MaxReferences \in Nat \ {0} /\ None \notin O!References
BY PartsAssumption DEF O!SharersAssumption, O!IsFiniteSet, IsFiniteSet, O!References

LEMMA NumberedFinite ==
  ASSUME NEW n
  PROVE  IsFiniteSet(Numbered(n)) /\ Cardinality(Numbered(n)) = Cardinality(Sharers)
<1> DEFINE f == [t \in Sharers |-> <<t, n>>]
<1>1. f \in Bijection(Sharers, Numbered(n))
  <2>1. f \in [Sharers -> Numbered(n)]
    BY DEF Numbered
  <2>2. \A a, b \in Sharers : f[a] = f[b] => a = b
    OBVIOUS
  <2>3. \A y \in Numbered(n) : \E t \in Sharers : f[t] = y
    BY DEF Numbered
  <2>4. QED
    BY <2>1, <2>2, <2>3, Zenon DEF Bijection, Injection, Surjection, IsInjective
<1>2. ExistsBijection(Sharers, Numbered(n))
  BY <1>1, Zenon DEF ExistsBijection
<1>3. QED
  BY <1>2, SharersFacts, FS_Bijection

LEMMA InstancesFinite == IsFiniteSet(O!Instances)
<1>1. O!Instances = Numbered(1) \cup Numbered(2)
  BY DEF O!Instances, Numbered
<1>2. QED
  BY <1>1, NumberedFinite, FS_Union

LEMMA RefsFinite == \A r : IsFiniteSet(Refs(r))
<1>1. ASSUME NEW r PROVE IsFiniteSet(Refs(r))
  <2>1. Refs(r) \in SUBSET O!Instances
    BY DEF Refs
  <2>2. QED
    BY <2>1, InstancesFinite, FS_Subset, Zenon
<1>2. QED
  BY <1>1

\* What the count of a reference says.
LEMMA CountMeans ==
  ASSUME Counted, NEW r \in O!References
  PROVE  /\ count[r] \in Nat
         /\ count[r] >= 1 <=> Refs(r) # {}
         /\ \A i \in Refs(r) : count[r] = 1 => Refs(r) = {i}
<1>1. IsFiniteSet(Refs(r)) /\ count[r] = Cardinality(Refs(r))
  BY RefsFinite DEF Counted
<1>2. Cardinality(Refs(r)) \in Nat
  BY <1>1, FS_CardinalityType
<1>3. Cardinality(Refs(r)) = 0 <=> Refs(r) = {}
  BY <1>1, FS_EmptySet
<1>4. ASSUME NEW i \in Refs(r), Cardinality(Refs(r)) = 1 PROVE Refs(r) = {i}
  <2>1. PICK x : Refs(r) = {x}
    BY <1>1, <1>4, FS_Singleton
  <2>2. QED
    BY <2>1
<1>5. QED
  BY <1>1, <1>2, <1>3, <1>4

LEMMA CountIsNatAfter ==
  ASSUME Counted', NEW r \in O!References
  PROVE  count'[r] \in Nat
<1>1. Refs(r)' \in SUBSET O!Instances
  BY DEF Refs
<1>2. IsFiniteSet(Refs(r)')
  BY <1>1, InstancesFinite, FS_Subset, Zenon
<1>3. count'[r] = Cardinality(Refs(r)')
  BY DEF Counted
<1>4. QED
  BY <1>2, <1>3, FS_CardinalityType

LEMMA CountMeansAfter ==
  ASSUME Counted', NEW r \in O!References, count'[r] >= 1
  PROVE  Refs(r)' # {}
<1> SUFFICES ASSUME Refs(r)' = {} PROVE FALSE
  OBVIOUS
<1>1. count'[r] = Cardinality({})
  BY DEF Counted
<1>2. QED
  BY <1>1, FS_EmptySet

\* When one instance changes its reference, the counts follow.
CountsFollow(i, v) ==
  \A r \in O!References :
     count'[r] = IF r = v THEN count[r] + 1
                 ELSE IF r = reference[i] THEN count[r] - 1 ELSE count[r]

LEMMA Recounted ==
  ASSUME ContentsType, Counted, NEW i \in O!Instances, NEW v, v # reference[i],
         reference' = [reference EXCEPT ![i] = v], CountsFollow(i, v)
  PROVE  Counted'
<1> USE DEF CountsFollow
<1> SUFFICES ASSUME NEW r \in O!References PROVE count'[r] = Cardinality(Refs(r)')
  BY DEF Counted
<1>1. Refs(r)' = IF r = v THEN Refs(r) \cup {i} ELSE Refs(r) \ {i}
  BY DEF Refs, ContentsType
<1>2. i \in Refs(r) <=> r = reference[i]
  BY DEF Refs
<1>3. /\ IsFiniteSet(Refs(r)) /\ count[r] = Cardinality(Refs(r)) /\ Cardinality(Refs(r)) \in Nat
      /\ Cardinality(Refs(r) \cup {i}) =
            IF i \in Refs(r) THEN Cardinality(Refs(r)) ELSE Cardinality(Refs(r)) + 1
      /\ Cardinality(Refs(r) \ {i}) =
            IF i \in Refs(r) THEN Cardinality(Refs(r)) - 1 ELSE Cardinality(Refs(r))
  BY RefsFinite, FS_CardinalityType, FS_AddElement, FS_RemoveElement DEF Counted
<1>4. CASE r = v
  BY <1>1, <1>2, <1>3, <1>4
<1>5. CASE r # v
  BY <1>1, <1>2, <1>3, <1>5
<1>6. QED
  BY <1>4, <1>5

LEMMA ContentsInitially == O!ContainerInit => ContentsInv
<1> SUFFICES ASSUME O!ContainerInit PROVE ContentsInv
  OBVIOUS
<1> USE SharersFacts
<1>c. O!Cardinality(Sharers) = Cardinality(Sharers)
  BY DEF O!Cardinality, Cardinality
<1>1. /\ reference = [i \in O!Instances |-> IF i[2] = 1 THEN 1 ELSE None]
      /\ m_theArray = reference
      /\ count = [r \in O!References |-> IF r = 1 THEN Cardinality(Sharers) ELSE 0]
      /\ references = 1 /\ freed = {} /\ sharerPc = [t \in Sharers |-> "idle"]
      /\ dividing = [t \in Sharers |-> None] /\ raced = FALSE
  BY <1>c, Zenon DEF O!ContainerInit
<1>2. 1 \in O!References /\ Cardinality(Sharers) \in Nat
  BY FS_CardinalityType DEF O!References
<1>3. ContentsType
  BY <1>1, <1>2 DEF ContentsType, SharerPCs
<1>4. DividesOwn /\ CloningAlone
  BY <1>1 DEF DividesOwn, CloningAlone
<1>5. Refs(1) = Numbered(1)
  BY <1>1, <1>2 DEF Refs, Numbered, O!Instances
<1>6. Counted
  <2> SUFFICES ASSUME NEW r \in O!References PROVE count[r] = Cardinality(Refs(r))
    BY DEF Counted
  <2>1. CASE r = 1
    BY <1>1, <1>5, <2>1, NumberedFinite
  <2>2. CASE r # 1
    <3>1. Refs(r) = {}
      BY <1>1, <2>2 DEF Refs
    <3>2. QED
      BY <1>1, <2>2, <3>1, FS_EmptySet
  <2>3. QED
    BY <2>1, <2>2
<1>7. PointsToOwn
  BY <1>1 DEF PointsToOwn, Cloned
<1>8. Refs(1) # {}
  BY <1>5 DEF Numbered
<1>9. NotDisturbed
  BY <1>1, <1>8 DEF NotDisturbed
<1>10. QED
  BY <1>3, <1>4, <1>6, <1>7, <1>9 DEF ContentsInv, ContentsBase

\* What the constructors, the assignment and the destructor of an instance i of a thread
\* that is not in MakeUnique do: the instance now refers and points to v.
Rewired(t, i, v) ==
  /\ sharerPc[t] = "idle" /\ i \in O!Of(t) /\ v # reference[i]
  /\ UNCHANGED <<sharerPc, dividing>>
  /\ reference' = [reference EXCEPT ![i] = v] /\ m_theArray' = [m_theArray EXCEPT ![i] = v]
  /\ count' \in [O!References -> Int] /\ CountsFollow(i, v)
  /\ freed' = freed \cup (IF reference[i] # None /\ count[reference[i]] = 1
                         THEN {m_theArray[i]} ELSE {})
  /\ raced' \in BOOLEAN /\ (raced => raced')

\* No other thread divides or clones r: what Counts records.
Undisturbed(t, r) ==
  \A u \in Sharers \ {t} : /\ ~(sharerPc[u] = "dividing" /\ reference[dividing[u]] = r)
                           /\ ~(sharerPc[u] = "cloning" /\ m_theArray[dividing[u]] = r)

\* What it may refer to: nothing, a new reference, or that of another instance of the thread.
Available(t, v) ==
  \/ v = None /\ UNCHANGED references
  \/ v = references + 1 /\ references' = v /\ v \in O!References
  \/ UNCHANGED references /\ v # None /\ \E j \in O!Of(t) : reference[j] = v

LEMMA RewireStep ==
  ASSUME ContentsInv, NEW t \in Sharers, NEW i, NEW v, Rewired(t, i, v), Available(t, v),
         reference[i] # None /\ ~raced' => Undisturbed(t, reference[i])
  PROVE  ContentsInv'
<1> USE SharersFacts
<1>b. ContentsType /\ DividesOwn /\ Counted /\ PointsToOwn /\ CloningAlone
  BY DEF ContentsInv, ContentsBase
<1>w. /\ sharerPc[t] = "idle" /\ v # reference[i] /\ sharerPc' = sharerPc /\ dividing' = dividing
      /\ reference' = [reference EXCEPT ![i] = v] /\ m_theArray' = [m_theArray EXCEPT ![i] = v]
      /\ i \in O!Instances /\ i[1] = t
  BY DEF Rewired, O!Of
<1>o. \A u \in Sharers : sharerPc[u] # "idle" =>
         /\ u # t /\ dividing[u] \in O!Instances /\ dividing[u] # i /\ reference[dividing[u]] # None
  BY <1>b, <1>w DEF DividesOwn, O!Of
<1>i. ~Cloned(i) /\ m_theArray[i] = reference[i]
  BY <1>b, <1>w, <1>o DEF Cloned, PointsToOwn
<1>j. \A j \in O!Of(t) : j \in O!Instances /\ ~Cloned(j) /\ m_theArray[j] = reference[j]
  BY <1>b, <1>w DEF Cloned, PointsToOwn, DividesOwn, O!Of
<1>r. references \in Nat /\ references' \in O!References /\ references' >= references
  BY <1>b DEF Available, ContentsType, O!References
<1>v. /\ v \in O!References \cup {None}
      /\ v # None => v <= references'
      /\ \/ v = references + 1 /\ references' = v
         \/ v = None
         \/ \E j \in O!Of(t) : reference[j] = v
  <2>1. CASE \E j \in O!Of(t) : reference[j] = v
    BY <1>b, <1>j, <1>r, <2>1 DEF ContentsType, PointsToOwn, Available
  <2>2. CASE ~\E j \in O!Of(t) : reference[j] = v
    BY <1>b, <1>r, <2>2 DEF ContentsType, Available
  <2>3. QED
    BY <2>1, <2>2
<1>1. Counted'
  <2>1. CountsFollow(i, v)
    BY DEF Rewired
  <2>2. QED
    BY <1>b, <1>w, <2>1, Recounted
<1>f. freed' \subseteq freed \cup (IF reference[i] # None /\ count[reference[i]] = 1
                                 THEN {reference[i]} ELSE {})
      /\ freed \subseteq freed'
      /\ (reference[i] # None /\ count[reference[i]] = 1 => reference[i] \in freed')
  BY <1>i DEF Rewired
<1>2. ContentsType'
  <2>1. count' \in [O!References -> Nat]
    <3>1. ASSUME NEW r \in O!References PROVE count'[r] \in Nat
      BY <1>1, CountIsNatAfter
    <3>2. QED
      BY <3>1 DEF Rewired
  <2>2. freed' \subseteq 1 .. references'
    BY <1>b, <1>f, <1>r, <1>w DEF ContentsType, PointsToOwn, O!References
  <2>3. reference' \in [O!Instances -> O!References \cup {None}]
        /\ m_theArray' \in [O!Instances -> O!References \cup {None}]
    BY <1>b, <1>w, <1>v DEF ContentsType
  <2>4. QED
    BY <1>b, <1>w, <1>r, <2>1, <2>2, <2>3 DEF ContentsType, Rewired
<1>3. DividesOwn'
  BY <1>b, <1>w, <1>o DEF DividesOwn, ContentsType, O!Of
<1>4. PointsToOwn'
  <2> SUFFICES ASSUME NEW j \in O!Instances
               PROVE  /\ Cloned(j)' \/ m_theArray'[j] = reference'[j]
                      /\ reference'[j] # None => reference'[j] <= references'
                      /\ m_theArray'[j] # None => m_theArray'[j] <= references'
                      /\ Cloned(j)' => m_theArray'[j] # None
    BY DEF PointsToOwn
  <2>1. Cloned(j)' <=> Cloned(j)
    BY <1>w DEF Cloned
  <2>2. CASE j = i
    BY <2>1, <2>2, <1>i, <1>w, <1>v, <1>b DEF ContentsType
  <2>3. CASE j # i
    <3>1. reference'[j] = reference[j] /\ m_theArray'[j] = m_theArray[j]
      BY <2>3, <1>w, <1>b DEF ContentsType
    <3>2. /\ Cloned(j) \/ m_theArray[j] = reference[j]
          /\ reference[j] # None => reference[j] <= references
          /\ m_theArray[j] # None => m_theArray[j] <= references
          /\ Cloned(j) => m_theArray[j] # None
          /\ reference[j] # None => reference[j] \in Nat
          /\ m_theArray[j] # None => m_theArray[j] \in Nat
      BY <1>b DEF PointsToOwn, ContentsType, O!References
    <3>3. references' \in Nat
      BY <1>r DEF O!References
    <3>4. QED
      BY <2>1, <3>1, <3>2, <3>3, <1>r
  <2>4. QED
    BY <2>2, <2>3
\* A thread in MakeUnique that was alone with its contents stays so.
<1>a. ASSUME NEW u \in Sharers, sharerPc[u] # "idle", Alone(dividing[u]) PROVE Alone(dividing[u])'
  <2>1. /\ dividing'[u] = dividing[u] /\ dividing[u] # i /\ dividing[u] \in O!Instances
        /\ u # t /\ reference'[dividing[u]] = reference[dividing[u]]
        /\ reference[dividing[u]] # None
    BY <1>a, <1>o, <1>w, <1>b DEF ContentsType
  <2>2. reference[dividing[u]] \in Nat /\ reference[dividing[u]] <= references
    BY <2>1, <1>b DEF PointsToOwn, ContentsType, O!References
  <2>3. v # reference[dividing[u]]
    <3>1. CASE v = references + 1 \/ v = None
      BY <2>1, <2>2, <3>1, <1>r
    <3>2. CASE \E j \in O!Of(t) : reference[j] = v
      <4>1. PICK j \in O!Of(t) : reference[j] = v
        BY <3>2
      <4>2. j # dividing[u] /\ j \in O!Instances
        BY <1>b, <1>a, <2>1 DEF DividesOwn, O!Of
      <4>3. QED
        BY <4>1, <4>2, <1>a DEF Alone
    <3>3. QED
      BY <3>1, <3>2, <1>v
  <2>4. ASSUME NEW j \in O!Instances \ {dividing[u]}
        PROVE  reference'[j] # reference[dividing[u]] /\ m_theArray'[j] # reference[dividing[u]]
    <3>1. CASE j = i
      BY <2>3, <3>1, <1>w, <1>b DEF ContentsType
    <3>2. CASE j # i
      BY <2>4, <3>2, <1>a, <1>w, <1>b DEF ContentsType, Alone
    <3>3. QED
      BY <3>1, <3>2
  <2>5. QED
    BY <2>1, <2>4 DEF Alone
<1>5. CloningAlone'
  BY <1>a, <1>b, <1>w DEF CloningAlone
<1>6. ASSUME ~raced' PROVE NotDisturbed'
  <2>1. NotDisturbed /\ ~raced
    BY <1>6 DEF ContentsInv, Rewired
  <2>u. reference[i] # None => Undisturbed(t, reference[i])
    BY <1>6
  <2>c. \A r \in O!References : r # reference[i] => count'[r] >= count[r] /\ count[r] \in Nat
    BY <1>b DEF Rewired, CountsFollow, ContentsType
  <2>2. ASSUME NEW u \in Sharers, sharerPc[u] = "dividing"
        PROVE  count'[reference'[dividing'[u]]] >= 2
    <3>1. /\ u # t /\ dividing[u] \in O!Instances /\ dividing'[u] = dividing[u]
          /\ reference'[dividing[u]] = reference[dividing[u]]
          /\ reference[dividing[u]] \in O!References
      BY <2>2, <1>o, <1>w, <1>b DEF ContentsType
    <3>2. reference[dividing[u]] # reference[i]
      BY <2>2, <2>u, <3>1 DEF Undisturbed
    <3>3. count[reference[dividing[u]]] >= 2
      BY <2>1, <2>2 DEF NotDisturbed
    <3>4. count'[reference[dividing[u]]] \in Int
      BY <3>1 DEF Rewired
    <3>5. QED
      BY <2>c, <3>1, <3>2, <3>3, <3>4
  <2>3. ASSUME NEW u \in Sharers, sharerPc[u] = "cloning"
        PROVE  count'[m_theArray'[dividing'[u]]] >= 1
    <3>1. /\ u # t /\ dividing[u] \in O!Instances /\ dividing'[u] = dividing[u]
          /\ m_theArray'[dividing[u]] = m_theArray[dividing[u]]
      BY <2>3, <1>o, <1>w, <1>b DEF ContentsType
    <3>2. m_theArray[dividing[u]] \in O!References
      BY <2>3, <3>1, <1>b DEF PointsToOwn, Cloned, ContentsType
    <3>3. m_theArray[dividing[u]] # reference[i]
      BY <2>3, <2>u, <3>1, <3>2 DEF Undisturbed
    <3>4. count[m_theArray[dividing[u]]] >= 1
      BY <2>1, <2>3 DEF NotDisturbed
    <3>5. count'[m_theArray[dividing[u]]] \in Int
      BY <3>2 DEF Rewired
    <3>6. QED
      BY <2>c, <3>1, <3>2, <3>3, <3>4, <3>5
  <2>4. ASSUME NEW u \in Sharers, sharerPc[u] = "writing" PROVE Alone(dividing[u])'
    BY <2>1, <2>4, <1>a DEF NotDisturbed
  <2>5. ASSUME NEW j \in O!Instances, reference'[j] # None PROVE reference'[j] \notin freed'
    <3>1. reference'[j] \notin freed
      <4>1. CASE j # i
        BY <2>1, <2>5, <4>1, <1>w, <1>b DEF NotDisturbed, ContentsType
      <4>2. CASE j = i
        <5>1. reference'[j] = v
          BY <4>2, <1>w, <1>b DEF ContentsType
        <5>2. CASE v = references + 1
          BY <5>1, <5>2, <1>b, <1>r DEF ContentsType
        <5>3. CASE \E k \in O!Of(t) : reference[k] = v
          BY <2>1, <2>5, <5>1, <5>3, <1>j DEF NotDisturbed
        <5>4. QED
          BY <2>5, <5>1, <5>2, <5>3, <1>v
      <4>3. QED
        BY <4>1, <4>2
    <3>2. ASSUME reference[i] # None, count[reference[i]] = 1 PROVE reference'[j] # reference[i]
      <4>1. reference[i] \in O!References /\ i \in Refs(reference[i])
        BY <3>2, <1>b, <1>w DEF ContentsType, Refs
      <4>2. Refs(reference[i]) = {i}
        BY <3>2, <4>1, <1>b, CountMeans
      <4>3. QED
        BY <4>2, <1>w, <1>b DEF ContentsType, Refs
    <3>3. QED
      BY <3>1, <3>2, <1>f
  <2>6. ASSUME NEW r \in 1 .. references' PROVE r \in freed' \/ Refs(r)' # {}
    <3>r. r \in O!References
      BY <1>r DEF O!References
    <3>1. CASE r = v
      BY <3>1, <1>w, <1>b DEF ContentsType, Refs
    <3>2. CASE r # v
      <4>1. r \in 1 .. references
        BY <3>2, <2>6, <1>r DEF Available
      <4>2. r \in freed \/ count[r] >= 1
        BY <4>1, <2>1, <3>r, <1>b, CountMeans DEF NotDisturbed
      <4>3. CASE r = reference[i]
        <5>1. count'[r] = count[r] - 1 /\ count[r] \in Nat /\ r # None
          BY <3>2, <3>r, <4>3, <1>b DEF Rewired, CountsFollow, ContentsType
        <5>2. count[r] = 1 => r \in freed'
          BY <4>3, <5>1, <1>f
        <5>3. count[r] # 1 => r \in freed \/ count'[r] >= 1
          BY <4>2, <5>1
        <5>4. count'[r] >= 1 => Refs(r)' # {}
          BY <3>r, <1>1, CountMeansAfter
        <5>5. QED
          BY <5>2, <5>3, <5>4, <1>f
      <4>4. CASE r # reference[i]
        <5>1. count'[r] = count[r]
          BY <3>2, <3>r, <4>4 DEF Rewired, CountsFollow
        <5>2. count'[r] >= 1 => Refs(r)' # {}
          BY <3>r, <1>1, CountMeansAfter
        <5>3. QED
          BY <4>2, <5>1, <5>2, <1>f
      <4>5. QED
        BY <4>3, <4>4
    <3>3. QED
      BY <3>1, <3>2
  <2>7. QED
    BY <2>2, <2>3, <2>4, <2>5, <2>6, <1>w DEF NotDisturbed
<1>7. QED
  BY <1>1, <1>2, <1>3, <1>4, <1>5, <1>6 DEF ContentsInv, ContentsBase

LEMMA TestStep ==
  ASSUME ContentsInv, NEW t \in Sharers, NEW i \in O!Of(t), O!MakeUnique(t, i)
  PROVE  ContentsInv'
<1> USE SharersFacts
<1>b. ContentsType /\ DividesOwn /\ Counted /\ PointsToOwn /\ CloningAlone
  BY DEF ContentsInv, ContentsBase
<1>w. /\ reference[i] # None /\ sharerPc[t] = "idle"
      /\ sharerPc' = [sharerPc EXCEPT ![t] = IF count[reference[i]] = 1 THEN "writing"
                                                                     ELSE "dividing"]
      /\ dividing' = [dividing EXCEPT ![t] = i]
      /\ UNCHANGED <<reference, m_theArray, count, references, freed>>
  BY Zenon DEF O!MakeUnique, O!Goto, O!contentsVars
<1>d. /\ raced' \in BOOLEAN /\ (raced => raced')
      /\ ~raced' => Undisturbed(t, reference[i])
  BY <1>b DEF O!MakeUnique, O!Counts, Undisturbed, ContentsType
<1>p. /\ sharerPc'[t] \in {"writing", "dividing"} /\ dividing'[t] = i
      /\ \A u \in Sharers \ {t} : sharerPc'[u] = sharerPc[u] /\ dividing'[u] = dividing[u]
      /\ i \in O!Instances /\ i[1] = t
  BY <1>w, <1>b DEF ContentsType, O!Of
<1>1. ContentsType'
  BY <1>b, <1>w, <1>d, <1>p DEF ContentsType, SharerPCs
<1>2. DividesOwn' /\ Counted'
  BY <1>b, <1>w, <1>p DEF DividesOwn, Counted, O!Of, Refs
<1>3. PointsToOwn' /\ CloningAlone'
  <2>1. \A u \in Sharers : sharerPc'[u] = "cloning" <=> sharerPc[u] = "cloning"
    BY <1>w, <1>p
  <2>2. \A u \in Sharers : sharerPc[u] = "cloning" => dividing'[u] = dividing[u]
    BY <1>w, <1>p
  <2>3. \A j \in O!Instances : Cloned(j)' <=> Cloned(j)
    BY <2>1, <2>2 DEF Cloned
  <2>4. PointsToOwn'
    BY <2>3, <1>b, <1>w DEF PointsToOwn
  <2>5. CloningAlone'
    BY <2>1, <2>2, <1>b, <1>w DEF CloningAlone, Alone
  <2>6. QED
    BY <2>4, <2>5
<1>4. ASSUME ~raced' PROVE NotDisturbed'
  <2>1. NotDisturbed /\ Undisturbed(t, reference[i])
    BY <1>4, <1>d DEF ContentsInv
  <2>r. reference[i] \in O!References /\ i \in Refs(reference[i])
    BY <1>b, <1>w, <1>p DEF ContentsType, Refs
  <2>2. ASSUME NEW u \in Sharers, sharerPc'[u] = "dividing"
        PROVE  count'[reference'[dividing'[u]]] >= 2
    <3>1. CASE u = t
      <4>1. count[reference[i]] # 1 /\ count[reference[i]] >= 1 /\ count[reference[i]] \in Nat
        BY <2>2, <3>1, <1>w, <1>b, <2>r, CountMeans DEF ContentsType
      <4>2. QED
        BY <3>1, <4>1, <1>w, <1>p
    <3>2. CASE u # t
      BY <2>1, <2>2, <3>2, <1>w, <1>p DEF NotDisturbed
    <3>3. QED
      BY <3>1, <3>2
  <2>3. ASSUME NEW u \in Sharers, sharerPc'[u] = "cloning"
        PROVE  count'[m_theArray'[dividing'[u]]] >= 1
    BY <2>1, <2>3, <1>w, <1>p DEF NotDisturbed
  <2>4. ASSUME NEW u \in Sharers, sharerPc'[u] = "writing" PROVE Alone(dividing[u])'
    <3>1. CASE u # t
      BY <2>1, <2>4, <3>1, <1>w, <1>p DEF NotDisturbed, Alone
    <3>2. CASE u = t
      <4>1. Refs(reference[i]) = {i}
        BY <2>4, <3>2, <1>w, <1>b, <2>r, CountMeans DEF ContentsType
      <4>2. ASSUME NEW j \in O!Instances \ {i}
            PROVE  reference[j] # reference[i] /\ m_theArray[j] # reference[i]
        <5>1. reference[j] # reference[i]
          BY <4>1, <4>2 DEF Refs
        <5>2. CASE m_theArray[j] = reference[j]
          BY <5>1, <5>2
        <5>3. CASE Cloned(j)
          <6>1. PICK u1 \in Sharers : sharerPc[u1] = "cloning" /\ dividing[u1] = j
            BY <5>3 DEF Cloned
          <6>2. u1 # t
            BY <6>1, <1>w
          <6>3. QED
            BY <6>1, <6>2, <5>1, <2>1 DEF Undisturbed
        <5>4. QED
          BY <4>2, <5>1, <5>2, <5>3, <1>b DEF PointsToOwn
      <4>3. QED
        BY <3>2, <4>2, <1>w, <1>p DEF Alone
    <3>3. QED
      BY <3>1, <3>2
  <2>5. /\ \A j \in O!Instances : reference'[j] # None => reference'[j] \notin freed'
        /\ \A r \in 1 .. references' : r \in freed' \/ Refs(r)' # {}
    BY <2>1, <1>w DEF NotDisturbed, Refs
  <2>6. QED
    BY <2>2, <2>3, <2>4, <2>5 DEF NotDisturbed
<1>5. QED
  BY <1>1, <1>2, <1>3, <1>4 DEF ContentsInv, ContentsBase

LEMMA DivideStep ==
  ASSUME ContentsInv, NEW t \in Sharers, O!Divide(t)
  PROVE  ContentsInv'
<1> USE SharersFacts
<1>e. PICK i, old, new : i = dividing[t] /\ old = reference[i] /\ new = references + 1
  OBVIOUS
<1>b. ContentsType /\ DividesOwn /\ Counted /\ PointsToOwn /\ CloningAlone
  BY DEF ContentsInv, ContentsBase
<1>w. /\ sharerPc[t] = "dividing" /\ sharerPc' = [sharerPc EXCEPT ![t] = "cloning"]
      /\ references < MaxReferences /\ references' = new
      /\ reference' = [reference EXCEPT ![i] = new]
      /\ count' = [count EXCEPT ![new] = 1, ![old] = @ - 1]
      /\ UNCHANGED <<m_theArray, freed, dividing>>
  BY <1>e DEF O!Divide, O!Goto
<1>d. /\ raced' \in BOOLEAN /\ (raced => raced')
      /\ ~raced' => Undisturbed(t, old)
  BY <1>b, <1>e DEF O!Divide, O!Counts, Undisturbed, ContentsType
<1>i. i \in O!Instances /\ i \in O!Of(t) /\ old # None /\ old \in O!References
  BY <1>b, <1>w, <1>e DEF DividesOwn, ContentsType, O!Of
<1>n. /\ new \in O!References /\ new \in Nat /\ references \in Nat /\ new # None /\ old # new
      /\ \A j \in O!Instances : reference[j] # new /\ m_theArray[j] # new
      /\ new \notin freed
  <2>1. references \in Nat /\ new \in O!References /\ new \in Nat /\ new # None
    BY <1>b, <1>w, <1>e DEF ContentsType, O!References
  <2>2. new \notin freed
    BY <2>1, <1>b, <1>e DEF ContentsType
  <2>3. ASSUME NEW j \in O!Instances PROVE reference[j] # new /\ m_theArray[j] # new
    <3>1. /\ reference[j] # None => reference[j] <= references
          /\ m_theArray[j] # None => m_theArray[j] <= references
      BY <1>b DEF PointsToOwn
    <3>2. ~(new <= references)
      BY <2>1, <1>e
    <3>3. QED
      BY <3>1, <3>2, <2>1
  <2>4. QED
    BY <2>1, <2>2, <2>3, <1>i, <1>e
<1>o. \A u \in Sharers \ {t} : sharerPc[u] # "idle" =>
         dividing[u] \in O!Instances /\ dividing[u] # i /\ reference[dividing[u]] # None
  BY <1>b, <1>i, <1>e DEF DividesOwn, O!Of
<1>m. m_theArray[i] = old /\ ~Cloned(i)
  BY <1>b, <1>w, <1>o, <1>i, <1>e DEF Cloned, PointsToOwn
<1>p. /\ sharerPc'[t] = "cloning" /\ dividing[t] = i /\ reference'[i] = new
      /\ \A u \in Sharers \ {t} : sharerPc'[u] = sharerPc[u]
      /\ \A j \in O!Instances \ {i} : reference'[j] = reference[j]
  BY <1>w, <1>i, <1>b, <1>e DEF ContentsType
<1>z. Refs(new) = {} /\ count[new] = 0
  <2>1. Refs(new) = {}
    BY <1>n DEF Refs
  <2>2. QED
    BY <2>1, <1>n, <1>b, FS_EmptySet DEF Counted
<1>c. \A r \in O!References :
         count'[r] = IF r = new THEN count[r] + 1 ELSE IF r = old THEN count[r] - 1 ELSE count[r]
  BY <1>w, <1>z, <1>n, <1>i, <1>b DEF ContentsType
<1>1. Counted'
  <2>1. CountsFollow(i, new) /\ new # reference[i]
    BY <1>c, <1>e, <1>n DEF CountsFollow
  <2>2. QED
    BY <1>b, <1>i, <1>w, <2>1, Recounted
<1>2. ContentsType'
  <2>1. count' \in [O!References -> Nat]
    <3>1. \A r \in O!References : count'[r] \in Nat
      BY <1>1, CountIsNatAfter
    <3>2. DOMAIN count' = O!References /\ count' = [r \in O!References |-> count'[r]]
      BY <1>w, <1>b DEF ContentsType
    <3>3. QED
      BY <3>1, <3>2
  <2>2. freed' \subseteq 1 .. references'
    BY <1>b, <1>w, <1>n, <1>e DEF ContentsType
  <2>3. reference' \in [O!Instances -> O!References \cup {None}]
    BY <1>b, <1>w, <1>n DEF ContentsType
  <2>4. sharerPc' \in [Sharers -> SharerPCs]
    BY <1>b, <1>w DEF ContentsType, SharerPCs
  <2>5. QED
    BY <1>b, <1>w, <1>n, <1>d, <2>1, <2>2, <2>3, <2>4 DEF ContentsType
<1>3. DividesOwn'
  <2> SUFFICES ASSUME NEW u \in Sharers, sharerPc'[u] # "idle"
               PROVE  dividing[u] \in O!Of(u) /\ reference'[dividing[u]] # None
    BY <1>w DEF DividesOwn
  <2>1. CASE u = t
    BY <2>1, <1>p, <1>i, <1>n
  <2>2. CASE u # t
    BY <2>2, <1>p, <1>o, <1>b DEF DividesOwn
  <2>3. QED
    BY <2>1, <2>2
<1>4. PointsToOwn'
  <2> SUFFICES ASSUME NEW j \in O!Instances
               PROVE  /\ Cloned(j)' \/ m_theArray[j] = reference'[j]
                      /\ reference'[j] # None => reference'[j] <= new
                      /\ m_theArray[j] # None => m_theArray[j] <= new
                      /\ Cloned(j)' => m_theArray[j] # None
    BY <1>w DEF PointsToOwn
  <2>1. CASE j = i
    <3>1. Cloned(i)'
      BY <1>p, <1>w DEF Cloned
    <3>2. old <= references /\ old \in Nat
      BY <1>i, <1>b, <1>e DEF PointsToOwn, O!References
    <3>3. QED
      BY <2>1, <3>1, <3>2, <1>p, <1>m, <1>n, <1>i, <1>e
  <2>2. CASE j # i
    <3>1. Cloned(j)' <=> Cloned(j)
      BY <2>2, <1>p, <1>w DEF Cloned
    <3>2. /\ Cloned(j) \/ m_theArray[j] = reference[j]
          /\ reference[j] # None => reference[j] <= references
          /\ m_theArray[j] # None => m_theArray[j] <= references
          /\ Cloned(j) => m_theArray[j] # None
          /\ reference[j] # None => reference[j] \in Nat
          /\ m_theArray[j] # None => m_theArray[j] \in Nat
      BY <1>b DEF PointsToOwn, ContentsType, O!References
    <3>3. reference'[j] = reference[j]
      BY <1>p, <2>2
    <3>4. QED
      BY <3>1, <3>2, <3>3, <1>n, <1>e
  <2>3. QED
    BY <2>1, <2>2
<1>a. ASSUME NEW u \in Sharers \ {t}, sharerPc[u] # "idle", Alone(dividing[u])
      PROVE  Alone(dividing[u])'
  <2>1. /\ dividing[u] \in O!Instances /\ dividing[u] # i
        /\ reference'[dividing[u]] = reference[dividing[u]]
    BY <1>a, <1>o, <1>p
  <2>2. new # reference[dividing[u]]
    BY <2>1, <1>n
  <2>3. ASSUME NEW j \in O!Instances \ {dividing[u]}
        PROVE  reference'[j] # reference[dividing[u]] /\ m_theArray[j] # reference[dividing[u]]
    BY <2>2, <1>a, <1>p DEF Alone
  <2>4. QED
    BY <2>1, <2>3, <1>w DEF Alone
<1>5. CloningAlone'
  <2>1. Alone(dividing[t])'
    BY <1>p, <1>n, <1>w DEF Alone
  <2>2. QED
    BY <2>1, <1>a, <1>b, <1>p, <1>w DEF CloningAlone
<1>6. ASSUME ~raced' PROVE NotDisturbed'
  <2>1. NotDisturbed /\ Undisturbed(t, old)
    BY <1>6, <1>d DEF ContentsInv
  <2>c. \A r \in O!References \ {old} :
           count'[r] >= count[r] /\ count[r] \in Nat /\ count'[r] \in Nat
    BY <1>c, <1>b, <1>1, CountIsNatAfter DEF ContentsType
  <2>2. ASSUME NEW u \in Sharers, sharerPc'[u] = "dividing"
        PROVE  count'[reference'[dividing'[u]]] >= 2
    <3>1. /\ u # t /\ dividing[u] \in O!Instances /\ dividing'[u] = dividing[u]
          /\ sharerPc[u] = "dividing"
          /\ reference'[dividing[u]] = reference[dividing[u]]
          /\ reference[dividing[u]] \in O!References
      BY <2>2, <1>o, <1>w, <1>p, <1>b DEF ContentsType
    <3>2. reference[dividing[u]] # old
      BY <2>1, <3>1 DEF Undisturbed
    <3>3. count[reference[dividing[u]]] >= 2
      BY <2>1, <3>1 DEF NotDisturbed
    <3>4. QED
      BY <2>c, <3>1, <3>2, <3>3
  <2>3. ASSUME NEW u \in Sharers, sharerPc'[u] = "cloning"
        PROVE  count'[m_theArray'[dividing'[u]]] >= 1
    <3>1. CASE u = t
      <4>1. count[old] >= 2 /\ count[old] \in Nat /\ count'[old] = count[old] - 1
        BY <2>1, <1>w, <1>i, <1>n, <1>c, <1>b, <1>e DEF NotDisturbed, ContentsType
      <4>2. m_theArray'[dividing'[u]] = old
        BY <3>1, <1>m, <1>w, <1>p
      <4>3. QED
        BY <4>1, <4>2
    <3>2. CASE u # t
      <4>1. sharerPc[u] = "cloning" /\ dividing[u] \in O!Instances
        BY <2>3, <3>2, <1>p, <1>o
      <4>2. m_theArray[dividing[u]] \in O!References
        BY <4>1, <1>b DEF PointsToOwn, Cloned, ContentsType
      <4>3. m_theArray[dividing[u]] # old
        BY <2>1, <3>2, <4>1 DEF Undisturbed
      <4>4. count[m_theArray[dividing[u]]] >= 1
        BY <2>1, <4>1 DEF NotDisturbed
      <4>5. m_theArray'[dividing'[u]] = m_theArray[dividing[u]]
        BY <1>w
      <4>6. count'[m_theArray[dividing[u]]] >= count[m_theArray[dividing[u]]]
            /\ count[m_theArray[dividing[u]]] \in Nat /\ count'[m_theArray[dividing[u]]] \in Nat
        BY <2>c, <4>2, <4>3
      <4>7. QED
        BY <4>4, <4>5, <4>6
    <3>3. QED
      BY <3>1, <3>2
  <2>4. ASSUME NEW u \in Sharers, sharerPc'[u] = "writing" PROVE Alone(dividing[u])'
    BY <2>1, <2>4, <1>a, <1>p DEF NotDisturbed
  <2>5. ASSUME NEW j \in O!Instances, reference'[j] # None PROVE reference'[j] \notin freed'
    BY <2>1, <2>5, <1>p, <1>n, <1>w DEF NotDisturbed
  <2>6. ASSUME NEW r \in 1 .. references' PROVE r \in freed' \/ Refs(r)' # {}
    <3>r. r \in O!References
      BY <1>w, <1>n DEF O!References
    <3>1. CASE r = new
      BY <3>1, <1>p, <1>i DEF Refs
    <3>2. CASE r # new
      <4>1. r \in 1 .. references
        BY <3>2, <2>6, <1>w, <1>n, <1>e
      <4>2. r \in freed \/ count[r] >= 1
        BY <4>1, <2>1, <3>r, <1>b, CountMeans DEF NotDisturbed
      <4>3. count[old] >= 2 /\ count[old] \in Nat
        BY <2>1, <1>w, <1>i, <1>b, <1>e DEF NotDisturbed, ContentsType
      <4>4. r \in freed \/ count'[r] >= 1
        BY <4>2, <4>3, <1>c, <3>r, <3>2
      <4>5. count'[r] >= 1 => Refs(r)' # {}
        BY <3>r, <1>1, CountMeansAfter
      <4>6. QED
        BY <4>4, <4>5, <1>w
    <3>3. QED
      BY <3>1, <3>2
  <2>7. QED
    BY <2>2, <2>3, <2>4, <2>5, <2>6, <1>w DEF NotDisturbed
<1>7. QED
  BY <1>1, <1>2, <1>3, <1>4, <1>5, <1>6 DEF ContentsInv, ContentsBase

LEMMA CloneStep ==
  ASSUME ContentsInv, NEW t \in Sharers, O!CloneContents(t)
  PROVE  ContentsInv'
<1> USE SharersFacts
<1>e. PICK i : i = dividing[t]
  OBVIOUS
<1>b. ContentsType /\ DividesOwn /\ Counted /\ PointsToOwn /\ CloningAlone
  BY DEF ContentsInv, ContentsBase
<1>w. /\ sharerPc[t] = "cloning" /\ sharerPc' = [sharerPc EXCEPT ![t] = "writing"]
      /\ m_theArray' = [m_theArray EXCEPT ![i] = reference[i]]
      /\ UNCHANGED <<reference, count, references, freed, dividing, raced>>
  BY <1>e DEF O!CloneContents, O!Goto
<1>i. /\ i \in O!Instances /\ i \in O!Of(t) /\ reference[i] # None
      /\ \A u \in Sharers \ {t} :
            sharerPc[u] # "idle" => dividing[u] \in O!Instances /\ dividing[u] # i
  BY <1>b, <1>w, <1>e DEF DividesOwn, ContentsType, O!Of
<1>p. /\ sharerPc'[t] = "writing" /\ m_theArray'[i] = reference[i]
      /\ \A u \in Sharers \ {t} : sharerPc'[u] = sharerPc[u]
      /\ \A j \in O!Instances \ {i} : m_theArray'[j] = m_theArray[j]
  BY <1>w, <1>i, <1>b DEF ContentsType
<1>1. ContentsType'
  <2>1. m_theArray' \in [O!Instances -> O!References \cup {None}]
    BY <1>b, <1>w, <1>i DEF ContentsType
  <2>2. sharerPc' \in [Sharers -> SharerPCs]
    BY <1>b, <1>w DEF ContentsType, SharerPCs
  <2>3. QED
    BY <1>b, <1>w, <2>1, <2>2 DEF ContentsType
<1>2. DividesOwn' /\ Counted'
  <2>1. \A u \in Sharers : sharerPc'[u] # "idle" => sharerPc[u] # "idle"
    BY <1>w, <1>p
  <2>2. QED
    BY <2>1, <1>b, <1>w DEF DividesOwn, Counted, Refs
<1>3. PointsToOwn'
  <2> SUFFICES ASSUME NEW j \in O!Instances
               PROVE  /\ Cloned(j)' \/ m_theArray'[j] = reference[j]
                      /\ reference[j] # None => reference[j] <= references
                      /\ m_theArray'[j] # None => m_theArray'[j] <= references
                      /\ Cloned(j)' => m_theArray'[j] # None
    BY <1>w DEF PointsToOwn
  <2>1. CASE j = i
    BY <2>1, <1>p, <1>i, <1>b DEF PointsToOwn
  <2>2. CASE j # i
    <3>1. Cloned(j)' <=> Cloned(j)
      BY <2>2, <1>p, <1>w, <1>e DEF Cloned
    <3>2. QED
      BY <2>2, <3>1, <1>p, <1>b DEF PointsToOwn
  <2>3. QED
    BY <2>1, <2>2
<1>a. ASSUME NEW u \in Sharers, sharerPc[u] # "idle", Alone(dividing[u]), u = t \/ Alone(i)
      PROVE  Alone(dividing[u])'
  <2>1. ASSUME NEW j \in O!Instances \ {dividing[u]}
        PROVE  reference[j] # reference[dividing[u]] /\ m_theArray'[j] # reference[dividing[u]]
    <3>1. CASE j = i
      BY <1>a, <2>1, <3>1, <1>p DEF Alone
    <3>2. CASE j # i
      BY <1>a, <2>1, <3>2, <1>p DEF Alone
    <3>3. QED
      BY <3>1, <3>2
  <2>2. QED
    BY <2>1, <1>w DEF Alone
<1>l. Alone(i)
  BY <1>b, <1>w, <1>e DEF CloningAlone
<1>5. CloningAlone'
  BY <1>a, <1>l, <1>b, <1>p, <1>w DEF CloningAlone
<1>6. ASSUME ~raced' PROVE NotDisturbed'
  <2>1. NotDisturbed
    BY <1>6, <1>w DEF ContentsInv
  <2>2. ASSUME NEW u \in Sharers, sharerPc'[u] = "dividing"
        PROVE  count'[reference'[dividing'[u]]] >= 2
    BY <2>1, <2>2, <1>p, <1>w DEF NotDisturbed
  <2>3. ASSUME NEW u \in Sharers, sharerPc'[u] = "cloning"
        PROVE  count'[m_theArray'[dividing'[u]]] >= 1
    <3>1. u # t /\ sharerPc[u] = "cloning"
      BY <2>3, <1>p
    <3>2. m_theArray'[dividing[u]] = m_theArray[dividing[u]]
      BY <3>1, <1>i, <1>p
    <3>3. QED
      BY <2>1, <3>1, <3>2, <1>w DEF NotDisturbed
  <2>4. ASSUME NEW u \in Sharers, sharerPc'[u] = "writing" PROVE Alone(dividing[u])'
    <3>1. CASE u = t
      BY <1>a, <1>l, <1>e, <1>w, <3>1
    <3>2. CASE u # t
      BY <2>1, <2>4, <3>2, <1>a, <1>l, <1>p DEF NotDisturbed
    <3>3. QED
      BY <3>1, <3>2
  <2>5. /\ \A j \in O!Instances : reference'[j] # None => reference'[j] \notin freed'
        /\ \A r \in 1 .. references' : r \in freed' \/ Refs(r)' # {}
    BY <2>1, <1>w DEF NotDisturbed, Refs
  <2>6. QED
    BY <2>2, <2>3, <2>4, <2>5 DEF NotDisturbed
<1>7. QED
  BY <1>1, <1>2, <1>3, <1>5, <1>6 DEF ContentsInv, ContentsBase

LEMMA WrittenStep ==
  ASSUME ContentsInv, NEW t \in Sharers, O!Written(t)
  PROVE  ContentsInv'
<1>b. ContentsType /\ DividesOwn /\ Counted /\ PointsToOwn /\ CloningAlone
  BY DEF ContentsInv, ContentsBase
<1>w. /\ sharerPc[t] = "writing" /\ sharerPc' = [sharerPc EXCEPT ![t] = "idle"]
      /\ dividing' = [dividing EXCEPT ![t] = None]
      /\ UNCHANGED <<reference, m_theArray, count, references, freed, raced>>
  BY Zenon DEF O!Written, O!Goto, O!contentsVars
<1>p. /\ sharerPc'[t] = "idle"
      /\ \A u \in Sharers \ {t} : sharerPc'[u] = sharerPc[u] /\ dividing'[u] = dividing[u]
  BY <1>w, <1>b DEF ContentsType
<1>1. ContentsType'
  BY <1>b, <1>w DEF ContentsType, SharerPCs
<1>2. DividesOwn' /\ Counted'
  BY <1>b, <1>w, <1>p DEF DividesOwn, Counted, Refs
<1>3. \A j \in O!Instances : Cloned(j)' <=> Cloned(j)
  BY <1>w, <1>p DEF Cloned
<1>4. PointsToOwn'
  BY <1>3, <1>b, <1>w DEF PointsToOwn
<1>5. CloningAlone'
  BY <1>b, <1>w, <1>p DEF CloningAlone, Alone
<1>6. NotDisturbed => NotDisturbed'
  BY <1>w, <1>p DEF NotDisturbed, Alone, Refs
<1>7. QED
  BY <1>1, <1>2, <1>4, <1>5, <1>6, <1>w DEF ContentsInv, ContentsBase

LEMMA ContentsStep == ASSUME ContentsInv, [O!ContainerNext]_(O!containerVars) PROVE ContentsInv'
<1> USE SharersFacts
<1>b. ContentsType /\ DividesOwn /\ Counted /\ PointsToOwn /\ CloningAlone
  BY DEF ContentsInv, ContentsBase
<1>o. \A t \in Sharers : \A i \in O!Of(t) :
         i \in O!Instances /\ reference[i] \in O!References \cup {None}
  BY <1>b DEF O!Of, ContentsType
<1>n. ASSUME NEW t \in Sharers, NEW r, O!Counts(t, r)
      PROVE  raced' \in BOOLEAN /\ (raced => raced') /\ (~raced' => Undisturbed(t, r))
  BY <1>n, <1>b DEF O!Counts, Undisturbed, ContentsType
<1>1. ASSUME NEW t \in Sharers, NEW i \in O!Of(t), O!Create(t, i) PROVE ContentsInv'
  <2>1. /\ sharerPc[t] = "idle" /\ reference[i] = None /\ references < MaxReferences
        /\ references' = references + 1
        /\ reference'  = [reference EXCEPT ![i] = references']
        /\ m_theArray' = [m_theArray EXCEPT ![i] = references']
        /\ count' = [count EXCEPT ![references'] = 1]
        /\ UNCHANGED <<freed, sharerPc, dividing, raced>>
    BY <1>1, Zenon DEF O!Create
  <2>2. references' \in O!References /\ references' # None /\ references \in Nat
    BY <2>1, <1>b DEF ContentsType, O!References
  <2>3. count[references'] = 0
    <3>1. Refs(references') = {}
      <4> SUFFICES ASSUME NEW j \in O!Instances, reference[j] = references' PROVE FALSE
        BY DEF Refs
      <4>1. reference[j] <= references
        BY <2>2, <1>b DEF PointsToOwn
      <4>2. QED
        BY <2>1, <2>2, <4>1
    <3>2. QED
      BY <3>1, <2>2, <1>b, FS_EmptySet DEF Counted
  <2>4. CountsFollow(i, references') /\ count' \in [O!References -> Int]
    BY <2>1, <2>2, <2>3, <1>b DEF CountsFollow, ContentsType
  <2>5. Rewired(t, i, references')
    BY <2>1, <2>2, <2>4, <1>b DEF Rewired, ContentsType
  <2>6. Available(t, references')
    BY <2>1, <2>2 DEF Available
  <2>7. QED
    BY <2>1, <2>5, <2>6, RewireStep
<1>2. ASSUME NEW t \in Sharers, NEW i \in O!Of(t), NEW j \in O!Of(t), O!Copy(t, i, j)
      PROVE  ContentsInv'
  <2>1. /\ sharerPc[t] = "idle" /\ reference[i] = None /\ reference[j] # None
        /\ count' = [count EXCEPT ![reference[j]] = @ + 1]
        /\ reference'  = [reference EXCEPT ![i] = reference[j]]
        /\ m_theArray' = [m_theArray EXCEPT ![i] = m_theArray[j]]
        /\ O!Counts(t, reference[j])
        /\ UNCHANGED <<references, freed, sharerPc, dividing>>
    BY <1>2, Zenon DEF O!Copy
  <2>2. m_theArray[j] = reference[j]
    BY <2>1, <1>o, <1>b DEF PointsToOwn, Cloned, DividesOwn, O!Of
  <2>3. CountsFollow(i, reference[j]) /\ count' \in [O!References -> Int]
    BY <2>1, <1>o, <1>b DEF CountsFollow, ContentsType
  <2>4. Rewired(t, i, reference[j])
    BY <2>1, <2>2, <2>3, <1>n DEF Rewired
  <2>5. Available(t, reference[j])
    BY <2>1 DEF Available
  <2>6. QED
    BY <2>1, <2>4, <2>5, RewireStep
<1>3. ASSUME NEW t \in Sharers, NEW i \in O!Of(t), NEW j \in O!Of(t), O!AssignContents(t, i, j)
      PROVE  ContentsInv'
  <2>1. /\ sharerPc[t] = "idle" /\ reference[i] # None /\ reference[j] # None
        /\ reference[i] # reference[j]
        /\ count' = [count EXCEPT ![reference[i]] = @ - 1, ![reference[j]] = @ + 1]
        /\ freed' = freed \cup (IF count[reference[i]] = 1 THEN {m_theArray[i]} ELSE {})
        /\ reference'  = [reference EXCEPT ![i] = reference[j]]
        /\ m_theArray' = [m_theArray EXCEPT ![i] = m_theArray[j]]
        /\ O!Counts(t, reference[i])
        /\ UNCHANGED <<references, sharerPc, dividing>>
    BY <1>3, Zenon DEF O!AssignContents, O!GivenUp
  <2>2. m_theArray[j] = reference[j]
    BY <2>1, <1>o, <1>b DEF PointsToOwn, Cloned, DividesOwn, O!Of
  <2>3. CountsFollow(i, reference[j]) /\ count' \in [O!References -> Int]
    BY <2>1, <1>o, <1>b DEF CountsFollow, ContentsType
  <2>4. Rewired(t, i, reference[j])
    BY <2>1, <2>2, <2>3, <1>n DEF Rewired
  <2>5. Available(t, reference[j])
    BY <2>1 DEF Available
  <2>6. ~raced' => Undisturbed(t, reference[i])
    BY <2>1, <1>n
  <2>7. QED
    BY <2>4, <2>5, <2>6, RewireStep
<1>4. ASSUME NEW t \in Sharers, NEW i \in O!Of(t), O!Destruct(t, i) PROVE ContentsInv'
  <2>1. /\ sharerPc[t] = "idle" /\ reference[i] # None
        /\ count' = [count EXCEPT ![reference[i]] = @ - 1]
        /\ freed' = freed \cup (IF count[reference[i]] = 1 THEN {m_theArray[i]} ELSE {})
        /\ reference'  = [reference EXCEPT ![i] = None]
        /\ m_theArray' = [m_theArray EXCEPT ![i] = None]
        /\ O!Counts(t, reference[i])
        /\ UNCHANGED <<references, sharerPc, dividing>>
    BY <1>4, Zenon DEF O!Destruct, O!GivenUp
  <2>3. CountsFollow(i, None) /\ count' \in [O!References -> Int]
    BY <2>1, <1>o, <1>b DEF CountsFollow, ContentsType
  <2>4. Rewired(t, i, None)
    BY <2>1, <2>3, <1>n DEF Rewired
  <2>5. Available(t, None)
    BY <2>1 DEF Available
  <2>6. ~raced' => Undisturbed(t, reference[i])
    BY <2>1, <1>n
  <2>7. QED
    BY <2>4, <2>5, <2>6, RewireStep
<1>5. CASE UNCHANGED O!containerVars
  <2>1. UNCHANGED <<reference, m_theArray, count, references, freed, sharerPc, dividing, raced>>
    BY <1>5, Zenon DEF O!containerVars, O!contentsVars
  <2>2. ContentsType' /\ DividesOwn' /\ Counted' /\ CloningAlone'
    BY <2>1, <1>b DEF ContentsType, DividesOwn, Counted, CloningAlone, Refs, Alone
  <2>3. PointsToOwn'
    BY <2>1, <1>b DEF PointsToOwn, Cloned
  <2>4. NotDisturbed => NotDisturbed'
    BY <2>1 DEF NotDisturbed, Alone, Refs
  <2>5. QED
    BY <2>1, <2>2, <2>3, <2>4 DEF ContentsInv, ContentsBase
<1>6. QED
  BY <1>1, <1>2, <1>3, <1>4, <1>5, TestStep, DivideStep, CloneStep, WrittenStep, Zenon
     DEF O!ContainerNext

\* Contents that several instances of several threads share are freed with the last of
\* them and not before, and changed by one that has them for itself, as long as no thread
\* touches the count of contents that another one is about to divide or to copy.
THEOREM ContentsAreIntact == O!ContainerSpec => []ContentsIntactUnlessRaced
<1>1. ContentsInv => ContentsIntactUnlessRaced
  <2> SUFFICES ASSUME ContentsInv, ~raced
               PROVE  O!DestroyedWhenUnreferenced /\ O!WrittenUnshared /\ O!NothingLeaks
    BY Zenon DEF ContentsIntactUnlessRaced, O!ContentsIntactUnlessRaced
  <2>b. /\ ContentsType /\ DividesOwn /\ Counted /\ PointsToOwn /\ CloningAlone /\ NotDisturbed
        /\ None \notin O!References
    BY SharersFacts DEF ContentsInv, ContentsBase
  <2>1. ASSUME NEW i \in O!Instances, m_theArray[i] # None PROVE m_theArray[i] \notin freed
    <3>1. CASE m_theArray[i] = reference[i]
      BY <2>1, <2>b, <3>1 DEF NotDisturbed
    <3>2. CASE Cloned(i)
      <4>1. m_theArray[i] \in O!References
        BY <2>1, <2>b DEF ContentsType
      <4>2. count[m_theArray[i]] >= 1
        BY <3>2, <2>b DEF Cloned, NotDisturbed
      <4>3. PICK j \in Refs(m_theArray[i]) : TRUE
        BY <4>1, <4>2, <2>b, CountMeans
      <4>4. QED
        BY <4>1, <4>3, <2>b DEF Refs, NotDisturbed
    <3>3. QED
      BY <3>1, <3>2, <2>b DEF PointsToOwn
  <2>2. ASSUME NEW t \in Sharers, sharerPc[t] = "writing", NEW i \in O!Instances \ {dividing[t]}
        PROVE  m_theArray[i] # m_theArray[dividing[t]]
    <3>1. Alone(dividing[t]) /\ dividing[t] \in O!Instances
      BY <2>2, <2>b DEF NotDisturbed, DividesOwn, O!Of
    <3>2. ~Cloned(dividing[t])
      BY <2>2, <2>b DEF Cloned, DividesOwn, O!Of
    <3>3. m_theArray[dividing[t]] = reference[dividing[t]]
      BY <3>1, <3>2, <2>b DEF PointsToOwn
    <3>4. QED
      BY <2>2, <3>1, <3>3 DEF Alone
  <2>3. ASSUME NEW r \in 1 .. references
        PROVE  r \in freed \/ \E i \in O!Instances : r \in {m_theArray[i], reference[i]}
    BY <2>b DEF NotDisturbed, Refs
  <2>4. QED
    BY <2>1, <2>2, <2>3, Zenon DEF O!DestroyedWhenUnreferenced, O!WrittenUnshared, O!NothingLeaks
<1>2. ContentsInv /\ [O!ContainerNext]_(O!containerVars) => ContentsInv'
  BY ContentsStep
<1>3. QED
  BY <1>1, <1>2, ContentsInitially, PTL DEF O!ContainerSpec

-----------------------------------------------------------------------------
(* PTimer: a running timer is in the list.  As long as the callback does   *)
(* not start the timer, nothing puts it back between the erasure in Stop() *)
(* and the next start, and a timer that is not listed is not called: so    *)
(* once Stop() has had m_callbackMutex no callback runs.                   *)

TimerUserPCs == {"idle", "erase", "await", "check", "set", "stopped", "stoppedNoWait", "destroyed"}
TimerPoolPCs == {"idle", "work", "calling", "restart", "returning"}
InCallPCs == {"calling", "restart", "returning"}

\* The thread in the callback is the one that holds m_callbackMutex.
HolderCalls == \A p \in PoolThreads : pc[p] \in InCallPCs <=> holder = p

\* Between the erasure and the next start the timer is out of the list, and from
\* the moment the callback has been waited for it is not running either.
Erased == user \in TimerUserPCs \ {"idle", "erase"} => ~listed
Waited == \/ user \in {"set", "stopped", "destroyed"}
          \/ user = "check" /\ after # "stoppedNoWait"
Silent == ~restarted => Erased /\ (Waited => InCallback = {})

TimerShape == /\ pc \in [PoolThreads -> TimerPoolPCs]
         /\ holder \in PoolThreads \cup {NoThread}
         /\ user \in TimerUserPCs
         /\ after \in {"idle", "set", "stopped", "stoppedNoWait", "destroyed"}

TimerInv == TimerShape /\ RunningIsListed /\ HolderCalls /\ Silent

USE DEF TimerPoolPCs, TimerUserPCs, InCallPCs

LEMMA TimerInitially == Init => TimerInv
BY TimerAssumption
   DEF Init, TimerInv, TimerShape, RunningIsListed, HolderCalls, Silent, Erased, Waited, InCallback

\* The part of the invariant that the state of the user thread does not touch.
LEMMA TimerShapeKept == TimerShape /\ [Next]_vars => TimerShape'
<1> SUFFICES ASSUME TimerShape, [Next]_vars PROVE TimerShape'
  OBVIOUS
<1> USE DEF TimerShape
<1>1. ASSUME NEW next \in {"set", "stopped", "stoppedNoWait", "destroyed"}, BeginStop(next)
      PROVE  TimerShape'
  BY <1>1 DEF BeginStop
<1>2. CASE UserStep
  BY <1>2 DEF UserStep, StopErase, StopAwait, StopCheck, Start
<1>3. CASE Process
  BY <1>3 DEF Process, control
<1>4. ASSUME NEW p \in PoolThreads, PoolStep(p) PROVE TimerShape'
  BY <1>4 DEF PoolStep, TakeWork, GiveUp, OnTimeout, CallbackStops, CallbackStarts,
              CallbackReturns, Goto, control
<1>5. CASE UNCHANGED vars
  BY <1>5 DEF vars, control
<1>6. QED
  BY <1>1, <1>2, <1>3, <1>4, <1>5 DEF Next, ProcessNothing

LEMMA ListedKept == RunningIsListed /\ [Next]_vars => RunningIsListed'
<1> SUFFICES ASSUME RunningIsListed, [Next]_vars PROVE RunningIsListed'
  OBVIOUS
<1> USE DEF RunningIsListed
<1>1. ASSUME NEW next \in {"set", "stopped", "stoppedNoWait", "destroyed"}, BeginStop(next)
      PROVE  RunningIsListed'
  BY <1>1 DEF BeginStop, timer
<1>2. CASE UserStep
  BY <1>2 DEF UserStep, StopErase, StopAwait, StopCheck, Start, Erase, Insert, timer
<1>3. CASE Process
  BY <1>3 DEF Process
<1>4. ASSUME NEW p \in PoolThreads, PoolStep(p) PROVE RunningIsListed'
  \* OnTimeout removes the timer only when it is not running.
  BY <1>4 DEF PoolStep, TakeWork, GiveUp, OnTimeout, CallbackStops, CallbackStarts,
              CallbackReturns, Erase, Insert, timer
<1>5. CASE UNCHANGED vars
  BY <1>5 DEF vars, timer
<1>6. QED
  BY <1>1, <1>2, <1>3, <1>4, <1>5 DEF Next, ProcessNothing

LEMMA HolderKept == TimerShape /\ HolderCalls /\ [Next]_vars => HolderCalls'
<1> SUFFICES ASSUME TimerShape, HolderCalls, [Next]_vars PROVE HolderCalls'
  OBVIOUS
<1> USE DEF TimerShape, HolderCalls
<1>1. CASE UNCHANGED <<pc, holder>>
  BY <1>1
<1>2. ASSUME NEW p \in PoolThreads, PoolStep(p) PROVE HolderCalls'
  <2>1. CASE TakeWork(p) \/ GiveUp(p) \/ CallbackStops(p) \/ CallbackStarts(p)
    BY <2>1 DEF TakeWork, GiveUp, CallbackStops, CallbackStarts, Goto
  <2>2. CASE OnTimeout(p)
    BY <2>2, TimerAssumption DEF OnTimeout, Goto
  <2>3. CASE CallbackReturns(p)
    BY <2>3, TimerAssumption DEF CallbackReturns, Goto
  <2>4. QED
    BY <1>2, <2>1, <2>2, <2>3 DEF PoolStep
<1>3. QED
  BY <1>1, <1>2 DEF Next, BeginStop, UserStep, StopErase, StopAwait, StopCheck, Start,
                    Process, ProcessNothing, vars

LEMMA SilentKept == TimerInv /\ [Next]_vars => Silent'
<1> SUFFICES ASSUME TimerInv, [Next]_vars, ~restarted' PROVE Erased' /\ (Waited => InCallback = {})'
  BY DEF Silent
<1> USE DEF TimerInv, TimerShape, Erased, Waited, InCallback
<1>1. ~restarted
  BY DEF Next, BeginStop, UserStep, StopErase, StopAwait, StopCheck, Start, Insert, Process,
         ProcessNothing, PoolStep, TakeWork, GiveUp, OnTimeout, CallbackStops, CallbackStarts,
         CallbackReturns, history, vars
<1>2. Erased /\ (Waited => InCallback = {})
  BY <1>1 DEF Silent
<1>3. ASSUME NEW next \in {"set", "stopped", "stoppedNoWait", "destroyed"}, BeginStop(next)
      PROVE  Erased' /\ (Waited => InCallback = {})'
  BY <1>3 DEF BeginStop
<1>4. CASE UserStep
  <2>1. CASE StopErase
    BY <2>1 DEF StopErase, Erase
  <2>2. CASE StopAwait
    BY <1>2, <2>2, TimerAssumption DEF StopAwait, timer, HolderCalls
  <2>3. CASE StopCheck
    <3>1. ~m_running
      BY <1>2, <2>3 DEF StopCheck, RunningIsListed
    <3>2. user' = after /\ UNCHANGED <<listed, pc, after>>
      BY <2>3, <3>1 DEF StopCheck, timer
    <3>3. QED
      BY <1>2, <2>3, <3>2 DEF StopCheck
  <2>4. CASE Start
    BY <2>4 DEF Start
  <2>5. QED
    BY <1>4, <2>1, <2>2, <2>3, <2>4 DEF UserStep
<1>5. CASE Process
  BY <1>2, <1>5 DEF Process, control
<1>6. ASSUME NEW p \in PoolThreads, PoolStep(p)
      PROVE  Erased' /\ (Waited => InCallback = {})'
  <2>1. CASE TakeWork(p) \/ GiveUp(p) \/ CallbackReturns(p)
    BY <1>2, <2>1 DEF TakeWork, GiveUp, CallbackReturns, Goto, control, timer
  <2>2. CASE OnTimeout(p)
    BY <1>2, <2>2 DEF OnTimeout, Stopped, control
  <2>3. CASE CallbackStops(p)
    BY <1>2, <2>3 DEF CallbackStops, Goto, Erase, control
  <2>4. CASE CallbackStarts(p)
    <3>1. UNCHANGED timer
      BY <2>4 DEF CallbackStarts
    <3>2. QED
      BY <1>2, <2>4, <3>1 DEF CallbackStarts, Goto, control, timer
  <2>5. QED
    BY <1>6, <2>1, <2>2, <2>3, <2>4 DEF PoolStep
<1>7. CASE UNCHANGED vars
  BY <1>2, <1>7 DEF vars, control, timer
<1>8. QED
  BY <1>3, <1>4, <1>5, <1>6, <1>7 DEF Next, ProcessNothing

LEMMA TimerInductive == Spec => []TimerInv
<1>1. TimerInv /\ [Next]_vars => TimerInv'
  BY TimerShapeKept, ListedKept, HolderKept, SilentKept DEF TimerInv
<1>2. QED
  BY TimerInitially, <1>1, PTL DEF Spec

\* A running timer is in the list of timers, whichever of the user, the
\* housekeeper and the callbacks starts, stops or expires it.
THEOREM RunningTimerListed == Spec => []RunningIsListed
<1>1. TimerInv => RunningIsListed
  BY DEF TimerInv
<1>2. QED
  BY <1>1, TimerInductive, PTL

\* Stop(), a start and the destructor leave no callback behind that is running or
\* to come, as long as callbacks do not start their own timer.
THEOREM StopIsQuiet == Spec => []QuietUnlessRestarted
<1>1. TimerInv => QuietUnlessRestarted
  BY DEF TimerInv, Silent, Erased, Waited, QuietUnlessRestarted, QuietAfterStop
<1>2. QED
  BY <1>1, TimerInductive, PTL
=============================================================================
