-------------------------- MODULE ThreadLifeProofs --------------------------
(***************************************************************************)
(* The life of threads for any number of threads, owners and identifiers.  *)
(*                                                                         *)
(* A thread in its Main is found in m_activeThreads: the list is right as  *)
(* long as every thread inside the system has an identifier of its own and *)
(* has not ended, and as long as only one who has m_shuttingDown set may   *)
(* clear the list.                                                         *)
(*                                                                         *)
(* Nothing reaches a deleted object: of those who may delete an object one *)
(* has the claim to it at any time, the claim is handed on and is given up *)
(* when the destruction begins.                                            *)
(***************************************************************************)
EXTENDS ThreadLife, TLAPS

\* The thread of object o has been started and has not been through
\* InternalThreadEnded.
Running(o) == pc[o] \notin {"none", "signal", "gone"}

ShutDownPlaces == {"p_keeper", "p_wait", "p_forget", "p_list", "p_terminate", "p_delete", "p_end"}
ReturnPlaces   == {"idle", "created", "assign", "h_delete", "p_delete", "p_forget"}

FoundType ==
  /\ m_activeThreads \in [Ids -> Objects \cup {None}]
  /\ m_threadId \in [Objects -> Ids \cup {0}]
  /\ DOMAIN PX_state = Objects
  /\ DOMAIN pc = Actors
  /\ arg \in [Actors -> Objects \cup {None}]
  /\ back \in [Actors -> ReturnPlaces]
  /\ made \in [Owners -> Keepers \cup {None}] /\ m_houseKeeper \in Keepers \cup {None}
  /\ m_autoDeleteThreads \in Seq(Objects \cup {None})
  /\ toTerminate \subseteq Objects /\ m_shuttingDown \in BOOLEAN

Found ==
  /\ \A o \in Objects : Running(o) => m_threadId[o] \in Ids /\ PX_state[o] # "PX_finished"
  /\ ~m_shuttingDown => \A o \in Objects : Running(o) => m_activeThreads[m_threadId[o]] = o
  /\ m_shuttingDown \/ (pc[Main] \notin ShutDownPlaces /\ back[Main] \notin ShutDownPlaces)

FoundInv == FoundType /\ Found

LEMMA Apart == /\ \A k \in Owners : k \in Actors /\ k \notin Objects /\ k # None
               /\ \A o \in Objects : o \in Actors /\ o \notin Owners /\ o # None
               /\ Main \in Owners /\ 0 \notin Ids
BY OwnersAssumption, NoneAssumption DEF Actors, Objects, Ids

LEMMA InitFound == Init => FoundInv
<1> SUFFICES ASSUME Init PROVE FoundInv
  OBVIOUS
<1>1. FoundType
  <2>1. /\ m_activeThreads \in [Ids -> Objects \cup {None}] /\ m_threadId \in [Objects -> Ids \cup {0}]
        /\ DOMAIN PX_state = Objects /\ DOMAIN pc = Actors
    BY DEF Init
  <2>2. arg \in [Actors -> Objects \cup {None}] /\ back \in [Actors -> ReturnPlaces]
    BY DEF Init, ReturnPlaces
  <2>3. /\ made \in [Owners -> Keepers \cup {None}] /\ m_houseKeeper \in Keepers \cup {None}
        /\ m_autoDeleteThreads \in Seq(Objects \cup {None})
        /\ toTerminate \subseteq Objects
    BY DEF Init
  <2>4. m_shuttingDown \in BOOLEAN
    BY DEF Init
  <2>5. QED
    BY <2>1, <2>2, <2>3, <2>4 DEF FoundType
<1>2. Found
  BY Apart DEF Init, Found, Running, ShutDownPlaces, Actors
<1>3. QED
  BY <1>1, <1>2 DEF FoundInv

Started ==
  /\ m_activeThreads' \in [Ids -> Objects \cup {None}]
  /\ m_threadId' \in [Objects -> Ids \cup {0}]
  /\ DOMAIN PX_state' = Objects /\ DOMAIN pc' = Actors
  /\ \A x \in Objects : Running(x)' => m_threadId'[x] \in Ids /\ PX_state'[x] # "PX_finished"
  /\ ~m_shuttingDown' => \A x \in Objects : Running(x)' => m_activeThreads'[m_threadId'[x]] = x
  /\ m_shuttingDown \/ pc'[Main] \notin ShutDownPlaces

\* The system gives a thread an identifier that no thread inside the system has.
LEMMA StartKeepsFound ==
  ASSUME FoundInv, NEW k \in Owners, NEW o \in Objects \cup {None}, StartThread(o),
         NEW l, pc' = [pc EXCEPT ![k] = l, ![o] = "pre"],
         l \notin ShutDownPlaces, UNCHANGED <<m_shuttingDown, PX_synchroniseThreadFinish>>
  PROVE  Started
<1> USE Apart DEF FoundInv, FoundType, Found, Running
<1>1. PICK i \in Ids \ UsedIds :
        /\ PX_state' = [PX_state EXCEPT ![o] = "PX_starting"]
        /\ m_threadId' = [m_threadId EXCEPT ![o] = i]
        /\ m_activeThreads' = [m_activeThreads EXCEPT ![i] = o]
  BY DEF StartThread
<1>2. \A x \in Objects : Running(x) => m_threadId[x] # i
  BY DEF UsedIds
<1>3. \A x \in Objects : pc'[x] = IF x = o THEN "pre" ELSE pc[x]
  OBVIOUS
<1>4. \A x \in Objects : Running(x)' => m_threadId'[x] \in Ids /\ PX_state'[x] # "PX_finished"
  BY <1>1, <1>3
<1>5. ASSUME ~m_shuttingDown', NEW x \in Objects, Running(x)'
      PROVE  m_activeThreads'[m_threadId'[x]] = x
  <2>1. CASE x = o
    BY <1>1, <2>1
  <2>2. CASE x # o
    BY <1>1, <1>2, <1>3, <1>5, <2>2
  <2>3. QED
    BY <2>1, <2>2
<1>6. DOMAIN pc' = Actors /\ DOMAIN PX_state' = Objects
  BY <1>1
<1>7. m_shuttingDown \/ pc'[Main] \notin ShutDownPlaces
  <2>1. pc'[Main] = IF Main = k THEN l ELSE pc[Main]
    BY <1>6
  <2>2. QED
    BY <2>1
<1>8. QED
  BY <1>1, <1>4, <1>5, <1>6, <1>7 DEF Started

LEMMA StepFound == FoundInv /\ [Next]_vars => FoundInv'
<1> SUFFICES ASSUME FoundInv, [Next]_vars PROVE FoundInv'
  OBVIOUS
<1> USE Apart DEF FoundInv, FoundType, Found, Running, ShutDownPlaces, ReturnPlaces, Goto,
                  threadVars, listVars, processVars, history
<1>1. ASSUME NEW k \in Owners, NEW w \in Workers, Create(k, w) PROVE FoundInv'
  BY <1>1 DEF Create, Objects
<1>2. ASSUME NEW k \in Owners, NEW w \in Workers, WaitAndDelete(k, w) PROVE FoundInv'
  <2>1. \/ pc' = [pc EXCEPT ![k] = "destructor"] /\ back' = [back EXCEPT ![k] = "idle"]
        \/ pc' = [pc EXCEPT ![k] = "w_wait"] /\ back' = back
    BY <1>2 DEF WaitAndDelete, BeginDelete
  <2>2. /\ arg' = [arg EXCEPT ![k] = w] /\ w \in Objects
        /\ UNCHANGED <<m_activeThreads, m_autoDeleteThreads, PX_state, m_threadId, made,
                       m_houseKeeper, m_shuttingDown, toTerminate>>
    BY <1>2 DEF WaitAndDelete, BeginDelete, Objects
  <2>3. CASE /\ pc' = [pc EXCEPT ![k] = "destructor"] /\ back' = [back EXCEPT ![k] = "idle"]
    BY <2>2, <2>3
  <2>4. CASE pc' = [pc EXCEPT ![k] = "w_wait"] /\ back' = back
    BY <2>2, <2>4
  <2>5. QED
    BY <2>1, <2>3, <2>4
<1>3. ASSUME NEW k \in Owners, NEW w \in Workers, SetAutoDelete(k, w) PROVE FoundInv'
  BY <1>3 DEF SetAutoDelete
<1>4. ASSUME NEW k \in Owners, Resume(k) PROVE FoundInv'
  <2>1. /\ StartThread(arg[k]) /\ arg[k] \in Objects \cup {None}
        /\ pc' = [pc EXCEPT ![k] = "stc", ![arg[k]] = "pre"]
        /\ back' = [back EXCEPT ![k] = "assign"]
        /\ UNCHANGED <<m_shuttingDown, PX_synchroniseThreadFinish, m_autoDeleteThreads, arg,
                       made, m_houseKeeper, toTerminate>>
    BY <1>4 DEF Resume
  <2>2. Started
    BY <2>1, StartKeepsFound
  <2>3. QED
    BY <2>1, <2>2 DEF Started
<1>5. ASSUME NEW k \in Owners, AssignPointer(k) PROVE FoundInv'
  BY <1>5 DEF AssignPointer
<1>6. ASSUME NEW k \in Owners, SignalTimerChange(k) PROVE FoundInv'
  BY <1>6 DEF SignalTimerChange
<1>7. ASSUME NEW k \in Owners, SwapKeepingHouse(k) PROVE FoundInv'
  <2>1. CASE m_keepingHouse
    BY <1>7, <2>1 DEF SwapKeepingHouse
  <2>2. CASE ~m_keepingHouse
    <3>1. PICK h \in Keepers :
            /\ StartThread(h)
            /\ pc' = [pc EXCEPT ![k] = "stc_assign", ![h] = "pre"]
            /\ made' = [made EXCEPT ![k] = h]
      BY <1>7, <2>2 DEF SwapKeepingHouse
    <3>2. UNCHANGED <<m_shuttingDown, PX_synchroniseThreadFinish, m_autoDeleteThreads, arg, back,
                      m_houseKeeper, toTerminate>>
      BY <1>7 DEF SwapKeepingHouse
    <3>3. h \in Objects
      BY DEF Objects
    <3>4. Started
      BY <3>1, <3>2, <3>3, StartKeepsFound
    <3>5. QED
      BY <3>1, <3>2, <3>4 DEF Started
  <2>3. QED
    BY <2>1, <2>2
<1>8. ASSUME NEW k \in Owners, AssignHouseKeeper(k) PROVE FoundInv'
  BY <1>8 DEF AssignHouseKeeper
<1>9. ASSUME NEW k \in Owners, DeleteTerminated(k) PROVE FoundInv'
  BY <1>9 DEF DeleteTerminated, BeginDelete
<1>10. ASSUME NEW a \in Actors, Destructor(a) PROVE FoundInv'
  <2> DEFINE o == arg[a]
  <2>1. /\ o \in Objects \cup {None}
        /\ pc[a] = "destructor" /\ pc' = [pc EXCEPT ![a] = back[a]]
        /\ m_threadId[o] = 0 \/ PX_state[o] = "PX_finished"
        /\ m_activeThreads' = [i \in Ids |-> IF i = m_threadId[o] /\ m_activeThreads[i] = o
                                             THEN None ELSE m_activeThreads[i]]
        /\ PX_state' = [PX_state EXCEPT ![o] = "PX_finished"]
        /\ UNCHANGED <<m_threadId, made, m_houseKeeper, m_shuttingDown, toTerminate>>
        /\ arg' = [arg EXCEPT ![a] = None] /\ back' = [back EXCEPT ![a] = "idle"]
    BY <1>10 DEF Destructor, ThreadFinished, IsTerminated, InternalThreadEnded
  <2>2. o \in Objects => ~Running(o)
    BY <2>1
  <2>3. \A x \in Objects : Running(x)' <=> Running(x)
    BY <2>1
  <2>4. \A x \in Objects : Running(x) => PX_state'[x] = PX_state[x]
    BY <2>1, <2>2
  <2>5. \A x \in Objects : Running(x) /\ m_activeThreads[m_threadId[x]] = x
                            => m_activeThreads'[m_threadId[x]] = x
    BY <2>1, <2>2
  <2>6. m_autoDeleteThreads' \in Seq(Objects \cup {None})
    BY <1>10 DEF Destructor, InternalThreadEnded
  <2>7. FoundType'
    BY <2>1, <2>6
  <2>8. m_shuttingDown' \/ (pc'[Main] \notin ShutDownPlaces /\ back'[Main] \notin ShutDownPlaces)
    BY <2>1
  <2>9. QED
    BY <2>1, <2>3, <2>4, <2>5, <2>7, <2>8
<1>11. ASSUME NEW o \in Objects, PreMain(o) \/ PreMainEnds(o) PROVE FoundInv'
  BY <1>11 DEF PreMain, PreMainEnds
<1>12. ASSUME NEW o \in Objects, PostMain(o) PROVE FoundInv'
  BY <1>12 DEF PostMain
<1>13. ASSUME NEW o \in Objects, Ended(o) PROVE FoundInv'
  BY <1>13 DEF Ended, InternalThreadEnded
<1>14. ASSUME NEW o \in Objects, SignalFinish(o) PROVE FoundInv'
  BY <1>14 DEF SignalFinish
<1>15. ASSUME NEW w \in Objects, MainEnds(w) PROVE FoundInv'
  BY <1>15 DEF MainEnds
<1>16. ASSUME NEW w \in Objects, DeleteMyself(w) PROVE FoundInv'
  BY <1>16 DEF DeleteMyself
<1>17. ASSUME NEW h \in Objects, KeepHouse(h) PROVE FoundInv'
  BY <1>17 DEF KeepHouse
<1>18. ASSUME NEW h \in Objects, DeleteQueued(h, "h_delete", "h_loop") PROVE FoundInv'
  <2>1. CASE m_autoDeleteThreads = <<>>
    BY <1>18, <2>1 DEF DeleteQueued
  <2>2. CASE m_autoDeleteThreads # <<>>
    <3>1. Head(m_autoDeleteThreads) \in Objects \cup {None}
          /\ Tail(m_autoDeleteThreads) \in Seq(Objects \cup {None})
      BY <2>2
    <3>2. /\ pc[h] = "h_delete" /\ pc' = [pc EXCEPT ![h] = "destructor"]
          /\ m_autoDeleteThreads' = Tail(m_autoDeleteThreads)
          /\ arg' = [arg EXCEPT ![h] = Head(m_autoDeleteThreads)]
          /\ back' = [back EXCEPT ![h] = "h_delete"]
          /\ UNCHANGED <<m_activeThreads, PX_state, m_threadId, made, m_houseKeeper,
                         m_shuttingDown, toTerminate>>
      BY <1>18, <2>2 DEF DeleteQueued, BeginDelete
    <3>3. QED
      BY <3>1, <3>2
  <2>3. QED
    BY <2>1, <2>2
<1>19. CASE DeleteQueued(Main, "p_delete", "p_end")
  <2>1. CASE m_autoDeleteThreads = <<>>
    BY <1>19, <2>1 DEF DeleteQueued
  <2>2. CASE m_autoDeleteThreads # <<>>
    <3>1. Head(m_autoDeleteThreads) \in Objects \cup {None}
          /\ Tail(m_autoDeleteThreads) \in Seq(Objects \cup {None})
      BY <2>2
    <3>2. m_shuttingDown
      BY <1>19, <2>2 DEF DeleteQueued
    <3>3. /\ pc[Main] = "p_delete" /\ pc' = [pc EXCEPT ![Main] = "destructor"]
          /\ m_autoDeleteThreads' = Tail(m_autoDeleteThreads)
          /\ arg' = [arg EXCEPT ![Main] = Head(m_autoDeleteThreads)]
          /\ back' = [back EXCEPT ![Main] = "p_delete"]
          /\ UNCHANGED <<m_activeThreads, PX_state, m_threadId, made, m_houseKeeper,
                         m_shuttingDown, toTerminate>>
      BY <1>19, <2>2 DEF DeleteQueued, BeginDelete
    <3>4. Main \in Actors /\ \A x \in Objects : pc'[x] = pc[x]
      BY <3>3
    <3>5. FoundType'
      BY <3>1, <3>3, <3>4
    <3>6. Found'
      <4>1. \A o \in Objects : Running(o)' => m_threadId'[o] \in Ids /\ PX_state'[o] # "PX_finished"
        BY <3>3, <3>4
      <4>2. m_shuttingDown'
        BY <3>2, <3>3
      <4>3. QED
        BY <4>1, <4>2
    <3>7. QED
      BY <3>5, <3>6
  <2>3. QED
    BY <2>1, <2>2
<1>20. CASE ShutDown
  BY <1>20 DEF ShutDown
<1>21. CASE StopKeeper
  BY <1>21 DEF StopKeeper, Objects
<1>22. CASE DeleteKeeper
  <2>1. m_shuttingDown /\ m_houseKeeper \in Objects \cup {None}
    BY <1>22 DEF DeleteKeeper, Objects
  <2>2. /\ pc' = [pc EXCEPT ![Main] = "destructor"]
        /\ arg' = [arg EXCEPT ![Main] = m_houseKeeper]
        /\ back' = [back EXCEPT ![Main] = "p_forget"]
        /\ UNCHANGED <<m_activeThreads, m_autoDeleteThreads, PX_state, m_threadId, made,
                       m_houseKeeper, m_shuttingDown, toTerminate>>
    BY <1>22 DEF DeleteKeeper, BeginDelete
  <2>3. Main \in Actors /\ \A x \in Objects : pc'[x] = pc[x]
    BY <2>2
  <2>4. FoundType'
    BY <2>1, <2>2, <2>3
  <2>5. Found'
    BY <2>1, <2>2, <2>3
  <2>6. QED
    BY <2>4, <2>5
<1>23. CASE ForgetKeeper
  BY <1>23 DEF ForgetKeeper
<1>24. CASE ListRemaining
  BY <1>24 DEF ListRemaining
<1>25. CASE TerminateRemaining
  BY <1>25 DEF TerminateRemaining
<1>26. CASE UNCHANGED vars
  BY <1>26 DEF vars
<1>27. QED
  <2>1. Callers \subseteq Owners /\ Workers \subseteq Objects /\ Keepers \subseteq Objects
        /\ Owners \subseteq Actors /\ Objects \subseteq Actors
    BY OwnersAssumption DEF Objects, Actors
  <2>2. QED
    BY <1>1, <1>2, <1>3, <1>4, <1>5, <1>6, <1>7, <1>8, <1>9, <1>10, <1>11, <1>12, <1>13, <1>14,
       <1>15, <1>16, <1>17, <1>18, <1>19, <1>20, <1>21, <1>22, <1>23, <1>24, <1>25, <1>26, <2>1
       DEF Next, CallStep, ThreadStep, KeeperStep, ShutDownStep

\* Of PThread and PProcess, for any number of threads and identifiers: a thread in
\* its Main is found under its identifier until the process is destroyed.
THEOREM ThreadsAreFound == Spec => []RunningIsFound
<1>1. FoundInv => RunningIsFound
  BY DEF FoundInv, Found, Running, RunningIsFound, Objects
<1>2. QED
  BY <1>1, InitFound, StepFound, PTL DEF Spec

-----------------------------------------------------------------------------
(* Who may delete an object.  At any time at most one of its creator, the  *)
(* holder of its pointer, somebody waiting for it, the thread itself and   *)
(* the queue has a claim to an object that is alive, and nobody has one to *)
(* an object whose destruction has begun.                                  *)

Dying == {"destroying", "freed"}

LifeType ==
  /\ object \in [Objects -> {"absent", "alive", "destroying", "freed"}]
  /\ m_type \in [Objects -> {"auto", "manual"}]
  /\ PX_synchroniseThreadFinish \in [Objects -> {"null", "unset", "set"}]
  /\ m_autoDeleteThreads \in Seq(Objects)
  /\ pointer \in [Workers -> BOOLEAN] /\ begun \in [Objects -> Nat]
  /\ m_keepingHouse \in BOOLEAN /\ late \in BOOLEAN /\ early \subseteq Workers

\* An owner that is creating a thread, and one that has not resumed it yet.
Starting     == {"stc", "stc_swap", "stc_assign"}
Creating(k)  == pc[k] \in {"created", "assign"} \cup Starting
Unresumed(k) == pc[k] = "created" \/ (pc[k] \in Starting /\ back[k] = "created")

OwnerPlaces  == {"idle", "created", "assign", "w_wait", "destructor"} \cup Starting \cup ShutDownPlaces
ObjectPlaces == InObject \cup {"none", "gone", "destructor"}

\* Where the actors are, and where their calls return to.
Placed ==
  /\ \A k \in Owners : /\ pc[k] \in OwnerPlaces
                       /\ pc[k] \in Starting => back[k] \in {"created", "assign"}
                       /\ pc[k] = "destructor" => back[k] \in {"idle", "p_forget", "p_delete"}
  /\ \A o \in Objects : /\ pc[o] \in ObjectPlaces
                        /\ pc[o] = "destructor" => back[o] = "h_delete"
  /\ \A o \in Objects : /\ object[o] = "absent" => pc[o] = "none"
                        /\ PX_state[o] = "PX_firstResume" => pc[o] = "none"

ByCreator(o) == o \notin AutoDelete /\ \E k \in Owners : Creating(k) /\ arg[k] = o
ByPointer(o) == o \in Workers /\ pointer[o]
ByWaiter(o)  == \E k \in Owners : pc[k] = "w_wait" /\ arg[k] = o
ByItself(o)  == m_type[o] = "auto"
ByQueue(o)   == \E n \in 1 .. Len(m_autoDeleteThreads) : m_autoDeleteThreads[n] = o

Claimed ==
  \A o \in Objects :
    /\ ByCreator(o) => /\ object[o] = "alive"
                       /\ ~ByPointer(o) /\ ~ByWaiter(o) /\ ~ByItself(o) /\ ~ByQueue(o)
    /\ ByPointer(o) => /\ object[o] = "alive" /\ o \notin AutoDelete
                       /\ ~ByWaiter(o) /\ ~ByItself(o) /\ ~ByQueue(o)
    /\ ByWaiter(o)  => /\ object[o] = "alive" /\ o \notin AutoDelete
                       /\ ~ByItself(o) /\ ~ByQueue(o)
    /\ ByItself(o)  => /\ o \in Workers /\ ~ByQueue(o)
                       /\ object[o] = "alive" \/ (object[o] = "absent" /\ o \in AutoDelete)
    /\ ByQueue(o)   => o \in Workers /\ object[o] = "alive" /\ pc[o] \in {"signal", "gone"}

\* Of each kind there is one at most.
Single ==
  /\ \A k \in Owners : Creating(k) => /\ arg[k] \in Workers /\ object[arg[k]] # "absent"
                                      /\ \A j \in Owners : Creating(j) /\ arg[j] = arg[k] => j = k
  /\ \A k \in Owners : Unresumed(k) => object[arg[k]] = "alive" /\ pc[arg[k]] = "none"
  /\ \A k \in Owners : pc[k] = "w_wait" =>
        arg[k] \in Workers /\ \A j \in Owners : pc[j] = "w_wait" /\ arg[j] = arg[k] => j = k
  /\ \A i, n \in 1 .. Len(m_autoDeleteThreads) :
        m_autoDeleteThreads[i] = m_autoDeleteThreads[n] => i = n

\* Destruction is begun once for an object and is under way in one place.
Destroyed ==
  /\ \A a \in Actors : pc[a] = "destructor" =>
        /\ arg[a] \in Objects /\ object[arg[a]] = "destroying"
        /\ \A b \in Actors : pc[b] = "destructor" /\ arg[b] = arg[a] => b = a
  /\ \A o \in Objects : begun[o] = IF object[o] \in Dying THEN 1 ELSE 0

\* The thread of an object that is freed has left it, and has signalled before.
Left ==
  /\ \A o \in Objects : /\ object[o] = "freed" => pc[o] \in {"none", "gone"}
                        /\ PX_synchroniseThreadFinish[o] = "set" => pc[o] \in {"ended", "gone"}
                        /\ pc[o] \in {"ended_signal", "signal"}
                             => PX_synchroniseThreadFinish[o] = "unset"
  /\ \A i \in Ids, o \in Objects : m_activeThreads[i] = o => i = m_threadId[o] /\ Running(o)

\* The housekeeper is deleted by the destructor of the process and by nobody else.
InKeeper == pc[Main] = "destructor" /\ back[Main] = "p_forget"
Before   == /\ pc[Main] \notin {"p_forget", "p_list", "p_terminate", "p_delete", "p_end"}
            /\ ~(pc[Main] = "destructor" /\ back[Main] \in {"p_forget", "p_delete"})
House ==
  /\ m_houseKeeper # None => /\ object[m_houseKeeper] # "absent"
                             /\ object[m_houseKeeper] = "alive" \/ pc[Main] = "p_forget" \/ InKeeper
  /\ InKeeper => \A h \in Keepers : object[h] \in Dying => h = arg[Main]
  /\ Before => \A h \in Keepers : object[h] \notin Dying
  /\ pc[Main] = "p_wait" => m_houseKeeper # None
  /\ \A k \in Owners : pc[k] = "stc_assign" =>
        /\ made[k] \in Keepers /\ object[made[k]] = "alive" /\ m_houseKeeper # made[k]
        /\ \A j \in Owners : pc[j] = "stc_assign" /\ made[j] = made[k] => j = k

LifeInv == LifeType /\ Placed /\ Claimed /\ Single /\ Destroyed /\ Left /\ House

\* Unless a late caller starts another, there is one housekeeper; then an object
\* whose destruction has begun has ended, but for those deleted early.
OneKeeper ==
  /\ \A g, h \in Keepers : object[g] # "absent" /\ object[h] # "absent" => g = h
  /\ ~m_shuttingDown /\ ~m_keepingHouse => \A h \in Keepers : object[h] = "absent"
  /\ pc[Main] = "p_wait" => arg[Main] \in Keepers /\ object[arg[Main]] # "absent"
EndedInv ==
  /\ late => m_shuttingDown
  /\ ~late => OneKeeper /\ \A o \in Objects \ early : object[o] \in Dying => ~Running(o)

LEMMA Kinds == /\ Workers \subseteq Objects /\ Keepers \subseteq Objects /\ Workers \cap Keepers = {}
               /\ AutoDelete \subseteq Workers /\ Callers \subseteq Owners
               /\ Objects \subseteq Actors /\ Owners \subseteq Actors
               /\ Objects = Workers \cup Keepers
BY OwnersAssumption, WorkersAssumption DEF Objects, Actors

LEMMA InitLife == Init => LifeInv /\ EndedInv
<1> SUFFICES ASSUME Init PROVE LifeInv /\ EndedInv
  OBVIOUS
<1> USE Apart, Kinds DEF Init
<1>1. LifeType
  <2>1. /\ object \in [Objects -> {"absent", "alive", "destroying", "freed"}]
        /\ m_type \in [Objects -> {"auto", "manual"}]
        /\ PX_synchroniseThreadFinish \in [Objects -> {"null", "unset", "set"}]
    OBVIOUS
  <2>2. /\ m_autoDeleteThreads \in Seq(Objects)
        /\ pointer \in [Workers -> BOOLEAN] /\ begun \in [Objects -> Nat]
    OBVIOUS
  <2>3. m_keepingHouse \in BOOLEAN /\ late \in BOOLEAN /\ early \subseteq Workers
    OBVIOUS
  <2>4. QED
    BY <2>1, <2>2, <2>3 DEF LifeType
<1>2. Placed
  BY DEF Placed, OwnerPlaces, ObjectPlaces, Starting, Actors
<1>3. Claimed
  BY DEF Claimed, ByCreator, ByPointer, ByWaiter, ByItself, ByQueue, Creating, Starting, Actors
<1>4. Single
  BY DEF Single, Creating, Unresumed, Starting, Actors
<1>5. Destroyed
  BY DEF Destroyed, Dying, Actors
<1>6. Left
  BY DEF Left
<1>7. House
  BY DEF House, InKeeper, Before, Dying, Actors
<1>8. EndedInv
  BY DEF EndedInv, OneKeeper, Dying, Actors
<1>9. QED
  BY <1>1, <1>2, <1>3, <1>4, <1>5, <1>6, <1>7, <1>8 DEF LifeInv

\* Whoever begins to delete an object gives up the one claim there is to it.
LEMMA BeginKeepsClaims ==
  ASSUME LifeInv, FoundInv, NEW a \in Actors, NEW o \in Objects, NEW return,
         BeginDelete(a, o, return), pc[a] \in {"idle", "w_wait", "p_wait", "p_delete", "h_delete"},
         UNCHANGED m_type, object[o] = "alive", m_type[o] = "manual",
         ~ByCreator(o), ~ByPointer(o)', ~ByWaiter(o)', ~ByQueue(o)',
         \A x \in Objects : (ByPointer(x)' => ByPointer(x)) /\ (ByQueue(x)' => ByQueue(x))
  PROVE  Claimed' /\ Destroyed'
<1>1. /\ \A x \in Objects : object'[x] = IF x = o THEN "destroying" ELSE object[x]
      /\ \A x \in Objects : begun'[x] = IF x = o THEN begun[o] + 1 ELSE begun[x]
      /\ \A b \in Actors : pc'[b] = IF b = a THEN "destructor" ELSE pc[b]
      /\ \A b \in Actors : arg'[b] = IF b = a THEN o ELSE arg[b]
  BY DEF BeginDelete, LifeInv, LifeType, FoundInv, FoundType
<1>2. \A x \in Objects : (ByWaiter(x)' => ByWaiter(x)) /\ (ByCreator(x)' => ByCreator(x))
  BY <1>1, Kinds DEF ByWaiter, ByCreator, Creating, Starting
<1>3. Claimed'
  <2> SUFFICES ASSUME NEW x \in Objects
               PROVE  /\ ByCreator(x)' => /\ object'[x] = "alive"
                                          /\ ~ByPointer(x)' /\ ~ByWaiter(x)' /\ ~ByItself(x)' /\ ~ByQueue(x)'
                      /\ ByPointer(x)' => /\ object'[x] = "alive" /\ x \notin AutoDelete
                                          /\ ~ByWaiter(x)' /\ ~ByItself(x)' /\ ~ByQueue(x)'
                      /\ ByWaiter(x)'  => /\ object'[x] = "alive" /\ x \notin AutoDelete
                                          /\ ~ByItself(x)' /\ ~ByQueue(x)'
                      /\ ByItself(x)'  => /\ x \in Workers /\ ~ByQueue(x)'
                                          /\ object'[x] = "alive" \/ (object'[x] = "absent" /\ x \in AutoDelete)
                      /\ ByQueue(x)'   => x \in Workers /\ object'[x] = "alive" /\ pc'[x] \in {"signal", "gone"}
    BY DEF Claimed
  <2>1. ByItself(x)' <=> ByItself(x)
    BY DEF ByItself
  <2>2. CASE x = o
    BY <1>2, <2>1, <2>2 DEF ByItself
  <2>3. CASE x # o
    <3>1. object'[x] = object[x] /\ (pc[x] \in {"signal", "gone"} => pc'[x] = pc[x])
      BY <1>1, <2>3, Kinds
    <3>2. QED
      BY <1>2, <2>1, <3>1 DEF LifeInv, Claimed
  <2>4. QED
    BY <2>2, <2>3
<1>4. Destroyed'
  <2>1. \A x \in Objects : object[x] = "destroying" => x # o
    OBVIOUS
  <2>2. ASSUME NEW b \in Actors, pc'[b] = "destructor"
        PROVE  /\ arg'[b] \in Objects /\ object'[arg'[b]] = "destroying"
               /\ \A c \in Actors : pc'[c] = "destructor" /\ arg'[c] = arg'[b] => c = b
    BY <1>1, <2>1, <2>2 DEF LifeInv, Destroyed
  <2>3. \A x \in Objects : begun'[x] = IF object'[x] \in Dying THEN 1 ELSE 0
    BY <1>1 DEF LifeInv, Destroyed, Dying
  <2>4. QED
    BY <2>2, <2>3 DEF Destroyed
<1>5. QED
  BY <1>3, <1>4

\* WaitAndDelete, which deletes at once what has not begun to run.
LEMMA WaitKeepsLife ==
  ASSUME LifeInv, FoundInv, EndedInv, NEW k \in Owners, NEW w \in Workers, WaitAndDelete(k, w)
  PROVE  LifeInv' /\ EndedInv'
<1> USE Apart, Kinds
<1>0. /\ pc[k] = "idle" /\ pointer[w]
      /\ pointer' = [pointer EXCEPT ![w] = FALSE]
      /\ UNCHANGED <<threadVars, listVars, processVars, late>>
      /\ pointer \in [Workers -> BOOLEAN]
  BY DEF WaitAndDelete, Goto, LifeInv, LifeType
<1>1. /\ object[w] = "alive" /\ m_type[w] = "manual" /\ w \in Objects /\ w \notin AutoDelete
      /\ ~ByCreator(w) /\ ~ByWaiter(w) /\ ~ByQueue(w)
  <2>1. ByPointer(w) /\ m_type[w] \in {"auto", "manual"} /\ w \in Objects
    BY <1>0 DEF ByPointer, LifeInv, LifeType
  <2>2. QED
    BY <2>1 DEF LifeInv, Claimed, ByItself
<1>2. \A x \in Objects : /\ ByPointer(x)' => ByPointer(x) /\ x # w
                         /\ ByQueue(x)' <=> ByQueue(x)
                         /\ ByItself(x)' <=> ByItself(x)
  BY <1>0 DEF ByPointer, ByQueue, ByItself, listVars, threadVars
<1>3. CASE PX_state[w] \in {"PX_firstResume", "PX_starting"}
  <2>0. /\ BeginDelete(k, w, "idle")
        /\ early' = IF PX_state[w] = "PX_starting" THEN early \cup {w} ELSE early
    BY <1>3 DEF WaitAndDelete
  <2>1. /\ object' = [object EXCEPT ![w] = "destroying"] /\ begun' = [begun EXCEPT ![w] = @ + 1]
        /\ \A a \in Actors : /\ pc'[a] = IF a = k THEN "destructor" ELSE pc[a]
                             /\ arg'[a] = IF a = k THEN w ELSE arg[a]
                             /\ back'[a] = IF a = k THEN "idle" ELSE back[a]
    BY <2>0 DEF BeginDelete, FoundInv, FoundType
  <2>2. LifeType'
    BY <1>0, <2>0, <2>1 DEF LifeInv, LifeType, threadVars, listVars, processVars
  <2>3. \A x \in Objects : /\ pc'[x] = pc[x] /\ back'[x] = back[x]
                            /\ object'[x] = IF x = w THEN "destroying" ELSE object[x]
    BY <2>1 DEF LifeInv, LifeType
  <2>4. Placed'
    <3>1. \A j \in Owners : /\ pc'[j] \in OwnerPlaces
                            /\ pc'[j] \in Starting => back'[j] \in {"created", "assign"}
                            /\ pc'[j] = "destructor" => back'[j] \in {"idle", "p_forget", "p_delete"}
      BY <2>1 DEF LifeInv, Placed, OwnerPlaces, Starting
    <3>2. UNCHANGED PX_state
      BY <1>0 DEF threadVars
    <3>3. QED
      BY <2>3, <3>1, <3>2 DEF LifeInv, Placed
  <2>5. Claimed' /\ Destroyed'
    <3>1. ~ByPointer(w)' /\ ~ByQueue(w)'
      BY <1>1, <1>2
    <3>2. ~ByWaiter(w)'
      BY <1>1, <2>1 DEF ByWaiter
    <3>3. UNCHANGED m_type
      BY <1>0 DEF threadVars
    <3>4. k \in Actors
      OBVIOUS
    <3>5. QED
      BY <1>0, <1>1, <1>2, <2>0, <3>1, <3>2, <3>3, <3>4, BeginKeepsClaims
  <2>6. Single'
    <3>1. \A j \in Owners : /\ Creating(j)' => Creating(j) /\ j # k
                            /\ Unresumed(j)' => Unresumed(j) /\ Creating(j) /\ j # k
      BY <2>1 DEF Creating, Unresumed, Starting
    <3>2. \A j \in Owners : Creating(j) /\ object[arg[j]] = "alive" /\ arg[j] = w => FALSE
      BY <1>1 DEF ByCreator
    <3>3. \A j \in Owners : Creating(j) => arg[j] \in Objects /\ arg[j] # w
      BY <1>1 DEF ByCreator, LifeInv, Single
    <3>4. UNCHANGED m_autoDeleteThreads
      BY <1>0 DEF listVars
    <3>5. QED
      BY <2>1, <2>3, <3>1, <3>3, <3>4 DEF LifeInv, Single
  <2>7. Left'
    <3>1. UNCHANGED <<PX_synchroniseThreadFinish, m_activeThreads, m_threadId>>
      BY <1>0 DEF threadVars, listVars
    <3>2. QED
      BY <2>3, <3>1 DEF LifeInv, Left, Running
  <2>8. House'
    BY <1>0, <1>1, <2>1 DEF LifeInv, LifeType, House, InKeeper, Before, Dying, processVars, FoundInv,
                            FoundType
  <2>9. EndedInv'
    <3>1. w \in early' \/ ~Running(w)
      BY <1>3, <2>0 DEF LifeInv, Placed, Running
    <3>2. \A x \in Objects : Running(x)' => Running(x)
      BY <2>1 DEF Running
    <3>3. QED
      BY <1>0, <2>0, <2>1, <3>1, <3>2 DEF LifeInv, LifeType, EndedInv, OneKeeper, Dying, processVars
  <2>10. QED
    BY <2>2, <2>4, <2>5, <2>6, <2>7, <2>8, <2>9 DEF LifeInv
<1>4. CASE PX_state[w] \notin {"PX_firstResume", "PX_starting"}
  <2>1. /\ UNCHANGED <<object, back, begun, early>>
        /\ \A a \in Actors : /\ pc'[a] = IF a = k THEN "w_wait" ELSE pc[a]
                             /\ arg'[a] = IF a = k THEN w ELSE arg[a]
    BY <1>4 DEF WaitAndDelete, FoundInv, FoundType
  <2>2. LifeType'
    BY <1>0, <2>1 DEF LifeInv, LifeType, threadVars, listVars, processVars
  <2>3. Placed'
    BY <1>0, <2>1 DEF LifeInv, Placed, OwnerPlaces, Starting, threadVars
  <2>4. Claimed'
    <3>1. \A x \in Objects : /\ ByWaiter(x)' <=> ByWaiter(x) \/ x = w
                             /\ ByCreator(x)' <=> ByCreator(x)
      BY <1>0, <2>1 DEF ByWaiter, ByCreator, Creating, Starting
    <3>2. ~ByItself(w)
      BY <1>1 DEF ByItself
    <3>3. \A x \in Objects : pc'[x] = pc[x]
      BY <2>1
    <3>4. QED
      BY <1>1, <1>2, <2>1, <3>1, <3>2, <3>3 DEF LifeInv, Claimed
  <2>5. Single'
    <3>1. \A j \in Owners : /\ Creating(j)' => Creating(j) /\ j # k
                            /\ Unresumed(j)' => Unresumed(j) /\ Creating(j) /\ j # k
      BY <2>1 DEF Creating, Unresumed, Starting
    <3>2. \A j \in Owners : pc[j] = "w_wait" => arg[j] # w
      BY <1>1 DEF ByWaiter
    <3>3. UNCHANGED m_autoDeleteThreads
      BY <1>0 DEF listVars
    <3>4. QED
      BY <1>0, <2>1, <3>1, <3>2, <3>3 DEF LifeInv, Single
  <2>6. Destroyed' /\ Left'
    <3>1. UNCHANGED <<PX_synchroniseThreadFinish, m_activeThreads, m_threadId>>
      BY <1>0 DEF threadVars, listVars
    <3>2. \A x \in Objects : pc'[x] = pc[x]
      BY <2>1
    <3>3. Destroyed'
      BY <1>0, <2>1 DEF LifeInv, Destroyed
    <3>4. QED
      BY <2>1, <3>1, <3>2, <3>3 DEF LifeInv, Left, Running
  <2>7. House' /\ EndedInv'
    BY <1>0, <2>1 DEF LifeInv, House, InKeeper, Before, EndedInv, OneKeeper, Running, processVars
  <2>8. QED
    BY <2>2, <2>3, <2>4, <2>5, <2>6, <2>7 DEF LifeInv
<1>5. QED
  BY <1>3, <1>4

LEMMA DeleteTerminatedKeepsLife ==
  ASSUME LifeInv, FoundInv, EndedInv, NEW k \in Owners, DeleteTerminated(k)
  PROVE  LifeInv' /\ EndedInv'
<1> USE Apart, Kinds
<1>0. PICK w \in Objects : /\ w = arg[k] /\ w \in Workers /\ pc[k] = "w_wait" /\ IsTerminated(w)
                           /\ BeginDelete(k, w, "idle")
  BY DEF DeleteTerminated, LifeInv, Single
<1>1. UNCHANGED <<threadVars, listVars, processVars, pointer, early, late>>
  BY DEF DeleteTerminated
<1>2. /\ object[w] = "alive" /\ m_type[w] = "manual"
      /\ ~ByCreator(w) /\ ~ByPointer(w) /\ ~ByQueue(w)
  <2>1. ByWaiter(w) /\ m_type[w] \in {"auto", "manual"}
    BY <1>0 DEF ByWaiter, LifeInv, LifeType
  <2>2. QED
    BY <2>1 DEF LifeInv, Claimed, ByItself
<1>3. /\ object' = [object EXCEPT ![w] = "destroying"] /\ begun' = [begun EXCEPT ![w] = @ + 1]
      /\ \A a \in Actors : /\ pc'[a] = IF a = k THEN "destructor" ELSE pc[a]
                           /\ arg'[a] = IF a = k THEN w ELSE arg[a]
                           /\ back'[a] = IF a = k THEN "idle" ELSE back[a]
  BY <1>0 DEF BeginDelete, FoundInv, FoundType
<1>4. \A x \in Objects : /\ pc'[x] = pc[x] /\ back'[x] = back[x]
                         /\ object'[x] = IF x = w THEN "destroying" ELSE object[x]
  BY <1>3 DEF LifeInv, LifeType
<1>5. LifeType'
  BY <1>1, <1>3 DEF LifeInv, LifeType, threadVars, listVars, processVars
<1>6. Placed'
  <2>1. \A j \in Owners : /\ pc'[j] \in OwnerPlaces
                          /\ pc'[j] \in Starting => back'[j] \in {"created", "assign"}
                          /\ pc'[j] = "destructor" => back'[j] \in {"idle", "p_forget", "p_delete"}
    BY <1>3 DEF LifeInv, Placed, OwnerPlaces, Starting
  <2>2. UNCHANGED PX_state
    BY <1>1 DEF threadVars
  <2>3. QED
    BY <1>4, <2>1, <2>2 DEF LifeInv, Placed
<1>7. Claimed' /\ Destroyed'
  <2>1. \A x \in Objects : (ByPointer(x)' <=> ByPointer(x)) /\ (ByQueue(x)' <=> ByQueue(x))
    BY <1>1 DEF ByPointer, ByQueue, listVars
  <2>2. ~ByPointer(w)' /\ ~ByQueue(w)'
    BY <1>2, <2>1
  <2>3. ~ByWaiter(w)'
    BY <1>0, <1>3 DEF ByWaiter, LifeInv, Single
  <2>4. UNCHANGED m_type
    BY <1>1 DEF threadVars
  <2>5. k \in Actors
    OBVIOUS
  <2>6. QED
    BY <1>0, <1>2, <2>1, <2>2, <2>3, <2>4, <2>5, BeginKeepsClaims
<1>8. Single'
  <2>1. \A j \in Owners : /\ Creating(j)' => Creating(j) /\ j # k
                          /\ Unresumed(j)' => Unresumed(j) /\ Creating(j) /\ j # k
    BY <1>3 DEF Creating, Unresumed, Starting
  <2>2. w \notin AutoDelete
    BY <1>0 DEF ByWaiter, LifeInv, Claimed
  <2>3. \A j \in Owners : Creating(j) => arg[j] \in Objects /\ arg[j] # w
    BY <1>2, <2>2 DEF ByCreator, LifeInv, Single
  <2>4. UNCHANGED m_autoDeleteThreads
    BY <1>1 DEF listVars
  <2>5. QED
    BY <1>3, <1>4, <2>1, <2>3, <2>4 DEF LifeInv, Single
<1>9. Left'
  <2>1. UNCHANGED <<PX_synchroniseThreadFinish, m_activeThreads, m_threadId>>
    BY <1>1 DEF threadVars, listVars
  <2>2. QED
    BY <1>4, <2>1 DEF LifeInv, Left, Running
<1>10. House'
  BY <1>0, <1>1, <1>2, <1>3 DEF LifeInv, LifeType, House, InKeeper, Before, Dying, processVars,
                                FoundInv, FoundType
<1>11. EndedInv'
  <2>1. ~Running(w)
    BY <1>0 DEF FoundInv, Found, IsTerminated
  <2>2. \A x \in Objects : Running(x)' => Running(x)
    BY <1>4 DEF Running
  <2>3. UNCHANGED <<m_shuttingDown, m_keepingHouse, early, late>>
    BY <1>1 DEF processVars
  <2>4. ~late => OneKeeper'
    BY <1>2, <1>3, <1>4, <2>3 DEF EndedInv, OneKeeper
  <2>5. ~late => \A x \in Objects \ early : object'[x] \in Dying => ~Running(x)'
    BY <1>4, <2>1, <2>2 DEF EndedInv, Dying
  <2>6. QED
    BY <2>3, <2>4, <2>5 DEF EndedInv
<1>12. QED
  BY <1>5, <1>6, <1>7, <1>8, <1>9, <1>10, <1>11 DEF LifeInv

\* Of an object that is taken from the queue there is no other claim.
LEMMA DequeueKeepsLife ==
  ASSUME LifeInv, FoundInv, EndedInv, NEW a \in Actors, NEW at, NEW then,
         at \in {"h_delete", "p_delete"}, a \in Owners => at = "p_delete" /\ then = "p_end",
         a \in Objects => a \in Keepers /\ at = "h_delete" /\ then = "h_loop",
         DeleteQueued(a, at, then)
  PROVE  LifeInv' /\ EndedInv'
<1> USE Apart, Kinds
<1>1. CASE m_autoDeleteThreads = <<>>
  <2>1. UNCHANGED <<object, threadVars, listVars, processVars, arg, back, pointer, history>>
        /\ pc[a] = at /\ pc' = [pc EXCEPT ![a] = then] 
    BY <1>1 DEF DeleteQueued, Goto
  <2>2. \A b \in Actors : pc'[b] = IF b = a THEN then ELSE pc[b]
    BY <2>1 DEF FoundInv, FoundType
  <2>3. LifeType'
    BY <2>1 DEF LifeInv, LifeType, threadVars, listVars, processVars, history
  <2>4. Placed'
    BY <2>1, <2>2 DEF LifeInv, Placed, OwnerPlaces, ObjectPlaces, InObject, Starting, ShutDownPlaces,
                      threadVars
  <2>5. Claimed'
    <3>1. \A x \in Objects : /\ ByCreator(x)' <=> ByCreator(x)
                             /\ ByPointer(x)' <=> ByPointer(x) 
                             /\ ByWaiter(x)' <=> ByWaiter(x)
                             /\ ByItself(x)' <=> ByItself(x)
                             /\ ByQueue(x)' <=> ByQueue(x)
      BY <2>1, <2>2 DEF ByCreator, ByPointer, ByWaiter, ByItself, ByQueue, Creating, Starting,
                        threadVars, listVars
    <3>2. \A x \in Objects : pc[x] \in {"signal", "gone"} => pc'[x] = pc[x]
      BY <2>1, <2>2
    <3>3. QED
      BY <2>1, <3>1, <3>2 DEF LifeInv, Claimed
  <2>6. Single'
    BY <2>1, <2>2 DEF LifeInv, Single, Creating, Unresumed, Starting, listVars
  <2>7. Destroyed'
    <3>1. UNCHANGED <<begun, object, arg>> /\ then # "destructor"
      BY <2>1, OwnersAssumption DEF history, Actors
    <3>2. QED
      BY <2>1, <2>2, <3>1 DEF LifeInv, Destroyed
  <2>8. Left'
    BY <2>1, <2>2 DEF LifeInv, Left, Running, threadVars, listVars, FoundInv, FoundType
  <2>9. House'
    BY <2>1, <2>2 DEF LifeInv, House, InKeeper, Before, processVars
  <2>10. EndedInv'
    BY <2>1, <2>2 DEF LifeInv, EndedInv, OneKeeper, Running, processVars, history
  <2>11. QED
    BY <2>3, <2>4, <2>5, <2>6, <2>7, <2>8, <2>9, <2>10 DEF LifeInv
<1>2. CASE m_autoDeleteThreads # <<>>
  <2>0. /\ 1 \in 1 .. Len(m_autoDeleteThreads) /\ Head(m_autoDeleteThreads) = m_autoDeleteThreads[1]
        /\ m_autoDeleteThreads[1] \in Objects
        /\ Tail(m_autoDeleteThreads) \in Seq(Objects)
        /\ Len(Tail(m_autoDeleteThreads)) = Len(m_autoDeleteThreads) - 1 /\ Len(m_autoDeleteThreads) \in Nat
        /\ \A n \in 1 .. Len(Tail(m_autoDeleteThreads)) :
              Tail(m_autoDeleteThreads)[n] = m_autoDeleteThreads[n + 1]
    BY <1>2 DEF LifeInv, LifeType
  <2>1. PICK w \in Objects : w = m_autoDeleteThreads[1]
    BY <2>0
  <2>2. /\ pc[a] = at /\ m_autoDeleteThreads' = Tail(m_autoDeleteThreads)
        /\ BeginDelete(a, w, at)
        /\ UNCHANGED <<threadVars, m_activeThreads, processVars, pointer, early, late>>
    BY <1>2, <2>0, <2>1 DEF DeleteQueued
  <2>3. /\ object[w] = "alive" /\ m_type[w] = "manual" /\ w \in Workers /\ pc[w] \in {"signal", "gone"}
        /\ ~ByCreator(w) /\ ~ByPointer(w) /\ ~ByWaiter(w)
    <3>1. ByQueue(w) /\ m_type[w] \in {"auto", "manual"}
      BY <2>0, <2>1 DEF ByQueue, LifeInv, LifeType
    <3>2. QED
      BY <3>1 DEF LifeInv, Claimed, ByItself
  <2>4. /\ object' = [object EXCEPT ![w] = "destroying"] /\ begun' = [begun EXCEPT ![w] = @ + 1]
        /\ \A b \in Actors : /\ pc'[b] = IF b = a THEN "destructor" ELSE pc[b]
                             /\ arg'[b] = IF b = a THEN w ELSE arg[b]
                             /\ back'[b] = IF b = a THEN at ELSE back[b]
    BY <2>2 DEF BeginDelete, FoundInv, FoundType
  <2>5. \A x \in Objects : object'[x] = IF x = w THEN "destroying" ELSE object[x]
    BY <2>4 DEF LifeInv, LifeType
  <2>6. \A x \in Objects : ByQueue(x)' => ByQueue(x) /\ x # w
    <3>1. ASSUME NEW x \in Objects, NEW n \in 1 .. Len(m_autoDeleteThreads'),
                 m_autoDeleteThreads'[n] = x
          PROVE  n + 1 \in 1 .. Len(m_autoDeleteThreads) /\ m_autoDeleteThreads[n + 1] = x /\ n + 1 # 1
      BY <2>0, <2>2, <3>1
    <3>2. \A n \in 1 .. Len(m_autoDeleteThreads) : n # 1 => m_autoDeleteThreads[n] # m_autoDeleteThreads[1]
      BY <2>0 DEF LifeInv, Single
    <3>3. QED
      BY <2>1, <3>1, <3>2 DEF ByQueue
  <2>7. LifeType'
    BY <2>0, <2>2, <2>4 DEF LifeInv, LifeType, threadVars, processVars
  <2>8. Placed'
    <3>1. \A j \in Owners : /\ pc'[j] \in OwnerPlaces
                            /\ pc'[j] \in Starting => back'[j] \in {"created", "assign"}
                            /\ pc'[j] = "destructor" => back'[j] \in {"idle", "p_forget", "p_delete"}
      BY <2>4 DEF LifeInv, Placed, OwnerPlaces, Starting
    <3>2. UNCHANGED PX_state
      BY <2>2 DEF threadVars
    <3>3. \A x \in Objects : /\ pc'[x] \in ObjectPlaces
                             /\ pc'[x] = "destructor" => back'[x] = "h_delete"
      BY <2>4 DEF LifeInv, Placed, ObjectPlaces
    <3>4. \A x \in Objects : pc[x] = "none" => pc'[x] = "none"
      BY <2>2, <2>4
    <3>5. QED
      BY <2>5, <3>1, <3>2, <3>3, <3>4 DEF LifeInv, Placed
  <2>9. Claimed' /\ Destroyed'
    <3>1. \A x \in Objects : (ByPointer(x)' <=> ByPointer(x)) /\ (ByQueue(x)' => ByQueue(x))
      BY <2>2, <2>6 DEF ByPointer
    <3>2. ~ByPointer(w)' /\ ~ByQueue(w)'
      BY <2>3, <2>6, <3>1
    <3>3. ~ByWaiter(w)'
      BY <2>3, <2>4 DEF ByWaiter
    <3>4. UNCHANGED m_type
      BY <2>2 DEF threadVars
    <3>5. QED
      BY <2>2, <2>3, <3>1, <3>2, <3>3, <3>4, BeginKeepsClaims
  <2>10. Single'
    <3>1. \A j \in Owners : /\ Creating(j)' => Creating(j) /\ j # a
                            /\ Unresumed(j)' => Unresumed(j) /\ Creating(j) /\ j # a
      BY <2>4 DEF Creating, Unresumed, Starting
    <3>2. \A j \in Owners : Unresumed(j) => arg[j] # w
      BY <2>3 DEF LifeInv, Single
    <3>3. \A i, n \in 1 .. Len(m_autoDeleteThreads') :
            m_autoDeleteThreads'[i] = m_autoDeleteThreads'[n] => i = n
      <4>1. ASSUME NEW i \in 1 .. Len(m_autoDeleteThreads'), NEW n \in 1 .. Len(m_autoDeleteThreads'),
                   m_autoDeleteThreads'[i] = m_autoDeleteThreads'[n]
            PROVE  i = n
        <5>1. i + 1 \in 1 .. Len(m_autoDeleteThreads) /\ n + 1 \in 1 .. Len(m_autoDeleteThreads)
              /\ m_autoDeleteThreads[i + 1] = m_autoDeleteThreads[n + 1]
          BY <2>0, <2>2, <4>1
        <5>2. i + 1 = n + 1
          BY <5>1 DEF LifeInv, Single
        <5>3. QED
          BY <5>2
      <4>2. QED
        BY <4>1
    <3>4. \A x \in Objects : pc[x] = "none" => pc'[x] = "none"
      BY <2>2, <2>4
    <3>5. \A x \in Objects : object'[x] = "absent" => object[x] = "absent"
      BY <2>5
    <3>6. QED
      BY <2>4, <2>5, <3>1, <3>2, <3>3, <3>4, <3>5 DEF LifeInv, Single
  <2>11. Left'
    <3>1. UNCHANGED <<PX_synchroniseThreadFinish, m_activeThreads, m_threadId>>
      BY <2>2 DEF threadVars
    <3>2. \A x \in Objects : /\ pc'[x] = pc[x] \/ (pc[x] = "h_delete" /\ pc'[x] = "destructor")
                             /\ object'[x] = "freed" => object[x] = "freed"
      BY <2>2, <2>4, <2>5
    <3>3. QED
      BY <3>1, <3>2 DEF LifeInv, Left, Running
  <2>12. House'
    BY <2>2, <2>3, <2>4 DEF LifeInv, LifeType, House, InKeeper, Before, Dying, processVars, FoundInv,
                            FoundType
  <2>13. EndedInv'
    <3>1. ~Running(w) 
      BY <2>3 DEF Running
    <3>2. \A x \in Objects : Running(x)' => Running(x)
      BY <2>2, <2>4 DEF Running
    <3>3. UNCHANGED <<m_shuttingDown, m_keepingHouse, early, late>>
      BY <2>2 DEF processVars
    <3>4. ~late => OneKeeper'
      BY <2>3, <2>4, <2>5, <3>3 DEF EndedInv, OneKeeper
    <3>5. ~late => \A x \in Objects \ early : object'[x] \in Dying => ~Running(x)'
      BY <2>5, <3>1, <3>2 DEF EndedInv, Dying
    <3>6. QED
      BY <3>3, <3>4, <3>5 DEF EndedInv
  <2>14. QED
    BY <2>7, <2>8, <2>9, <2>10, <2>11, <2>12, <2>13 DEF LifeInv
<1>3. QED
  BY <1>1, <1>2

LEMMA DeleteKeeperKeepsLife ==
  ASSUME LifeInv, FoundInv, EndedInv, DeleteKeeper
  PROVE  LifeInv' /\ EndedInv'
<1> USE Apart, Kinds
<1>0. /\ pc[Main] = "p_wait" /\ m_houseKeeper \in Keepers /\ object[m_houseKeeper] = "alive"
      /\ IsTerminated(arg[Main])
      /\ UNCHANGED <<threadVars, listVars, processVars, pointer, early, late>>
  BY DEF DeleteKeeper, LifeInv, House, InKeeper, FoundInv, FoundType
<1>1. PICK h \in Objects : h = m_houseKeeper /\ h \in Keepers /\ BeginDelete(Main, h, "p_forget")
  BY <1>0 DEF DeleteKeeper
<1>2. /\ ~ByCreator(h) /\ ~ByPointer(h) /\ ~ByWaiter(h) /\ ~ByQueue(h) /\ m_type[h] = "manual"
      /\ object[h] = "alive"
  <2>1. h \notin Workers /\ m_type[h] \in {"auto", "manual"}
    BY <1>1 DEF LifeInv, LifeType
  <2>2. ~ByCreator(h) /\ ~ByWaiter(h)
    BY <2>1 DEF ByCreator, ByWaiter, LifeInv, Single
  <2>3. QED
    BY <1>0, <1>1, <2>1, <2>2 DEF ByPointer, ByItself, LifeInv, Claimed
<1>3. /\ object' = [object EXCEPT ![h] = "destroying"] /\ begun' = [begun EXCEPT ![h] = @ + 1]
      /\ \A a \in Actors : /\ pc'[a] = IF a = Main THEN "destructor" ELSE pc[a]
                           /\ arg'[a] = IF a = Main THEN h ELSE arg[a]
                           /\ back'[a] = IF a = Main THEN "p_forget" ELSE back[a]
  BY <1>1 DEF BeginDelete, FoundInv, FoundType
<1>4. \A x \in Objects : /\ pc'[x] = pc[x] /\ back'[x] = back[x]
                         /\ object'[x] = IF x = h THEN "destroying" ELSE object[x]
  BY <1>3 DEF LifeInv, LifeType
<1>5. LifeType'
  BY <1>0, <1>3 DEF LifeInv, LifeType, threadVars, listVars, processVars
<1>6. Placed'
  <2>1. \A j \in Owners : /\ pc'[j] \in OwnerPlaces
                          /\ pc'[j] \in Starting => back'[j] \in {"created", "assign"}
                          /\ pc'[j] = "destructor" => back'[j] \in {"idle", "p_forget", "p_delete"}
    BY <1>3 DEF LifeInv, Placed, OwnerPlaces, Starting
  <2>2. UNCHANGED PX_state
    BY <1>0 DEF threadVars
  <2>3. QED
    BY <1>4, <2>1, <2>2 DEF LifeInv, Placed
<1>7. Claimed' /\ Destroyed'
  <2>1. \A x \in Objects : (ByPointer(x)' <=> ByPointer(x)) /\ (ByQueue(x)' <=> ByQueue(x))
    BY <1>0 DEF ByPointer, ByQueue, listVars
  <2>2. ~ByPointer(h)' /\ ~ByQueue(h)'
    BY <1>2, <2>1
  <2>3. ~ByWaiter(h)'
    BY <1>2, <1>3 DEF ByWaiter
  <2>4. UNCHANGED m_type
    BY <1>0 DEF threadVars
  <2>5. Main \in Actors
    OBVIOUS
  <2>6. QED
    BY <1>0, <1>1, <1>2, <2>1, <2>2, <2>3, <2>4, <2>5, BeginKeepsClaims
<1>8. Single'
  <2>1. \A j \in Owners : /\ Creating(j)' => Creating(j) /\ j # Main
                          /\ Unresumed(j)' => Unresumed(j) /\ Creating(j) /\ j # Main
    BY <1>3 DEF Creating, Unresumed, Starting
  <2>2. \A j \in Owners : Creating(j) => arg[j] \in Objects /\ arg[j] # h
    BY <1>1 DEF LifeInv, Single
  <2>3. UNCHANGED m_autoDeleteThreads
    BY <1>0 DEF listVars
  <2>4. QED
    BY <1>3, <1>4, <2>1, <2>2, <2>3 DEF LifeInv, Single
<1>9. Left'
  <2>1. UNCHANGED <<PX_synchroniseThreadFinish, m_activeThreads, m_threadId>>
    BY <1>0 DEF threadVars, listVars
  <2>2. QED
    BY <1>4, <2>1 DEF LifeInv, Left, Running
<1>10. House'
  <2>1. UNCHANGED <<m_houseKeeper, made>>
    BY <1>0 DEF processVars
  <2>2. /\ pc'[Main] = "destructor" /\ back'[Main] = "p_forget" /\ arg'[Main] = h
        /\ \A k \in Owners : pc'[k] = "stc_assign" => pc[k] = "stc_assign" /\ made[k] # h
    BY <1>1, <1>3 DEF LifeInv, House
  <2>3. \A g \in Keepers : object'[g] \in Dying => g = h
    BY <1>0, <1>4 DEF LifeInv, House, Before, Dying
  <2>4. \A k \in Owners : pc'[k] = "stc_assign" =>
           /\ made[k] \in Keepers /\ object'[made[k]] = "alive" /\ m_houseKeeper # made[k]
           /\ \A j \in Owners : pc'[j] = "stc_assign" /\ made[j] = made[k] => j = k
    BY <1>4, <2>2 DEF LifeInv, House
  <2>5. object'[m_houseKeeper] = "destroying"
    BY <1>1, <1>4
  <2>6. QED
    BY <2>1, <2>2, <2>3, <2>4, <2>5 DEF House, InKeeper, Before
<1>11. EndedInv'
  <2>1. UNCHANGED <<m_shuttingDown, m_keepingHouse, early, late>>
    BY <1>0 DEF processVars
  <2>2. ~late => ~Running(h)
    <3>1. ~late => arg[Main] = h
      BY <1>0, <1>1, <1>2 DEF EndedInv, OneKeeper
    <3>2. QED
      BY <1>0, <1>1, <3>1 DEF FoundInv, Found, IsTerminated
  <2>3. \A x \in Objects : Running(x)' => Running(x)
    BY <1>4 DEF Running
  <2>4. ~late => OneKeeper'
    BY <1>2, <1>3, <1>4, <2>1 DEF EndedInv, OneKeeper
  <2>5. ~late => \A x \in Objects \ early : object'[x] \in Dying => ~Running(x)'
    BY <1>4, <2>2, <2>3 DEF EndedInv, Dying
  <2>6. QED
    BY <2>1, <2>4, <2>5 DEF EndedInv
<1>12. QED
  BY <1>5, <1>6, <1>7, <1>8, <1>9, <1>10, <1>11 DEF LifeInv

\* What the destructor is done with has no thread left in it.
LEMMA DestructorKeepsLife ==
  ASSUME LifeInv, FoundInv, EndedInv, NEW a \in Actors, Destructor(a)
  PROVE  LifeInv' /\ EndedInv'
<1> USE Apart, Kinds
<1>1. PICK o \in Objects : o = arg[a] /\ pc[a] = "destructor" /\ object[o] = "destroying"
  BY DEF Destructor, Goto, LifeInv, Destroyed
<1>2. /\ m_threadId[o] = 0 \/ PX_state[o] = "PX_finished"
      /\ PX_synchroniseThreadFinish[o] # "unset"
      /\ object' = [object EXCEPT ![o] = "freed"]
      /\ UNCHANGED <<m_threadId, PX_synchroniseThreadFinish, processVars, pointer, history>>
  BY <1>1 DEF Destructor, ThreadFinished, IsTerminated
<1>3. \A b \in Actors : /\ pc'[b] = IF b = a THEN back[a] ELSE pc[b]
                        /\ arg'[b] = IF b = a THEN None ELSE arg[b]
                        /\ back'[b] = IF b = a THEN "idle" ELSE back[b]
  BY DEF Destructor, Goto, FoundInv, FoundType
<1>4. m_type[o] = "manual"
  BY <1>1 DEF LifeInv, LifeType, Claimed, ByItself
<1>5. /\ m_autoDeleteThreads' = m_autoDeleteThreads
      /\ \A x \in Objects : m_type'[x] = m_type[x] /\ (x # o => PX_state'[x] = PX_state[x])
      /\ m_type' \in [Objects -> {"auto", "manual"}] /\ PX_state'[o] = "PX_finished"
      /\ \A i \in Ids : m_activeThreads'[i] \in {None, m_activeThreads[i]}
  BY <1>1, <1>4 DEF Destructor, InternalThreadEnded, LifeInv, LifeType, FoundInv, FoundType
<1>6. pc[o] \in {"none", "gone"} /\ o # a
  <2>1. ~Running(o)
    BY <1>2 DEF FoundInv, Found
  <2>2. pc[o] # "signal"
    BY <1>2 DEF LifeInv, Left
  <2>3. QED
    BY <1>1, <2>1, <2>2 DEF Running
<1>7. \A x \in Objects : /\ object'[x] = IF x = o THEN "freed" ELSE object[x]
                         /\ pc'[x] = pc[x] \/ (x = a /\ pc[x] = "destructor" /\ pc'[x] = "h_delete")
  BY <1>1, <1>2, <1>3 DEF LifeInv, LifeType, Placed
<1>8. a \in Owners => back[a] \in {"idle", "p_forget", "p_delete"}
  BY <1>1 DEF LifeInv, Placed
<1>9. LifeType'
  BY <1>2, <1>5 DEF LifeInv, LifeType, processVars, history
<1>10. Placed'
  <2>1. \A j \in Owners : /\ pc'[j] \in OwnerPlaces
                          /\ pc'[j] \in Starting => back'[j] \in {"created", "assign"}
                          /\ pc'[j] = "destructor" => back'[j] \in {"idle", "p_forget", "p_delete"}
    BY <1>3, <1>8 DEF LifeInv, Placed, OwnerPlaces, Starting, ShutDownPlaces
  <2>2. \A x \in Objects : /\ pc'[x] \in ObjectPlaces
                           /\ pc'[x] = "destructor" => back'[x] = "h_delete"
    BY <1>3, <1>7 DEF LifeInv, Placed, ObjectPlaces, InObject
  <2>3. \A x \in Objects : /\ object'[x] = "absent" => pc'[x] = "none"
                           /\ PX_state'[x] = "PX_firstResume" => pc'[x] = "none"
    BY <1>5, <1>7 DEF LifeInv, Placed
  <2>4. QED
    BY <2>1, <2>2, <2>3 DEF Placed
<1>11. Claimed'
  <2>1. \A x \in Objects : /\ ByCreator(x)' <=> ByCreator(x)
                           /\ ByPointer(x)' <=> ByPointer(x)
                           /\ ByWaiter(x)' <=> ByWaiter(x)
                           /\ ByItself(x)' <=> ByItself(x)
                           /\ ByQueue(x)' <=> ByQueue(x)
    BY <1>1, <1>2, <1>3, <1>5, <1>8 DEF ByCreator, ByPointer, ByWaiter, ByItself, ByQueue, Creating, Starting
  <2>2. \A x \in Objects : /\ pc[x] \in {"signal", "gone"} => pc'[x] = pc[x]
                           /\ object[x] \in {"alive", "absent"} => object'[x] = object[x]
    BY <1>1, <1>7
  <2>3. QED
    BY <2>1, <2>2 DEF LifeInv, Claimed
<1>12. Single'
  <2>1. \A j \in Owners : /\ Creating(j)' => Creating(j) /\ j # a
                          /\ Unresumed(j)' => Unresumed(j) /\ Creating(j) /\ j # a
    BY <1>1, <1>3, <1>8 DEF Creating, Unresumed, Starting
  <2>2. \A x \in Objects : /\ object'[x] = "absent" => object[x] = "absent"
                           /\ object[x] = "alive" => object'[x] = "alive"
                           /\ pc[x] = "none" => pc'[x] = "none"
    BY <1>1, <1>7
  <2>3. \A j \in Owners : pc'[j] = "w_wait" => pc[j] = "w_wait" /\ j # a
    BY <1>1, <1>3, <1>8
  <2>4. QED
    BY <1>3, <1>5, <2>1, <2>2, <2>3 DEF LifeInv, Single
<1>13. Destroyed'
  <2>1. \A b \in Actors : pc'[b] = "destructor" => pc[b] = "destructor" /\ b # a
    BY <1>1, <1>3, <1>8 DEF LifeInv, Placed, Actors
  <2>2. \A b \in Actors : pc[b] = "destructor" /\ b # a => arg[b] # o
    BY <1>1 DEF LifeInv, Destroyed
  <2>3. \A x \in Objects : begun'[x] = IF object'[x] \in Dying THEN 1 ELSE 0
    BY <1>1, <1>2, <1>7 DEF LifeInv, Destroyed, Dying, history
  <2>4. QED
    BY <1>3, <1>7, <2>1, <2>2, <2>3 DEF LifeInv, Destroyed
<1>14. Left'
  <2>1. \A x \in Objects : /\ object'[x] = "freed" => pc'[x] \in {"none", "gone"}
                           /\ PX_synchroniseThreadFinish'[x] = "set" => pc'[x] \in {"ended", "gone"}
                           /\ pc'[x] \in {"ended_signal", "signal"}
                                => PX_synchroniseThreadFinish'[x] = "unset"
    BY <1>1, <1>2, <1>6, <1>7 DEF LifeInv, Left
  <2>2. \A x \in Objects : Running(x) => Running(x)'
    BY <1>7 DEF Running
  <2>3. QED
    BY <1>2, <1>5, <2>1, <2>2 DEF LifeInv, Left
<1>15. House'
  <2>1. UNCHANGED <<m_houseKeeper, made>>
    BY <1>2 DEF processVars
  <2>2. \A x \in Objects : /\ object'[x] \in Dying <=> object[x] \in Dying
                           /\ object'[x] = "absent" <=> object[x] = "absent"
                           /\ object[x] = "alive" => object'[x] = "alive"
    BY <1>1, <1>7 DEF Dying
  <2>3. \A k \in Owners : pc'[k] = "stc_assign" => pc[k] = "stc_assign"
    BY <1>3, <1>8
  <2>4. /\ pc[Main] = "p_forget" \/ InKeeper => pc'[Main] = "p_forget" \/ InKeeper'
        /\ InKeeper' => InKeeper /\ arg'[Main] = arg[Main]
        /\ pc'[Main] = "p_wait" => pc[Main] = "p_wait"
    BY <1>1, <1>3, <1>8 DEF InKeeper, Before
  <2>5. Before' => Before
    BY <1>1, <1>3, <1>8, <2>4 DEF Before
  <2>6. m_houseKeeper # None => m_houseKeeper \in Objects
    BY DEF FoundInv, FoundType
  <2>7. QED
    BY <2>1, <2>2, <2>3, <2>4, <2>5, <2>6 DEF LifeInv, House
<1>16. EndedInv'
  <2>1. UNCHANGED <<m_shuttingDown, m_keepingHouse, early, late>>
    BY <1>2 DEF processVars, history
  <2>2. ~late => OneKeeper'
    <3>1. pc'[Main] = "p_wait" => pc[Main] = "p_wait" /\ arg'[Main] = arg[Main]
      BY <1>1, <1>3, <1>8
    <3>2. \A x \in Objects : object'[x] = "absent" <=> object[x] = "absent"
      BY <1>1, <1>7
    <3>3. QED
      BY <2>1, <3>1, <3>2 DEF EndedInv, OneKeeper
  <2>3. \A x \in Objects : /\ Running(x)' => Running(x)
                           /\ object'[x] \in Dying <=> object[x] \in Dying
    BY <1>1, <1>7 DEF Running, Dying
  <2>4. QED
    BY <2>1, <2>2, <2>3 DEF EndedInv
<1>17. QED
  BY <1>9, <1>10, <1>11, <1>12, <1>13, <1>14, <1>15, <1>16 DEF LifeInv

\* What is started has not been started before.
LEMMA ResumeKeepsLife ==
  ASSUME LifeInv, FoundInv, EndedInv, NEW k \in Owners, Resume(k)
  PROVE  LifeInv' /\ EndedInv'
<1> USE Apart, Kinds
<1>1. PICK o \in Objects : /\ o = arg[k] /\ o \in Workers /\ pc[k] = "created"
                           /\ object[o] = "alive" /\ pc[o] = "none"
  BY DEF Resume, LifeInv, Single, Creating, Unresumed
<1>2. PICK i \in Ids : /\ PX_state' = [PX_state EXCEPT ![o] = "PX_starting"]
                       /\ m_threadId' = [m_threadId EXCEPT ![o] = i]
                       /\ m_activeThreads' = [m_activeThreads EXCEPT ![i] = o]
  BY <1>1 DEF Resume, StartThread
<1>3. /\ \A b \in Actors : pc'[b] = IF b = k THEN "stc" ELSE IF b = o THEN "pre" ELSE pc[b]
      /\ \A b \in Actors : back'[b] = IF b = k THEN "assign" ELSE back[b]
      /\ UNCHANGED <<object, m_type, PX_synchroniseThreadFinish, m_autoDeleteThreads,
                     processVars, arg, pointer, history>>
  BY <1>1 DEF Resume, FoundInv, FoundType
<1>4. LifeType'
  BY <1>3 DEF LifeInv, LifeType, processVars, history
<1>5. Placed'
  <2>1. \A x \in Objects : PX_state'[x] = IF x = o THEN "PX_starting" ELSE PX_state[x]
    BY <1>2 DEF FoundInv, FoundType
  <2>2. QED
    BY <1>1, <1>3, <2>1 DEF LifeInv, Placed, OwnerPlaces, ObjectPlaces, InObject, Starting
<1>6. Claimed'
  <2>1. \A x \in Objects : /\ ByCreator(x)' <=> ByCreator(x)
                           /\ ByPointer(x)' <=> ByPointer(x)
                           /\ ByWaiter(x)' <=> ByWaiter(x)
                           /\ ByItself(x)' <=> ByItself(x)
                           /\ ByQueue(x)' <=> ByQueue(x)
    BY <1>1, <1>3 DEF ByCreator, ByPointer, ByWaiter, ByItself, ByQueue, Creating, Starting
  <2>2. \A x \in Objects : pc[x] \in {"signal", "gone"} => pc'[x] = pc[x]
    BY <1>1, <1>3
  <2>3. QED
    BY <1>3, <2>1, <2>2 DEF LifeInv, Claimed
<1>7. Single'
  <2>1. \A j \in Owners : /\ Creating(j)' <=> Creating(j)
                          /\ Unresumed(j)' => Unresumed(j) /\ j # k
    BY <1>1, <1>3 DEF Creating, Unresumed, Starting
  <2>2. \A j \in Owners : Creating(j) /\ j # k => arg[j] # o
    BY <1>1 DEF LifeInv, Single, Creating
  <2>3. \A j \in Owners : Unresumed(j) => Creating(j)
    BY DEF Unresumed, Creating
  <2>4. \A j \in Owners : Creating(j) => arg[j] \in Objects
    BY DEF LifeInv, Single
  <2>5. QED
    BY <1>1, <1>3, <2>1, <2>2, <2>3, <2>4 DEF LifeInv, Single
<1>8. Destroyed'
  BY <1>1, <1>3 DEF LifeInv, Destroyed, history
<1>9. Left'
  <2>1. \A x \in Objects : Running(x) => x # o /\ Running(x)'
    BY <1>1, <1>3 DEF Running
  <2>2. \A j \in Ids, x \in Objects : m_activeThreads'[j] = x => j = m_threadId'[x] /\ Running(x)'
    <3>1. Running(o)'
      BY <1>1, <1>3 DEF Running
    <3>2. \A j \in Ids : m_activeThreads'[j] = IF j = i THEN o ELSE m_activeThreads[j]
      BY <1>2 DEF FoundInv, FoundType
    <3>3. \A x \in Objects : m_threadId'[x] = IF x = o THEN i ELSE m_threadId[x]
      BY <1>2 DEF FoundInv, FoundType
    <3>4. QED
      BY <2>1, <3>1, <3>2, <3>3 DEF LifeInv, Left
  <2>3. \A x \in Objects : x # o => pc'[x] = pc[x]
    BY <1>3
  <2>4. \A x \in Objects : /\ object'[x] = "freed" => pc'[x] \in {"none", "gone"}
                           /\ PX_synchroniseThreadFinish'[x] = "set" => pc'[x] \in {"ended", "gone"}
                           /\ pc'[x] \in {"ended_signal", "signal"}
                                => PX_synchroniseThreadFinish'[x] = "unset"
    BY <1>1, <1>3, <2>3 DEF LifeInv, Left
  <2>5. QED
    BY <2>2, <2>4 DEF Left
<1>10. House'
  BY <1>1, <1>3 DEF LifeInv, House, InKeeper, Before, processVars
<1>11. EndedInv'
  <2>1. \A x \in Objects : x # o => (Running(x)' <=> Running(x))
    BY <1>3 DEF Running
  <2>2. UNCHANGED <<m_shuttingDown, m_keepingHouse, early, late, object, arg>>
        /\ (pc'[Main] = "p_wait" => pc[Main] = "p_wait")
    BY <1>1, <1>3 DEF processVars, history
  <2>3. QED
    BY <1>1, <2>1, <2>2 DEF EndedInv, OneKeeper, Dying
<1>12. QED
  BY <1>4, <1>5, <1>6, <1>7, <1>8, <1>9, <1>10, <1>11 DEF LifeInv

LEMMA SwapKeepsLife ==
  ASSUME LifeInv, FoundInv, EndedInv, NEW k \in Owners, SwapKeepingHouse(k), ~m_keepingHouse
  PROVE  LifeInv' /\ EndedInv'
<1> USE Apart, Kinds
<1>1. PICK h \in Objects : /\ h \in Keepers /\ object[h] = "absent" /\ StartThread(h)
                           /\ object' = [object EXCEPT ![h] = "alive"]
                           /\ pc' = [pc EXCEPT ![k] = "stc_assign", ![h] = "pre"]
                           /\ made' = [made EXCEPT ![k] = h]
                           /\ late' = m_shuttingDown
  BY DEF SwapKeepingHouse
<1>2. PICK i \in Ids : /\ PX_state' = [PX_state EXCEPT ![h] = "PX_starting"]
                       /\ m_threadId' = [m_threadId EXCEPT ![h] = i]
                       /\ m_activeThreads' = [m_activeThreads EXCEPT ![i] = h]
  BY <1>1 DEF StartThread
<1>3. /\ pc[k] = "stc_swap" /\ m_keepingHouse'
      /\ UNCHANGED <<m_type, PX_synchroniseThreadFinish, m_autoDeleteThreads, m_houseKeeper,
                     m_shuttingDown, toTerminate, arg, back, pointer, begun, early>>
  BY DEF SwapKeepingHouse
<1>4. pc[h] = "none" /\ m_houseKeeper # h /\ back[k] \in {"created", "assign"}
  BY <1>1, <1>3 DEF LifeInv, Placed, House, Starting
<1>5. /\ \A b \in Actors : pc'[b] = IF b = k THEN "stc_assign" ELSE IF b = h THEN "pre" ELSE pc[b]
      /\ \A x \in Objects : object'[x] = IF x = h THEN "alive" ELSE object[x]
      /\ \A b \in Owners : made'[b] = IF b = k THEN h ELSE made[b]
  BY <1>1 DEF FoundInv, FoundType, LifeInv, LifeType
<1>6. LifeType'
  BY <1>1, <1>3 DEF LifeInv, LifeType, FoundInv, FoundType
<1>7. Placed'
  <2>1. \A x \in Objects : PX_state'[x] = IF x = h THEN "PX_starting" ELSE PX_state[x]
    BY <1>2 DEF FoundInv, FoundType
  <2>2. \A j \in Owners : /\ pc'[j] \in OwnerPlaces
                          /\ pc'[j] \in Starting => back'[j] \in {"created", "assign"}
                          /\ pc'[j] = "destructor" => back'[j] \in {"idle", "p_forget", "p_delete"}
    BY <1>3, <1>4, <1>5 DEF LifeInv, Placed, OwnerPlaces, Starting
  <2>3. \A x \in Objects : /\ pc'[x] \in ObjectPlaces
                           /\ pc'[x] = "destructor" => back'[x] = "h_delete"
    BY <1>3, <1>5 DEF LifeInv, Placed, ObjectPlaces, InObject
  <2>4. \A x \in Objects : /\ object'[x] = "absent" => pc'[x] = "none"
                           /\ PX_state'[x] = "PX_firstResume" => pc'[x] = "none"
    BY <1>5, <2>1 DEF LifeInv, Placed
  <2>5. QED
    BY <2>2, <2>3, <2>4 DEF Placed
<1>8. Claimed'
  <2>1. \A x \in Objects : /\ ByCreator(x)' <=> ByCreator(x)
                           /\ ByPointer(x)' <=> ByPointer(x)
                           /\ ByWaiter(x)' <=> ByWaiter(x)
                           /\ ByItself(x)' <=> ByItself(x)
                           /\ ByQueue(x)' <=> ByQueue(x)
    BY <1>3, <1>5 DEF ByCreator, ByPointer, ByWaiter, ByItself, ByQueue, Creating, Starting
  <2>2. \A x \in Objects : /\ pc[x] \in {"signal", "gone"} => pc'[x] = pc[x]
                           /\ object[x] = "alive" => object'[x] = "alive"
                           /\ x # h => object'[x] = object[x]
    BY <1>4, <1>5
  <2>3. ~ByItself(h)
    BY <1>1 DEF LifeInv, Claimed
  <2>4. QED
    BY <2>1, <2>2, <2>3 DEF LifeInv, Claimed
<1>9. Single'
  <2>1. \A j \in Owners : /\ Creating(j)' <=> Creating(j)
                          /\ Unresumed(j)' <=> Unresumed(j)
    BY <1>3, <1>5 DEF Creating, Unresumed, Starting
  <2>2. \A x \in Objects : x # h => object'[x] = object[x] /\ pc'[x] = pc[x]
    BY <1>5
  <2>3. \A j \in Owners : Unresumed(j) => Creating(j)
    BY DEF Unresumed, Creating
  <2>4. \A j \in Owners : Creating(j) => arg[j] \in Objects /\ arg[j] # h
    BY <1>1 DEF LifeInv, Single
  <2>5. \A j \in Owners : pc'[j] = "w_wait" => pc[j] = "w_wait"
    BY <1>5
  <2>6. QED
    BY <1>3, <2>1, <2>2, <2>3, <2>4, <2>5 DEF LifeInv, Single
<1>10. Destroyed'
  <2>1. \A b \in Actors : pc'[b] = "destructor" => pc[b] = "destructor"
    BY <1>5
  <2>2. \A x \in Objects : begun'[x] = IF object'[x] \in Dying THEN 1 ELSE 0
    BY <1>1, <1>3, <1>5 DEF LifeInv, Destroyed, Dying
  <2>3. \A x \in Objects : object[x] = "destroying" => object'[x] = "destroying"
    BY <1>1, <1>5
  <2>4. QED
    BY <1>3, <2>1, <2>2, <2>3 DEF LifeInv, Destroyed
<1>11. Left'
  <2>1. \A x \in Objects : Running(x) => x # h /\ Running(x)'
    BY <1>4, <1>5 DEF Running
  <2>2. Running(h)'
    BY <1>5 DEF Running
  <2>3. \A j \in Ids : m_activeThreads'[j] = IF j = i THEN h ELSE m_activeThreads[j]
    BY <1>2 DEF FoundInv, FoundType
  <2>4. \A x \in Objects : m_threadId'[x] = IF x = h THEN i ELSE m_threadId[x]
    BY <1>2 DEF FoundInv, FoundType
  <2>5. \A j \in Ids, x \in Objects : m_activeThreads'[j] = x => j = m_threadId'[x] /\ Running(x)'
    BY <2>1, <2>2, <2>3, <2>4 DEF LifeInv, Left
  <2>6. \A x \in Objects : /\ object'[x] = "freed" => pc'[x] \in {"none", "gone"}
                           /\ PX_synchroniseThreadFinish'[x] = "set" => pc'[x] \in {"ended", "gone"}
                           /\ pc'[x] \in {"ended_signal", "signal"}
                                => PX_synchroniseThreadFinish'[x] = "unset"
    BY <1>3, <1>4, <1>5 DEF LifeInv, Left
  <2>7. QED
    BY <2>5, <2>6 DEF Left
<1>12. House'
  <2>1. pc[Main] = "p_forget" \/ InKeeper <=> pc'[Main] = "p_forget" \/ InKeeper'
    BY <1>3, <1>5 DEF InKeeper
  <2>2. (Before' <=> Before) /\ (InKeeper' <=> InKeeper) /\ (pc'[Main] = "p_wait" => pc[Main] = "p_wait")
    BY <1>3, <1>5 DEF InKeeper, Before
  <2>3. \A x \in Objects : /\ object'[x] \in Dying <=> object[x] \in Dying
                           /\ object[x] # "absent" => object'[x] = object[x]
    BY <1>1, <1>5 DEF Dying
  <2>4. m_houseKeeper # None => m_houseKeeper \in Objects
    BY DEF FoundInv, FoundType
  <2>5. \A j \in Owners : pc'[j] = "stc_assign" =>
          /\ made'[j] \in Keepers /\ object'[made'[j]] = "alive" /\ m_houseKeeper # made'[j]
          /\ \A l \in Owners : pc'[l] = "stc_assign" /\ made'[l] = made'[j] => l = j
    <3>1. \A j \in Owners : pc'[j] = "stc_assign" => j = k \/ pc[j] = "stc_assign"
      BY <1>5
    <3>2. \A j \in Owners : pc[j] = "stc_assign" => j # k /\ made[j] # h
      BY <1>1, <1>3 DEF LifeInv, House
    <3>3. \A j \in Owners : pc[j] = "stc_assign" =>
            /\ made[j] \in Keepers /\ object[made[j]] = "alive" /\ m_houseKeeper # made[j]
            /\ \A l \in Owners : pc[l] = "stc_assign" /\ made[l] = made[j] => l = j
      BY DEF LifeInv, House
    <3>4. /\ made'[k] = h /\ object'[h] = "alive" /\ h \in Keepers /\ m_houseKeeper # h
          /\ \A j \in Owners : pc[j] = "stc_assign" => made'[j] = made[j] /\ object'[made[j]] = "alive"
      BY <1>1, <1>4, <1>5, <3>2, <3>3
    <3>5. QED
      BY <3>1, <3>2, <3>3, <3>4
  <2>6. QED
    BY <1>3, <2>1, <2>2, <2>3, <2>4, <2>5 DEF LifeInv, House
<1>13. EndedInv'
  <2>1. \A x \in Objects : /\ Running(x)' => Running(x) \/ x = h
                           /\ object'[x] \in Dying => object[x] \in Dying /\ x # h
    BY <1>5 DEF Running, Dying
  <2>2. ~late' => OneKeeper'
    <3>1. ~late' => ~late /\ ~m_shuttingDown
      BY <1>1 DEF EndedInv
    <3>2. ~late' => \A g \in Keepers : object[g] = "absent"
      BY <3>1 DEF EndedInv, OneKeeper
    <3>3. pc'[Main] = "p_wait" => pc[Main] = "p_wait"
      BY <1>5
    <3>4. QED
      BY <1>3, <1>5, <3>1, <3>2, <3>3 DEF EndedInv, OneKeeper
  <2>3. QED
    BY <1>1, <1>3, <2>1, <2>2 DEF EndedInv
<1>14. QED
  BY <1>6, <1>7, <1>8, <1>9, <1>10, <1>11, <1>12, <1>13 DEF LifeInv

\* A thread that ends automatic hands itself over to the queue.
LEMMA EndedKeepsLife ==
  ASSUME LifeInv, FoundInv, EndedInv, NEW o \in Objects, Ended(o)
  PROVE  LifeInv' /\ EndedInv'
<1> USE Apart, Kinds
<1>1. /\ \/ pc[o] = "ended" /\ pc' = [pc EXCEPT ![o] = "gone"]
         \/ pc[o] = "ended_signal" /\ pc' = [pc EXCEPT ![o] = "signal"]
      /\ m_autoDeleteThreads' = IF m_type[o] = "auto" THEN Append(m_autoDeleteThreads, o)
                                ELSE m_autoDeleteThreads
      /\ m_type' = [m_type EXCEPT ![o] = "manual"]
      /\ PX_state' = [PX_state EXCEPT ![o] = "PX_finished"]
      /\ UNCHANGED <<object, m_threadId, PX_synchroniseThreadFinish, processVars, arg, back,
                     pointer, history>>
  BY DEF Ended, Goto, InternalThreadEnded
<1>2. \A i \in Ids : m_activeThreads'[i] = IF i = m_threadId[o] /\ m_activeThreads[i] = o
                                           THEN None ELSE m_activeThreads[i]
  BY DEF Ended, InternalThreadEnded
<1>3. /\ pc[o] \in {"ended", "ended_signal"} /\ pc'[o] \in {"signal", "gone"}
      /\ \A b \in Actors : b # o => pc'[b] = pc[b]
      /\ \A x \in Objects : m_type'[x] = IF x = o THEN "manual" ELSE m_type[x]
      /\ \A x \in Objects : PX_state'[x] = IF x = o THEN "PX_finished" ELSE PX_state[x]
  BY <1>1 DEF FoundInv, FoundType, LifeInv, LifeType
<1>4. \A k \in Owners : pc'[k] = pc[k]
  BY <1>3
<1>5. LifeType'
  <2>1. m_autoDeleteThreads' \in Seq(Objects)
    BY <1>1 DEF LifeInv, LifeType
  <2>2. QED
    BY <1>1, <2>1 DEF LifeInv, LifeType, processVars, history
<1>6. Placed'
  BY <1>1, <1>3, <1>4 DEF LifeInv, Placed, ObjectPlaces, InObject
<1>7. \A x \in Objects : ByQueue(x)' <=> ByQueue(x) \/ (x = o /\ ByItself(o))
  <2>1. Len(m_autoDeleteThreads) \in Nat /\ m_autoDeleteThreads \in Seq(Objects)
    BY DEF LifeInv, LifeType
  <2>2. CASE m_type[o] = "auto"
    <3>1. /\ Len(m_autoDeleteThreads') = Len(m_autoDeleteThreads) + 1
          /\ \A n \in 1 .. Len(m_autoDeleteThreads) : m_autoDeleteThreads'[n] = m_autoDeleteThreads[n]
          /\ m_autoDeleteThreads'[Len(m_autoDeleteThreads) + 1] = o
      BY <1>1, <2>1, <2>2
    <3>2. 1 .. Len(m_autoDeleteThreads') = (1 .. Len(m_autoDeleteThreads)) \cup {Len(m_autoDeleteThreads) + 1}
      BY <2>1, <3>1
    <3>3. QED
      BY <2>2, <3>1, <3>2 DEF ByQueue, ByItself
  <2>3. CASE m_type[o] # "auto"
    BY <1>1, <2>3 DEF ByQueue, ByItself
  <2>4. QED
    BY <2>2, <2>3
<1>8. Claimed'
  <2>1. \A x \in Objects : /\ ByCreator(x)' <=> ByCreator(x)
                           /\ ByPointer(x)' <=> ByPointer(x)
                           /\ ByWaiter(x)' <=> ByWaiter(x)
                           /\ ByItself(x)' <=> ByItself(x) /\ x # o
    BY <1>1, <1>3, <1>4 DEF ByCreator, ByPointer, ByWaiter, ByItself, Creating, Starting
  <2>2. ByItself(o) => object[o] = "alive" /\ o \in Workers
    BY <1>3 DEF LifeInv, Claimed, Placed
  <2>3. \A x \in Objects : pc[x] \in {"signal", "gone"} => pc'[x] \in {"signal", "gone"}
    BY <1>3
  <2>4. QED
    BY <1>1, <1>3, <1>7, <2>1, <2>2, <2>3 DEF LifeInv, Claimed
<1>9. Single'
  <2>1. \A j \in Owners : /\ Creating(j)' <=> Creating(j)
                          /\ Unresumed(j)' <=> Unresumed(j)
    BY <1>1, <1>4 DEF Creating, Unresumed, Starting
  <2>2. \A x \in Objects : pc[x] = "none" => pc'[x] = "none"
    BY <1>3
  <2>3. \A i, n \in 1 .. Len(m_autoDeleteThreads') :
          m_autoDeleteThreads'[i] = m_autoDeleteThreads'[n] => i = n
    <3>1. Len(m_autoDeleteThreads) \in Nat /\ m_autoDeleteThreads \in Seq(Objects)
      BY DEF LifeInv, LifeType
    <3>2. CASE m_type[o] = "auto"
      <4>1. /\ Len(m_autoDeleteThreads') = Len(m_autoDeleteThreads) + 1
            /\ \A n \in 1 .. Len(m_autoDeleteThreads) : m_autoDeleteThreads'[n] = m_autoDeleteThreads[n]
            /\ m_autoDeleteThreads'[Len(m_autoDeleteThreads) + 1] = o
        BY <1>1, <3>1, <3>2
      <4>2. \A n \in 1 .. Len(m_autoDeleteThreads) : m_autoDeleteThreads[n] # o
        BY <3>2 DEF LifeInv, Claimed, ByItself, ByQueue
      <4>3. 1 .. Len(m_autoDeleteThreads') = (1 .. Len(m_autoDeleteThreads)) \cup {Len(m_autoDeleteThreads) + 1}
        BY <3>1, <4>1
      <4>4. QED
        BY <4>1, <4>2, <4>3 DEF LifeInv, Single
    <3>3. CASE m_type[o] # "auto"
      BY <1>1, <3>3 DEF LifeInv, Single
    <3>4. QED
      BY <3>2, <3>3
  <2>4. \A j \in Owners : Unresumed(j) => Creating(j)
    BY DEF Unresumed, Creating
  <2>5. \A j \in Owners : Creating(j) => arg[j] \in Objects
    BY DEF LifeInv, Single
  <2>6. QED
    BY <1>1, <1>4, <2>1, <2>2, <2>3, <2>4, <2>5 DEF LifeInv, Single
<1>10. Destroyed'
  BY <1>1, <1>3 DEF LifeInv, Destroyed, history
<1>11. Left'
  <2>1. \A x \in Objects : x # o => pc'[x] = pc[x]
    BY <1>3
  <2>2. \A i \in Ids : m_activeThreads'[i] # o
    BY <1>2 DEF LifeInv, Left
  <2>3. \A i \in Ids, x \in Objects : m_activeThreads'[i] = x => m_activeThreads[i] = x /\ x # o
    BY <1>2, <2>2
  <2>4. \A i \in Ids, x \in Objects : m_activeThreads'[i] = x => i = m_threadId'[x] /\ Running(x)'
    BY <1>1, <2>1, <2>3 DEF LifeInv, Left, Running
  <2>5. /\ object'[o] = "freed" => pc'[o] \in {"none", "gone"}
        /\ PX_synchroniseThreadFinish'[o] = "set" => pc'[o] \in {"ended", "gone"}
        /\ pc'[o] \in {"ended_signal", "signal"} => PX_synchroniseThreadFinish'[o] = "unset"
    BY <1>1, <1>3 DEF LifeInv, Left, FoundInv, FoundType
  <2>6. QED
    BY <1>1, <2>1, <2>4, <2>5 DEF LifeInv, Left
<1>12. House' /\ EndedInv'
  BY <1>1, <1>3, <1>4 DEF LifeInv, House, InKeeper, Before, EndedInv, OneKeeper, Running, processVars, history
<1>13. QED
  BY <1>5, <1>6, <1>8, <1>9, <1>10, <1>11, <1>12 DEF LifeInv

\* Most steps start, delete and hand over nothing.
LEMMA QuietKeepsLife ==
  ASSUME LifeInv, FoundInv,
         UNCHANGED <<object, threadVars, m_autoDeleteThreads, back, pointer, begun>>,
         \A b \in Actors : pc'[b] # pc[b] =>
           \/ b \in Owners /\ /\ pc[b] \in {"created", "assign"} \cup Starting
                              /\ pc'[b] = back[b] \/ pc'[b] \in {"stc_swap", "stc_assign"}
                              /\ pc[b] \in Starting
           \/ b \in Owners /\ /\ pc[b] \in {"idle"} \cup ShutDownPlaces
                              /\ pc'[b] \in ShutDownPlaces
           \/ /\ b \in Objects
              /\ pc[b] \in {"started", "main", "h_loop"} /\ pc'[b] \in {"post", "h_delete"}
              /\ b \in Workers => pc'[b] = "post",
         \A b \in Actors : arg'[b] # arg[b] => pc[b] = "p_keeper",
         \A i \in Ids : m_activeThreads'[i] \in {None, m_activeThreads[i]}
  PROVE  Placed' /\ Claimed' /\ Single' /\ Destroyed' /\ Left'
<1> USE Apart, Kinds
<1>1. \A k \in Owners : pc[k] \in Starting => back[k] \in {"created", "assign"}
  BY DEF LifeInv, Placed
<1>2. \A o \in Objects : pc'[o] = pc[o] \/ (pc[o] \in {"started", "main", "h_loop"} /\ pc'[o] \in {"post", "h_delete"})
  OBVIOUS
<1>3. \A k \in Owners : /\ Creating(k)' <=> Creating(k)
                        /\ Unresumed(k)' <=> Unresumed(k)
                        /\ pc'[k] = "w_wait" <=> pc[k] = "w_wait"
                        /\ Creating(k) \/ pc[k] \in {"w_wait", "destructor"} => arg'[k] = arg[k]
  BY <1>1 DEF Creating, Unresumed, Starting, ShutDownPlaces
<1>4. \A b \in Actors : /\ pc'[b] = "destructor" <=> pc[b] = "destructor"
                        /\ pc[b] = "destructor" => arg'[b] = arg[b]
  BY <1>1 DEF ShutDownPlaces, Starting
<1>5. Placed'
  <2>1. \A k \in Owners : /\ pc'[k] \in OwnerPlaces
                          /\ pc'[k] \in Starting => back'[k] \in {"created", "assign"}
                          /\ pc'[k] = "destructor" => back'[k] \in {"idle", "p_forget", "p_delete"}
    BY <1>1, <1>4 DEF LifeInv, Placed, OwnerPlaces, Starting, ShutDownPlaces
  <2>2. \A o \in Objects : /\ pc'[o] \in ObjectPlaces
                           /\ pc'[o] = "destructor" => back'[o] = "h_delete"
    BY <1>2 DEF LifeInv, Placed, ObjectPlaces, InObject
  <2>3. \A o \in Objects : pc'[o] = "none" <=> pc[o] = "none"
    BY <1>2
  <2>4. QED
    BY <2>1, <2>2, <2>3 DEF LifeInv, Placed, threadVars
<1>6. Claimed'
  <2>1. \A o \in Objects : /\ ByCreator(o)' <=> ByCreator(o)
                           /\ ByPointer(o)' <=> ByPointer(o)
                           /\ ByWaiter(o)' <=> ByWaiter(o)
                           /\ ByItself(o)' <=> ByItself(o)
                           /\ ByQueue(o)' <=> ByQueue(o)
    BY <1>3 DEF ByCreator, ByPointer, ByWaiter, ByItself, ByQueue, threadVars
  <2>2. \A o \in Objects : pc[o] \in {"signal", "gone"} => pc'[o] = pc[o]
    BY <1>2
  <2>3. QED
    BY <2>1, <2>2 DEF LifeInv, Claimed
<1>7. Single'
  <2>1. \A o \in Objects : pc[o] = "none" => pc'[o] = "none"
    BY <1>2
  <2>2. \A k \in Owners : Unresumed(k) => Creating(k)
    BY DEF Unresumed, Creating
  <2>3. \A k \in Owners : Creating(k) => arg[k] \in Objects
    BY DEF LifeInv, Single
  <2>4. QED
    BY <1>3, <2>1, <2>2, <2>3 DEF LifeInv, Single
<1>8. Destroyed'
  BY <1>4 DEF LifeInv, Destroyed
<1>9. Left'
  <2>1. \A o \in Objects : /\ Running(o)' <=> Running(o)
                           /\ pc[o] \in {"none", "gone", "ended"} <=> pc'[o] \in {"none", "gone", "ended"}
                           /\ pc'[o] \in {"ended_signal", "signal", "none", "gone", "ended"} => pc'[o] = pc[o]
                           /\ pc[o] \in {"ended_signal", "signal", "none", "gone", "ended"} => pc'[o] = pc[o]
    BY <1>2 DEF Running
  <2>2. \A i \in Ids, o \in Objects : m_activeThreads'[i] = o => m_activeThreads[i] = o
    OBVIOUS
  <2>3. QED
    BY <2>1, <2>2 DEF LifeInv, Left, threadVars
<1>10. QED
  BY <1>5, <1>6, <1>7, <1>8, <1>9

LEMMA StartingKeepsLife ==
  ASSUME LifeInv, FoundInv, EndedInv, NEW k \in Owners,
         SignalTimerChange(k) \/ (SwapKeepingHouse(k) /\ m_keepingHouse) \/ AssignHouseKeeper(k)
  PROVE  LifeInv' /\ EndedInv'
<1> USE Apart, Kinds
<1>1. PICK l : /\ pc[k] \in Starting /\ pc' = [pc EXCEPT ![k] = l]
               /\ l = back[k] \/ (pc[k] = "stc" /\ l = "stc_swap")
               /\ UNCHANGED <<object, threadVars, listVars, back, pointer, history, arg, made,
                              m_shuttingDown, toTerminate>>
               /\ m_keepingHouse' = m_keepingHouse
  BY DEF SignalTimerChange, SwapKeepingHouse, AssignHouseKeeper, Goto, Starting, processVars, history,
         listVars, threadVars
<1>2. \A b \in Actors : pc'[b] = IF b = k THEN l ELSE pc[b]
  BY <1>1 DEF FoundInv, FoundType
<1>3. back[k] \in {"created", "assign"}
  BY <1>1 DEF LifeInv, Placed
<1>4. LifeType'
  BY <1>1 DEF LifeInv, LifeType, threadVars, listVars, history
<1>5. Placed' /\ Claimed' /\ Single' /\ Destroyed' /\ Left'
  <2>1. UNCHANGED <<object, threadVars, m_autoDeleteThreads, back, pointer, begun>>
    BY <1>1 DEF listVars, history
  <2>2. \A i \in Ids : m_activeThreads'[i] \in {None, m_activeThreads[i]}
    BY <1>1 DEF listVars
  <2>3. \A b \in Actors : /\ arg'[b] = arg[b]
                          /\ pc'[b] # pc[b] => /\ b \in Owners /\ pc[b] \in Starting
                                               /\ pc'[b] = back[b] \/ pc'[b] = "stc_swap"
    BY <1>1, <1>2
  <2>4. QED
    BY <2>1, <2>2, <2>3, QuietKeepsLife
<1>6. \A j \in Owners : pc'[j] = "stc_assign" => pc[j] = "stc_assign" /\ j # k
  BY <1>1, <1>2, <1>3
<1>7. /\ pc'[Main] = "p_wait" <=> pc[Main] = "p_wait"
      /\ pc'[Main] = "p_forget" <=> pc[Main] = "p_forget"
      /\ InKeeper' <=> InKeeper
      /\ Before' <=> Before
  BY <1>1, <1>2, <1>3 DEF InKeeper, Before, Starting
<1>8. House'
  <2>1. m_houseKeeper' = m_houseKeeper \/ (pc[k] = "stc_assign" /\ m_houseKeeper' = made[k])
    BY DEF SignalTimerChange, SwapKeepingHouse, AssignHouseKeeper, Goto, processVars
  <2>2. CASE m_houseKeeper' = m_houseKeeper
    BY <1>1, <1>6, <1>7, <2>2 DEF LifeInv, House
  <2>3. CASE pc[k] = "stc_assign" /\ m_houseKeeper' = made[k]
    <3>1. made[k] \in Keepers /\ object[made[k]] = "alive"
      BY <2>3 DEF LifeInv, House
    <3>2. \A j \in Owners : pc[j] = "stc_assign" /\ j # k => made[j] # made[k]
      BY <2>3 DEF LifeInv, House
    <3>3. QED
      BY <1>1, <1>6, <1>7, <2>3, <3>1, <3>2 DEF LifeInv, House
  <2>4. QED
    BY <2>1, <2>2, <2>3
<1>9. EndedInv'
  <2>1. \A o \in Objects : pc'[o] = pc[o]
    BY <1>2
  <2>2. QED
    BY <1>1, <1>7, <2>1 DEF EndedInv, OneKeeper, Running, history
<1>10. QED
  BY <1>4, <1>5, <1>8, <1>9 DEF LifeInv

\* ~PProcess but for what it deletes.
LEMMA ShutDownKeepsLife ==
  ASSUME LifeInv, FoundInv, EndedInv,
         ShutDown \/ StopKeeper \/ ForgetKeeper \/ ListRemaining \/ TerminateRemaining
  PROVE  LifeInv' /\ EndedInv'
<1> USE Apart, Kinds
<1>1. /\ UNCHANGED <<object, threadVars, m_autoDeleteThreads, back, pointer, history, made>>
      /\ m_keepingHouse' \in {m_keepingHouse, m_keepingHouse /\ m_houseKeeper = None}
      /\ m_keepingHouse \in BOOLEAN
  BY DEF ShutDown, StopKeeper, ForgetKeeper, ListRemaining, TerminateRemaining, listVars, processVars,
         LifeInv, LifeType
<1>2. /\ pc[Main] \in {"idle", "p_keeper", "p_forget", "p_list", "p_terminate"}
      /\ pc'[Main] \in {"p_keeper", "p_wait", "p_list", "p_terminate", "p_delete"}
      /\ pc'[Main] \in {"p_keeper", "p_wait"} => pc[Main] \in {"idle", "p_keeper"}
      /\ \A b \in Actors : b # Main /\ pc'[b] # pc[b] =>
           b \in Objects /\ pc[b] \in {"started", "main", "h_loop"} /\ pc'[b] = "post"
  <2>1. DOMAIN pc = Actors /\ toTerminate \subseteq Objects
    BY DEF FoundInv, FoundType
  <2>2. CASE TerminateRemaining
    BY <2>1, <2>2 DEF TerminateRemaining, Goto
  <2>3. CASE ShutDown \/ StopKeeper \/ ForgetKeeper \/ ListRemaining
    BY <2>1, <2>3 DEF ShutDown, StopKeeper, ForgetKeeper, ListRemaining, Goto
  <2>4. QED
    BY <2>2, <2>3
<1>3. /\ \A b \in Actors : arg'[b] # arg[b] => b = Main /\ pc[b] = "p_keeper"
      /\ \A i \in Ids : m_activeThreads'[i] \in {None, m_activeThreads[i]}
  BY DEF ShutDown, StopKeeper, ForgetKeeper, ListRemaining, TerminateRemaining, listVars, Goto,
         FoundInv, FoundType
<1>4. LifeType'
  BY <1>1 DEF LifeInv, LifeType, threadVars, history
<1>5. Placed' /\ Claimed' /\ Single' /\ Destroyed' /\ Left'
  <2>1. UNCHANGED <<object, threadVars, m_autoDeleteThreads, back, pointer, begun>>
    BY <1>1 DEF history
  <2>2. \A b \in Actors : pc'[b] # pc[b] =>
          \/ b \in Owners /\ pc[b] \in {"idle"} \cup ShutDownPlaces /\ pc'[b] \in ShutDownPlaces
          \/ b \in Objects /\ pc[b] \in {"started", "main", "h_loop"} /\ pc'[b] = "post"
    BY <1>2 DEF ShutDownPlaces
  <2>3. QED
    BY <1>3, <2>1, <2>2, QuietKeepsLife
<1>6. House'
  <2>1. /\ pc'[Main] = "p_wait" => pc[Main] = "p_keeper" /\ m_houseKeeper' = m_houseKeeper /\ m_houseKeeper # None
        /\ m_houseKeeper' = m_houseKeeper \/ m_houseKeeper' = None
        /\ pc[Main] = "p_forget" => m_houseKeeper' = None
    BY <1>2 DEF ShutDown, StopKeeper, ForgetKeeper, ListRemaining, TerminateRemaining, Goto,
                processVars, FoundInv, FoundType
  <2>2. \A k \in Owners : pc'[k] = "stc_assign" => pc[k] = "stc_assign"
    BY <1>2
  <2>3. ~InKeeper' /\ ~InKeeper /\ (Before' => Before)
    BY <1>2 DEF InKeeper, Before
  <2>4. QED
    BY <1>1, <2>1, <2>2, <2>3 DEF LifeInv, House
<1>7. EndedInv'
  <2>1. \A o \in Objects : Running(o)' => Running(o)
    BY <1>2 DEF Running
  <2>2. m_shuttingDown' /\ late' = late /\ early' = early
    <3>1. pc[Main] # "idle" => m_shuttingDown
      BY <1>2 DEF FoundInv, Found, ShutDownPlaces
    <3>2. QED
      BY <1>1, <1>2, <3>1 DEF ShutDown, StopKeeper, ForgetKeeper, ListRemaining, TerminateRemaining,
                              Goto, processVars, history
  <2>3. pc'[Main] = "p_wait" => arg'[Main] \in Keepers /\ object[arg'[Main]] # "absent"
    <3>1. pc'[Main] = "p_wait" => StopKeeper /\ m_houseKeeper # None
      BY <1>2 DEF ShutDown, StopKeeper, ForgetKeeper, ListRemaining, TerminateRemaining, Goto,
                  FoundInv, FoundType
    <3>2. QED
      BY <3>1 DEF StopKeeper, LifeInv, House, FoundInv, FoundType
  <2>4. ~late => OneKeeper'
    BY <1>1, <2>2, <2>3 DEF EndedInv, OneKeeper
  <2>5. QED
    BY <1>1, <2>1, <2>2, <2>4 DEF EndedInv
<1>8. QED
  BY <1>4, <1>5, <1>6, <1>7 DEF LifeInv

\* What is created is nobody else's.
LEMMA CreateKeepsLife ==
  ASSUME LifeInv, FoundInv, EndedInv, NEW k \in Owners, NEW w \in Workers, Create(k, w)
  PROVE  LifeInv' /\ EndedInv'
<1> USE Apart, Kinds
<1>1. /\ pc[k] = "idle" /\ object[w] = "absent" /\ w \in Objects
      /\ object' = [object EXCEPT ![w] = "alive"]
      /\ UNCHANGED <<threadVars, listVars, processVars, pointer, history>>
  BY DEF Create, Goto
<1>2. PICK l : /\ l = IF w \in AutoDelete THEN "stc" ELSE "created"
               /\ \A b \in Actors : /\ pc'[b] = IF b = k THEN l ELSE pc[b]
                                    /\ arg'[b] = IF b = k THEN w ELSE arg[b]
                                    /\ back'[b] = IF b = k THEN "created" ELSE back[b]
  BY DEF Create, Goto, FoundInv, FoundType
<1>3. \A x \in Objects : object'[x] = IF x = w THEN "alive" ELSE object[x]
  BY <1>1 DEF LifeInv, LifeType
<1>4. \A x \in Objects : pc'[x] = pc[x] /\ back'[x] = back[x]
  BY <1>2
<1>5. pc[w] = "none" /\ \A j \in Owners : Creating(j) => j # k /\ arg[j] # w
  BY <1>1 DEF LifeInv, Placed, Single, Creating, Starting
<1>6. LifeType' /\ Placed'
  <2>1. LifeType'
    BY <1>1 DEF LifeInv, LifeType, threadVars, listVars, processVars, history
  <2>2. \A j \in Owners : /\ pc'[j] \in OwnerPlaces
                          /\ pc'[j] \in Starting => back'[j] \in {"created", "assign"}
                          /\ pc'[j] = "destructor" => back'[j] \in {"idle", "p_forget", "p_delete"}
    BY <1>2 DEF LifeInv, Placed, OwnerPlaces, Starting
  <2>3. QED
    BY <1>1, <1>3, <1>4, <2>1, <2>2 DEF LifeInv, Placed, threadVars
<1>7. Claimed'
  <2>1. ~ByPointer(w) /\ ~ByWaiter(w) /\ ~ByQueue(w) /\ (ByItself(w) => w \in AutoDelete)
    BY <1>1 DEF LifeInv, Claimed
  <2>2. \A x \in Objects : /\ ByCreator(x)' <=> ByCreator(x) \/ (x = w /\ w \notin AutoDelete)
                           /\ ByWaiter(x)' <=> ByWaiter(x)
    BY <1>1, <1>2 DEF ByCreator, ByWaiter, Creating, Starting
  <2>3. \A x \in Objects : /\ ByPointer(x)' <=> ByPointer(x)
                           /\ ByItself(x)' <=> ByItself(x)
                           /\ ByQueue(x)' <=> ByQueue(x)
    BY <1>1 DEF ByPointer, ByItself, ByQueue, threadVars, listVars
  <2>4. QED
    BY <1>3, <1>4, <2>1, <2>2, <2>3 DEF LifeInv, Claimed
<1>8. Single'
  <2>1. \A j \in Owners : /\ Creating(j)' => j = k \/ Creating(j)
                          /\ Unresumed(j)' => j = k \/ (Unresumed(j) /\ Creating(j))
                          /\ pc'[j] = "w_wait" => pc[j] = "w_wait" /\ j # k
    BY <1>1, <1>2 DEF Creating, Unresumed, Starting
  <2>2. \A j \in Owners : Creating(j) => arg[j] \in Objects
    BY DEF LifeInv, Single
  <2>3. arg'[k] = w /\ object'[w] = "alive" /\ pc'[w] = "none"
    BY <1>2, <1>3, <1>4, <1>5
  <2>4. \A j \in Owners : j # k => arg'[j] = arg[j]
    BY <1>2
  <2>5. \A x \in Objects : x # w => object'[x] = object[x]
    BY <1>3
  <2>6. \A j \in Owners : Creating(j)' => /\ arg'[j] \in Workers /\ object'[arg'[j]] # "absent"
                                          /\ \A i \in Owners : Creating(i)' /\ arg'[i] = arg'[j] => i = j
    BY <1>5, <2>1, <2>2, <2>3, <2>4, <2>5 DEF LifeInv, Single
  <2>7. \A j \in Owners : Unresumed(j)' => object'[arg'[j]] = "alive" /\ pc'[arg'[j]] = "none"
    BY <1>4, <1>5, <2>1, <2>2, <2>3, <2>4, <2>5 DEF LifeInv, Single
  <2>8. \A j \in Owners : pc'[j] = "w_wait" =>
          arg'[j] \in Workers /\ \A i \in Owners : pc'[i] = "w_wait" /\ arg'[i] = arg'[j] => i = j
    BY <2>1, <2>4 DEF LifeInv, Single
  <2>9. UNCHANGED m_autoDeleteThreads
    BY <1>1 DEF listVars
  <2>10. QED
    BY <2>6, <2>7, <2>8, <2>9 DEF LifeInv, Single
<1>9. Destroyed'
  <2>1. \A b \in Actors : pc'[b] = "destructor" => pc[b] = "destructor" /\ arg'[b] = arg[b]
    BY <1>2
  <2>2. \A x \in Objects : /\ object[x] = "destroying" => object'[x] = "destroying"
                           /\ object'[x] \in Dying <=> object[x] \in Dying
    BY <1>1, <1>3 DEF Dying
  <2>3. QED
    BY <1>1, <2>1, <2>2 DEF LifeInv, Destroyed, history
<1>10. Left'
  BY <1>1, <1>3, <1>4 DEF LifeInv, Left, Running, threadVars, listVars
<1>11. House' /\ EndedInv'
  <2>1. \A h \in Keepers : object'[h] = object[h]
    BY <1>3
  <2>2. /\ pc'[Main] \in {"p_wait", "p_forget"} <=> pc[Main] \in {"p_wait", "p_forget"}
        /\ pc[Main] \in {"p_wait", "p_forget"} => pc'[Main] = pc[Main] /\ arg'[Main] = arg[Main]
        /\ InKeeper' <=> InKeeper
        /\ InKeeper => arg'[Main] = arg[Main]
        /\ Before' <=> Before
    BY <1>1, <1>2 DEF InKeeper, Before
  <2>3. \A j \in Owners : pc'[j] = "stc_assign" => pc[j] = "stc_assign"
    BY <1>2
  <2>4. UNCHANGED <<m_houseKeeper, made, m_keepingHouse, m_shuttingDown, early, late>>
    BY <1>1 DEF processVars, history
  <2>5. m_houseKeeper \in Keepers \cup {None}
    BY DEF FoundInv, FoundType
  <2>6. House'
    BY <2>1, <2>2, <2>3, <2>4, <2>5 DEF LifeInv, House, Dying
  <2>7. ~late => OneKeeper'
    BY <2>1, <2>2, <2>4 DEF EndedInv, OneKeeper
  <2>8. \A x \in Objects : (Running(x)' <=> Running(x)) /\ (object'[x] \in Dying => object[x] \in Dying)
    BY <1>3, <1>4 DEF Running, Dying
  <2>9. QED
    BY <2>4, <2>6, <2>7, <2>8 DEF EndedInv
<1>12. QED
  BY <1>6, <1>7, <1>8, <1>9, <1>10, <1>11 DEF LifeInv

LEMMA AssignKeepsLife ==
  ASSUME LifeInv, FoundInv, EndedInv, NEW k \in Owners, AssignPointer(k)
  PROVE  LifeInv' /\ EndedInv'
<1> USE Apart, Kinds
<1>1. PICK w \in Objects : w = arg[k] /\ w \in Workers /\ Creating(k)
  BY DEF AssignPointer, Goto, Creating, LifeInv, Single
<1>2. /\ pc[k] \in {"created", "assign"}
      /\ pointer' = [pointer EXCEPT ![w] = w \notin AutoDelete]
      /\ UNCHANGED <<object, threadVars, listVars, processVars, back, history>>
  BY <1>1 DEF AssignPointer, Goto
<1>3. \A b \in Actors : /\ pc'[b] = IF b = k THEN "idle" ELSE pc[b]
                        /\ arg'[b] = IF b = k THEN None ELSE arg[b]
  BY DEF AssignPointer, Goto, FoundInv, FoundType
<1>4. \A x \in Objects : pc'[x] = pc[x]
  BY <1>3
<1>5. \A j \in Owners : /\ Creating(j)' <=> Creating(j) /\ j # k
                        /\ Unresumed(j)' <=> Unresumed(j) /\ j # k
                        /\ pc'[j] = "w_wait" <=> pc[j] = "w_wait"
                        /\ Creating(j) /\ j # k => arg[j] # w
                        /\ pc[j] = "w_wait" => j # k
  BY <1>1, <1>2, <1>3 DEF Creating, Unresumed, Starting, LifeInv, Single
<1>6. LifeType' /\ Placed'
  <2>1. LifeType'
    BY <1>2 DEF LifeInv, LifeType, threadVars, listVars, processVars, history
  <2>2. \A j \in Owners : /\ pc'[j] \in OwnerPlaces
                          /\ pc'[j] \in Starting => back'[j] \in {"created", "assign"}
                          /\ pc'[j] = "destructor" => back'[j] \in {"idle", "p_forget", "p_delete"}
    BY <1>2, <1>3 DEF LifeInv, Placed, OwnerPlaces, Starting
  <2>3. QED
    BY <1>2, <1>4, <2>1, <2>2 DEF LifeInv, Placed, threadVars
<1>7. Claimed'
  <2>1. \A x \in Objects : /\ ByCreator(x)' <=> ByCreator(x) /\ x # w
                           /\ ByWaiter(x)' <=> ByWaiter(x)
    BY <1>1, <1>3, <1>5 DEF ByCreator, ByWaiter
  <2>2. \A x \in Objects : /\ ByItself(x)' <=> ByItself(x)
                           /\ ByQueue(x)' <=> ByQueue(x)
                           /\ x # w => (ByPointer(x)' <=> ByPointer(x))
                           /\ ByPointer(w)' <=> w \notin AutoDelete
    BY <1>1, <1>2 DEF ByItself, ByQueue, ByPointer, threadVars, listVars, LifeInv, LifeType
  <2>3. w \notin AutoDelete => ByCreator(w)
    BY <1>1 DEF ByCreator
  <2>4. QED
    BY <1>2, <1>4, <2>1, <2>2, <2>3 DEF LifeInv, Claimed
<1>8. Single' /\ Destroyed' /\ Left'
  <2>1. UNCHANGED <<object, m_autoDeleteThreads, begun>>
    BY <1>2 DEF listVars, history
  <2>2. Single'
    <3>1. \A j \in Owners : Creating(j)' \/ Unresumed(j)' \/ pc'[j] = "w_wait" => arg'[j] = arg[j]
      BY <1>3, <1>5 DEF Unresumed, Creating
    <3>2. \A j \in Owners : Unresumed(j) => arg[j] \in Objects
      BY DEF Unresumed, Creating, LifeInv, Single
    <3>3. QED
      BY <1>4, <1>5, <2>1, <3>1, <3>2 DEF LifeInv, Single
  <2>3. \A b \in Actors : pc'[b] = "destructor" => pc[b] = "destructor" /\ arg'[b] = arg[b]
    BY <1>3
  <2>4. Destroyed'
    BY <2>1, <2>3 DEF LifeInv, Destroyed
  <2>5. Left'
    BY <1>2, <1>4 DEF LifeInv, Left, Running, threadVars, listVars
  <2>6. QED
    BY <2>2, <2>4, <2>5
<1>9. House' /\ EndedInv'
  BY <1>2, <1>3 DEF LifeInv, House, InKeeper, Before, EndedInv, OneKeeper, Running, processVars, history
<1>10. QED
  BY <1>6, <1>7, <1>8, <1>9 DEF LifeInv

LEMMA RunKeepsLife ==
  ASSUME LifeInv, FoundInv, EndedInv, NEW o \in Objects,
         MainEnds(o) \/ (o \in Keepers /\ KeepHouse(o))
  PROVE  LifeInv' /\ EndedInv'
<1> USE Apart, Kinds
<1>1. /\ UNCHANGED <<object, threadVars, listVars, processVars, arg, back, pointer, history>>
      /\ pc[o] \in {"started", "main", "h_loop"} /\ pc'[o] \in {"post", "h_delete"} /\ (o \in Workers => pc'[o] = "post")
      /\ \A b \in Actors : b # o => pc'[b] = pc[b]
  BY DEF MainEnds, KeepHouse, Goto, FoundInv, FoundType
<1>2. LifeType'
  BY <1>1 DEF LifeInv, LifeType, threadVars, listVars, processVars, history
<1>3. Placed' /\ Claimed' /\ Single' /\ Destroyed' /\ Left'
  <2>1. UNCHANGED <<object, threadVars, m_autoDeleteThreads, back, pointer, begun, m_activeThreads, arg>>
    BY <1>1 DEF listVars, history
  <2>2. \A i \in Ids : m_activeThreads'[i] \in {None, m_activeThreads[i]}
    BY <2>1
  <2>3. \A b \in Actors : pc'[b] # pc[b] =>
          b \in Objects /\ pc[b] \in {"started", "main", "h_loop"} /\ pc'[b] \in {"post", "h_delete"}
          /\ (b \in Workers => pc'[b] = "post")
    BY <1>1
  <2>4. QED
    BY <2>1, <2>2, <2>3, QuietKeepsLife
<1>4. House' /\ EndedInv'
  <2>1. /\ \A k \in Owners : pc'[k] = pc[k]
        /\ \A x \in Objects : Running(x)' <=> Running(x)
    BY <1>1 DEF Running
  <2>2. QED
    BY <1>1, <2>1 DEF LifeInv, House, InKeeper, Before, EndedInv, OneKeeper, processVars, history
<1>5. QED
  BY <1>2, <1>3, <1>4 DEF LifeInv

\* PreMain, PreMainEnds, PostMain and SignalFinish: the thread's own course.
LEMMA CourseKeepsLife ==
  ASSUME LifeInv, FoundInv, EndedInv, NEW o \in Objects,
         PreMain(o) \/ PreMainEnds(o) \/ PostMain(o) \/ SignalFinish(o)
  PROVE  LifeInv' /\ EndedInv'
<1> USE Apart, Kinds
<1>1. /\ UNCHANGED <<object, m_type, m_threadId, listVars, processVars, arg, back, pointer, history>>
      /\ \A b \in Actors : b # o => pc'[b] = pc[b]
      /\ \A x \in Objects : x # o => /\ PX_state'[x] = PX_state[x]
                                     /\ PX_synchroniseThreadFinish'[x] = PX_synchroniseThreadFinish[x]
      /\ PX_synchroniseThreadFinish' \in [Objects -> {"null", "unset", "set"}]
      /\ PX_state'[o] = "PX_firstResume" => PX_state[o] = "PX_firstResume"
  <2>1. CASE PreMain(o)
    BY <2>1 DEF PreMain, Goto, FoundInv, FoundType, LifeInv, LifeType
  <2>2. CASE PostMain(o)
    BY <2>2 DEF PostMain, Goto, FoundInv, FoundType, LifeInv, LifeType
  <2>3. CASE SignalFinish(o)
    BY <2>3 DEF SignalFinish, Goto, FoundInv, FoundType, LifeInv, LifeType
  <2>4. CASE PreMainEnds(o)
    BY <2>4 DEF PreMainEnds, Goto, FoundInv, FoundType, LifeInv, LifeType
  <2>5. QED
    BY <2>1, <2>2, <2>3, <2>4
<1>2. /\ pc[o] \in {"pre", "started", "post", "signal"}
      /\ pc'[o] \in {"started", "main", "h_loop", "ended", "ended_signal", "gone"}
      /\ o \in Workers => pc'[o] # "h_loop"
      /\ pc[o] = "signal" <=> pc'[o] = "gone"
  BY DEF PreMain, PreMainEnds, PostMain, SignalFinish, Goto, FoundInv, FoundType
<1>3. /\ PX_synchroniseThreadFinish'[o] = "set" => pc'[o] \in {"ended", "gone"}
      /\ pc'[o] \in {"ended_signal", "signal"} => PX_synchroniseThreadFinish'[o] = "unset"
  BY <1>2 DEF PreMain, PreMainEnds, PostMain, SignalFinish, Goto, FoundInv, FoundType, LifeInv, LifeType, Left
<1>4. /\ \A k \in Owners : pc'[k] = pc[k]
      /\ \A x \in Objects : Running(x)' <=> Running(x)
  BY <1>1, <1>2 DEF Running
<1>5. LifeType' /\ Placed'
  <2>1. LifeType'
    BY <1>1 DEF LifeInv, LifeType, listVars, processVars, history
  <2>2. \A x \in Objects : /\ pc'[x] \in ObjectPlaces
                           /\ pc'[x] = "destructor" => back'[x] = "h_delete"
    BY <1>1, <1>2 DEF LifeInv, Placed, ObjectPlaces, InObject
  <2>3. \A x \in Objects : /\ object'[x] = "absent" => pc'[x] = "none"
                           /\ PX_state'[x] = "PX_firstResume" => pc'[x] = "none"
    BY <1>1, <1>2 DEF LifeInv, Placed
  <2>4. QED
    BY <1>1, <1>4, <2>1, <2>2, <2>3 DEF LifeInv, Placed
<1>6. Claimed'
  <2>1. \A x \in Objects : /\ ByCreator(x)' <=> ByCreator(x)
                           /\ ByPointer(x)' <=> ByPointer(x)
                           /\ ByWaiter(x)' <=> ByWaiter(x)
                           /\ ByItself(x)' <=> ByItself(x)
                           /\ ByQueue(x)' <=> ByQueue(x)
    BY <1>1, <1>4 DEF ByCreator, ByPointer, ByWaiter, ByItself, ByQueue, Creating, listVars
  <2>2. \A x \in Objects : pc[x] \in {"signal", "gone"} => pc'[x] \in {"signal", "gone"}
    BY <1>1, <1>2
  <2>3. QED
    BY <1>1, <2>1, <2>2 DEF LifeInv, Claimed
<1>7. Single' /\ Destroyed'
  <2>1. \A j \in Owners : /\ Creating(j)' <=> Creating(j)
                          /\ Unresumed(j)' <=> Unresumed(j)
                          /\ Unresumed(j) => Creating(j)
                          /\ Creating(j) => arg[j] \in Objects
    BY <1>1, <1>4 DEF Creating, Unresumed, LifeInv, Single
  <2>2. \A x \in Objects : pc[x] = "none" => pc'[x] = "none"
    BY <1>1, <1>2
  <2>3. Single'
    BY <1>1, <1>4, <2>1, <2>2 DEF LifeInv, Single, listVars
  <2>4. \A b \in Actors : pc'[b] = "destructor" => pc[b] = "destructor"
    BY <1>1, <1>2
  <2>5. Destroyed'
    BY <1>1, <2>4 DEF LifeInv, Destroyed, history
  <2>6. QED
    BY <2>3, <2>5
<1>8. Left'
  <2>1. \A x \in Objects : /\ object'[x] = "freed" => pc'[x] \in {"none", "gone"}
                           /\ PX_synchroniseThreadFinish'[x] = "set" => pc'[x] \in {"ended", "gone"}
                           /\ pc'[x] \in {"ended_signal", "signal"}
                                => PX_synchroniseThreadFinish'[x] = "unset"
    BY <1>1, <1>2, <1>3 DEF LifeInv, Left
  <2>2. QED
    BY <1>1, <1>4, <2>1 DEF LifeInv, Left, listVars
<1>9. House' /\ EndedInv'
  BY <1>1, <1>4 DEF LifeInv, House, InKeeper, Before, EndedInv, OneKeeper, processVars, history
<1>10. QED
  BY <1>5, <1>6, <1>7, <1>8, <1>9 DEF LifeInv

\* SetAutoDelete, and WaitAndDelete of a thread by itself.
LEMMA LeaveKeepsLife ==
  ASSUME LifeInv, FoundInv, EndedInv, NEW w \in Workers, pointer[w],
         pointer' = [pointer EXCEPT ![w] = FALSE],
         m_type' = [m_type EXCEPT ![w] = "auto"],
         UNCHANGED <<object, PX_state, m_threadId, PX_synchroniseThreadFinish, listVars,
                     processVars, pc, arg, back, history>>
  PROVE  LifeInv' /\ EndedInv'
<1> USE Apart, Kinds
<1>1. \A x \in Objects : m_type'[x] = IF x = w THEN "auto" ELSE m_type[x]
  BY DEF LifeInv, LifeType
<1>2. LifeType' /\ Placed'
  BY DEF LifeInv, LifeType, Placed, listVars, processVars, history
<1>3. Claimed'
  <2>1. \A x \in Objects : /\ ByCreator(x)' <=> ByCreator(x)
                           /\ ByPointer(x)' <=> ByPointer(x) /\ x # w
                           /\ ByWaiter(x)' <=> ByWaiter(x)
                           /\ ByItself(x)' <=> ByItself(x) \/ x = w
                           /\ ByQueue(x)' <=> ByQueue(x)
    BY <1>1 DEF ByCreator, ByPointer, ByWaiter, ByItself, ByQueue, Creating, listVars, LifeInv, LifeType
  <2>2. ByPointer(w)
    BY DEF ByPointer
  <2>3. QED
    BY <2>1, <2>2 DEF LifeInv, Claimed
<1>4. Single' /\ Destroyed' /\ Left'
  BY DEF LifeInv, Single, Creating, Unresumed, Destroyed, Left, Running, listVars, history
<1>5. House' /\ EndedInv'
  BY DEF LifeInv, House, InKeeper, Before, EndedInv, OneKeeper, Running, processVars, history
<1>6. QED
  BY <1>2, <1>3, <1>4, <1>5 DEF LifeInv

LEMMA StepLife == LifeInv /\ EndedInv /\ FoundInv /\ [Next]_vars => LifeInv' /\ EndedInv'
<1> SUFFICES ASSUME LifeInv, EndedInv, FoundInv, [Next]_vars PROVE LifeInv' /\ EndedInv'
  OBVIOUS
<1>1. ASSUME NEW k \in Owners, NEW w \in Workers, Create(k, w) \/ WaitAndDelete(k, w) \/ SetAutoDelete(k, w)
      PROVE  LifeInv' /\ EndedInv'
  BY <1>1, CreateKeepsLife, WaitKeepsLife, LeaveKeepsLife DEF SetAutoDelete
<1>2. ASSUME NEW k \in Owners, CallStep(k) PROVE LifeInv' /\ EndedInv'
  <2>1. k \in Actors
    BY Apart
  <2>2. CASE Resume(k) \/ AssignPointer(k) \/ DeleteTerminated(k) \/ Destructor(k)
    BY <2>1, <2>2, ResumeKeepsLife, AssignKeepsLife, DeleteTerminatedKeepsLife, DestructorKeepsLife
  <2>3. CASE SignalTimerChange(k) \/ SwapKeepingHouse(k) \/ AssignHouseKeeper(k)
    BY <2>3, StartingKeepsLife, SwapKeepsLife
  <2>4. QED
    BY <1>2, <2>2, <2>3 DEF CallStep
<1>3. ASSUME NEW o \in Objects, ThreadStep(o) PROVE LifeInv' /\ EndedInv'
  BY <1>3, CourseKeepsLife, EndedKeepsLife DEF ThreadStep
<1>4. ASSUME NEW w \in Workers, MainEnds(w) \/ DeleteMyself(w) PROVE LifeInv' /\ EndedInv'
  BY <1>4, Kinds, RunKeepsLife, LeaveKeepsLife DEF DeleteMyself
<1>5. ASSUME NEW h \in Keepers, KeeperStep(h) PROVE LifeInv' /\ EndedInv'
  <2>1. h \in Objects /\ h \in Actors /\ h \notin Owners
    BY Kinds, Apart
  <2>2. CASE KeepHouse(h) \/ Destructor(h)
    BY <2>1, <2>2, RunKeepsLife, DestructorKeepsLife
  <2>3. CASE DeleteQueued(h, "h_delete", "h_loop")
    BY <2>1, <2>3, DequeueKeepsLife
  <2>4. QED
    BY <1>5, <2>2, <2>3 DEF KeeperStep
<1>6. CASE ShutDown \/ ShutDownStep
  <2>1. Main \in Owners /\ Main \in Actors /\ Main \notin Objects
    BY Apart
  <2>2. CASE DeleteQueued(Main, "p_delete", "p_end")
    BY <2>1, <2>2, DequeueKeepsLife
  <2>3. CASE DeleteKeeper
    BY <2>3, DeleteKeeperKeepsLife
  <2>4. CASE ShutDown \/ StopKeeper \/ ForgetKeeper \/ ListRemaining \/ TerminateRemaining
    BY <2>4, ShutDownKeepsLife
  <2>5. QED
    BY <1>6, <2>2, <2>3, <2>4 DEF ShutDownStep
<1>7. CASE UNCHANGED vars
  <2>1. UNCHANGED <<object, m_type, PX_state, m_threadId, PX_synchroniseThreadFinish, m_activeThreads,
                    m_autoDeleteThreads, pc, arg, back, pointer, begun>>
        /\ UNCHANGED <<m_keepingHouse, m_houseKeeper, made, m_shuttingDown, early, late>>
    BY <1>7 DEF vars, threadVars, listVars, processVars, history
  <2>2. LifeType' /\ Placed' /\ Single' /\ Destroyed' /\ Left'
    BY <2>1 DEF LifeInv, LifeType, Placed, Single, Creating, Unresumed, Destroyed, Left, Running
  <2>3. Claimed'
    BY <2>1 DEF LifeInv, Claimed, ByCreator, ByPointer, ByWaiter, ByItself, ByQueue, Creating
  <2>4. House' /\ EndedInv'
    BY <2>1 DEF LifeInv, House, InKeeper, Before, EndedInv, OneKeeper, Running
  <2>5. QED
    BY <2>2, <2>3, <2>4 DEF LifeInv
<1>8. QED
  <2>1. Callers \subseteq Owners
    BY Kinds
  <2>2. QED
    BY <1>1, <1>2, <1>3, <1>4, <1>5, <1>6, <1>7, <2>1 DEF Next

\* Of PThread and PProcess, for any number of threads, housekeepers and identifiers:
\* an object is deleted once, when its thread has left it, and none of the
\* process's lists has it then.
THEOREM DeletedIsOutOfReach == Spec => []NothingReachesDeleted
<1>1. LifeInv /\ FoundInv => NothingReachesDeleted
  <2> SUFFICES ASSUME LifeInv, FoundInv, NEW o \in Objects
               PROVE  /\ begun[o] <= 1
                      /\ object[o] = "freed" =>
                           /\ pc[o] \notin InObject
                           /\ \A i \in Ids : m_activeThreads[i] # o
                           /\ \A n \in DOMAIN m_autoDeleteThreads : m_autoDeleteThreads[n] # o
                           /\ m_houseKeeper = o => pc[Main] = "p_forget"
    BY DEF NothingReachesDeleted
  <2>1. begun[o] <= 1
    BY DEF LifeInv, Destroyed
  <2>2. ASSUME object[o] = "freed"
        PROVE  pc[o] \notin InObject /\ \A i \in Ids : m_activeThreads[i] # o
    BY <2>2 DEF LifeInv, Left, Running, InObject
  <2>3. ASSUME object[o] = "freed", NEW n \in DOMAIN m_autoDeleteThreads PROVE m_autoDeleteThreads[n] # o
    <3>1. DOMAIN m_autoDeleteThreads = 1 .. Len(m_autoDeleteThreads)
      BY DEF LifeInv, LifeType
    <3>2. ~ByQueue(o)
      BY <2>3 DEF LifeInv, Claimed
    <3>3. QED
      BY <3>1, <3>2 DEF ByQueue
  <2>4. ASSUME object[o] = "freed", m_houseKeeper = o PROVE pc[Main] = "p_forget"
    <3>1. o \in Keepers
      BY <2>4, Apart DEF FoundInv, FoundType
    <3>2. InKeeper => o = arg[Main] /\ object[arg[Main]] = "destroying"
      BY <2>4, <3>1, Apart DEF LifeInv, House, Destroyed, InKeeper, Dying
    <3>3. QED
      BY <2>4, <3>2, Apart DEF LifeInv, House
  <2>5. QED
    BY <2>1, <2>2, <2>3, <2>4
<1>2. QED
  BY <1>1, InitFound, StepFound, InitLife, StepLife, PTL DEF Spec

\* Of PThread::WaitAndDelete and the process's own deletions: what is being
\* destroyed has ended its Main, but for a thread deleted between its creation and
\* its first step and unless a housekeeper was started late.
THEOREM DestroyedHasEnded == Spec => []DestroyedAfterMainUnlessRaced
<1>1. LifeInv /\ EndedInv => DestroyedAfterMainUnlessRaced
  <2> SUFFICES ASSUME LifeInv, EndedInv, ~late, NEW o \in Objects \ early, object[o] # "alive"
               PROVE  pc[o] \notin {"pre", "started", "main", "h_loop"}
    BY DEF DestroyedAfterMainUnlessRaced
  <2>1. object[o] = "absent" \/ object[o] \in Dying
    BY DEF LifeInv, LifeType, Dying
  <2>2. CASE object[o] = "absent"
    BY <2>2 DEF LifeInv, Placed
  <2>3. CASE object[o] \in Dying
    BY <2>3 DEF EndedInv, Running
  <2>4. QED
    BY <2>1, <2>2, <2>3
<1>2. QED
  BY <1>1, InitFound, StepFound, InitLife, StepLife, PTL DEF Spec
=============================================================================
