----------------------------- MODULE ThreadLife -----------------------------
(***************************************************************************)
(* The life of PThread objects and of the process that keeps them: the     *)
(* thread's own course through InternalThreadMain (unix/tlibthrd.cxx), its *)
(* owner's WaitAndDelete or SetAutoDelete, the housekeeper that deletes    *)
(* what deletes itself, and the destructor of PProcess (osutils.cxx).      *)
(*                                                                         *)
(* A PThread is an object and a thread of the system; pc[o] is the place   *)
(* of the latter.  Owners are threads that exist already, Main is the one  *)
(* that destroys the process.  The housekeepers are PThreads as well.      *)
(* Waits with a limit of 10 ms or 10 s are steps that may always be taken; *)
(* threads are taken to end within the second their destructor allows.     *)
(***************************************************************************)
EXTENDS Naturals, Sequences, FiniteSets

CONSTANTS Workers,      \* objects that the owners create
          Keepers,      \* objects for housekeepers
          Owners, Main, \* Main is one of the owners
          Callers,      \* the owners that create and delete threads
          MaxThreads,   \* bound on the threads of the system at one time
          None,         \* no object, no identifier
          AutoDelete    \* the workers created with AutoDeleteThread

ASSUME OwnersAssumption == /\ Main \in Owners /\ Callers \subseteq Owners
                           /\ Owners \cap (Workers \cup Keepers) = {}
ASSUME WorkersAssumption == Workers \cap Keepers = {} /\ AutoDelete \subseteq Workers
ASSUME NoneAssumption == None \notin Workers \cup Keepers \cup Owners
ASSUME BoundAssumption == MaxThreads \in Nat \ {0}

VARIABLES object,            \* "absent", "alive", "destroying" or "freed"
          m_type, PX_state, m_threadId, PX_synchroniseThreadFinish,
          m_activeThreads, m_autoDeleteThreads,
          m_keepingHouse, m_houseKeeper, m_shuttingDown,
          pc, arg, back,     \* place, object worked on, place to return to
          made,              \* the housekeeper made and not yet assigned
          pointer,           \* whether the owner's pointer is still set
          toTerminate,       \* threadsToTerminate of ~PProcess
          begun,             \* history: how often destruction was begun
          early,             \* history: deleted as "ended before it started"
          late               \* history: a housekeeper started by a late caller

Objects == Workers \cup Keepers
Ids     == 1 .. MaxThreads
Actors  == Owners \cup Objects

threadVars  == <<m_type, PX_state, m_threadId, PX_synchroniseThreadFinish>>
listVars    == <<m_activeThreads, m_autoDeleteThreads>>
processVars == <<m_keepingHouse, m_houseKeeper, made, m_shuttingDown, toTerminate>>
history     == <<begun, early, late>>
vars == <<object, threadVars, listVars, processVars, pc, arg, back, pointer, history>>

Goto(a, from, to) == pc[a] = from /\ pc' = [pc EXCEPT ![a] = to]

Init == /\ object = [o \in Objects |-> "absent"]
        /\ m_type = [o \in Objects |-> IF o \in AutoDelete THEN "auto" ELSE "manual"]
        /\ PX_state = [o \in Objects |-> "PX_firstResume"]
        /\ m_threadId = [o \in Objects |-> 0]
        /\ PX_synchroniseThreadFinish = [o \in Objects |-> "null"]
        /\ m_activeThreads = [i \in Ids |-> None]
        /\ m_autoDeleteThreads = <<>>
        /\ m_keepingHouse = FALSE /\ m_houseKeeper = None /\ m_shuttingDown = FALSE
        /\ pc = [a \in Actors |-> IF a \in Owners THEN "idle" ELSE "none"]
        /\ arg = [a \in Actors |-> None]
        /\ back = [a \in Actors |-> "idle"]
        /\ made = [k \in Owners |-> None]
        /\ pointer = [w \in Workers |-> FALSE]
        /\ toTerminate = {}
        /\ begun = [o \in Objects |-> 0]
        /\ early = {} /\ late = FALSE

-----------------------------------------------------------------------------
(* Starting a thread.                                                      *)

\* Identifiers of threads that have not left the system yet.
UsedIds == {m_threadId[o] : o \in {x \in Objects : pc[x] \notin {"none", "gone"}}}

\* PX_StartThread of object o, up to SignalTimerChange.  The system gives the
\* identifier that was free first, so that identifiers are used again at once.
StartThread(o) ==
  \E i \in Ids \ UsedIds :
    /\ \A j \in 1 .. i - 1 : j \in UsedIds
    /\ PX_state' = [PX_state EXCEPT ![o] = "PX_starting"]
    /\ m_threadId' = [m_threadId EXCEPT ![o] = i]
    /\ m_activeThreads' = [m_activeThreads EXCEPT ![i] = o]

\* The constructor; an automatic thread makes sure there is a housekeeper.
Create(k, w) ==
  /\ Goto(k, "idle", IF w \in AutoDelete THEN "stc" ELSE "created")
  /\ object[w] = "absent"
  /\ object' = [object EXCEPT ![w] = "alive"]
  /\ arg' = [arg EXCEPT ![k] = w]
  /\ back' = [back EXCEPT ![k] = "created"]
  /\ UNCHANGED <<threadVars, listVars, processVars, pointer, history>>

\* The first Resume, which holds PX_suspendMutex until SignalTimerChange is done.
Resume(k) ==
  LET o == arg[k] IN
  /\ pc[k] = "created"
  /\ StartThread(o)
  /\ pc' = [pc EXCEPT ![k] = "stc", ![o] = "pre"]
  /\ back' = [back EXCEPT ![k] = "assign"]
  /\ UNCHANGED <<object, m_type, PX_synchroniseThreadFinish, m_autoDeleteThreads,
                 processVars, arg, pointer, history>>

\* The owner gets a pointer to a thread that is not automatic, resumed or not.
AssignPointer(k) ==
  /\ \/ Goto(k, "assign", "idle")
     \/ Goto(k, "created", "idle") /\ arg[k] \notin AutoDelete
  /\ pointer' = [pointer EXCEPT ![arg[k]] = arg[k] \notin AutoDelete]
  /\ arg' = [arg EXCEPT ![k] = None]
  /\ UNCHANGED <<object, threadVars, listVars, processVars, back, history>>

\* SignalTimerChange looks at m_shuttingDown, then swaps m_keepingHouse.
SignalTimerChange(k) ==
  /\ Goto(k, "stc", IF m_shuttingDown THEN back[k] ELSE "stc_swap")
  /\ UNCHANGED <<object, threadVars, listVars, processVars, arg, back, pointer, history>>

SwapKeepingHouse(k) ==
  /\ pc[k] = "stc_swap"
  /\ m_keepingHouse' = TRUE
  /\ IF m_keepingHouse
     THEN /\ pc' = [pc EXCEPT ![k] = back[k]]
          /\ UNCHANGED <<object, PX_state, m_threadId, m_activeThreads, made, late>>
     ELSE \E h \in {x \in Keepers : object[x] = "absent"} :
          /\ object' = [object EXCEPT ![h] = "alive"]
          /\ StartThread(h)
          /\ pc' = [pc EXCEPT ![k] = "stc_assign", ![h] = "pre"]
          /\ made' = [made EXCEPT ![k] = h]
          /\ late' = m_shuttingDown
  /\ UNCHANGED <<m_type, PX_synchroniseThreadFinish, m_autoDeleteThreads, m_houseKeeper,
                 m_shuttingDown, toTerminate, arg, back, pointer, begun, early>>

AssignHouseKeeper(k) ==
  /\ Goto(k, "stc_assign", back[k])
  /\ m_houseKeeper' = made[k]
  /\ UNCHANGED <<object, threadVars, listVars, m_keepingHouse, made, m_shuttingDown, toTerminate,
                 arg, back, pointer, history>>

\* Whether somebody who starts o still holds its PX_suspendMutex.
SuspendMutexHeld(o) ==
  \E k \in Owners : /\ arg[k] = o /\ back[k] = "assign"
                    /\ pc[k] \in {"stc", "stc_swap", "stc_assign"}

-----------------------------------------------------------------------------
(* The thread itself.                                                      *)

\* InternalPreMain: with PX_suspendMutex the thread is running ...
PreMain(o) ==
  /\ ~SuspendMutexHeld(o)
  /\ Goto(o, "pre", "started")
  /\ PX_state' = [PX_state EXCEPT ![o] = "PX_running"]
  /\ UNCHANGED <<object, m_type, m_threadId, PX_synchroniseThreadFinish, listVars, processVars,
                 arg, back, pointer, history>>

\* ... and without it, its destructor will have to wait for its last signal if it is
\* not automatic by now.
PreMainEnds(o) ==
  /\ Goto(o, "started", IF o \in Keepers THEN "h_loop" ELSE "main")
  /\ PX_synchroniseThreadFinish' =
       [PX_synchroniseThreadFinish EXCEPT ![o] = IF m_type[o] = "auto" THEN @ ELSE "unset"]
  /\ UNCHANGED <<object, m_type, PX_state, m_threadId, listVars, processVars, arg, back,
                 pointer, history>>

\* Main returns, or is cancelled.
MainEnds(o) ==
  /\ Goto(o, "main", "post")
  /\ UNCHANGED <<object, threadVars, listVars, processVars, arg, back, pointer, history>>

\* WaitAndDelete of a thread by itself.
DeleteMyself(o) ==
  /\ pc[o] = "main" /\ pointer[o]
  /\ pointer' = [pointer EXCEPT ![o] = FALSE]
  /\ m_type' = [m_type EXCEPT ![o] = "auto"]
  /\ UNCHANGED <<object, PX_state, m_threadId, PX_synchroniseThreadFinish, listVars,
                 processVars, pc, arg, back, history>>

\* InternalPostMain up to InternalThreadEnded.
PostMain(o) ==
  LET sync == PX_synchroniseThreadFinish[o] # "null" IN
  /\ Goto(o, "post", IF sync /\ m_type[o] # "auto" THEN "ended_signal" ELSE "ended")
  /\ PX_state' = [PX_state EXCEPT ![o] = "PX_finishing"]
  /\ PX_synchroniseThreadFinish' =
       [PX_synchroniseThreadFinish EXCEPT ![o] = IF sync /\ m_type[o] = "auto" THEN "set" ELSE @]
  /\ UNCHANGED <<object, m_type, m_threadId, listVars, processVars, arg, back, pointer, history>>

\* Mutant: the entry goes even if the identifier has a new owner.
MutInternalThreadEnded(o) ==
  /\ m_activeThreads' = [i \in Ids |-> IF i = m_threadId[o] THEN None ELSE m_activeThreads[i]]
  /\ m_autoDeleteThreads' = IF m_type[o] = "auto" THEN Append(m_autoDeleteThreads, o)
                            ELSE m_autoDeleteThreads
  /\ m_type' = [m_type EXCEPT ![o] = "manual"]
  /\ PX_state' = [PX_state EXCEPT ![o] = "PX_finished"]

\* InternalThreadEnded, one hold of m_threadMutex.
InternalThreadEnded(o) ==
  /\ m_activeThreads' = [i \in Ids |-> IF i = m_threadId[o] /\ m_activeThreads[i] = o
                                       THEN None ELSE m_activeThreads[i]]
  /\ m_autoDeleteThreads' = IF m_type[o] = "auto" THEN Append(m_autoDeleteThreads, o)
                            ELSE m_autoDeleteThreads
  /\ m_type' = [m_type EXCEPT ![o] = "manual"]
  /\ PX_state' = [PX_state EXCEPT ![o] = "PX_finished"]

Ended(o) ==
  /\ \/ Goto(o, "ended", "gone")
     \/ Goto(o, "ended_signal", "signal")
  /\ InternalThreadEnded(o)
  /\ UNCHANGED <<object, m_threadId, PX_synchroniseThreadFinish, processVars, arg, back,
                 pointer, history>>

SignalFinish(o) ==
  /\ Goto(o, "signal", "gone")
  /\ PX_synchroniseThreadFinish' = [PX_synchroniseThreadFinish EXCEPT ![o] = "set"]
  /\ UNCHANGED <<object, m_type, PX_state, m_threadId, listVars, processVars, arg, back,
                 pointer, history>>

-----------------------------------------------------------------------------
(* Deleting a thread: the derived class goes first, then ~PThread.         *)

IsTerminated(o) == PX_state[o] = "PX_finished"

BeginDelete(a, o, return) ==
  /\ object' = [object EXCEPT ![o] = "destroying"]
  /\ begun' = [begun EXCEPT ![o] = @ + 1]
  /\ arg' = [arg EXCEPT ![a] = o]
  /\ back' = [back EXCEPT ![a] = return]
  /\ pc' = [pc EXCEPT ![a] = "destructor"]

\* Mutant: the destructor does not wait for the thread's last signal.
MutThreadFinished(o) == m_threadId[o] = 0 \/ IsTerminated(o)

\* What ~PThread waits for: WaitForTermination, which a thread that was never
\* started passes, and in InternalDestroy the thread's last signal.
ThreadFinished(o) == /\ m_threadId[o] = 0 \/ IsTerminated(o)
                     /\ PX_synchroniseThreadFinish[o] # "unset"

\* ~PThread.
Destructor(a) ==
  /\ Goto(a, "destructor", back[a])
  /\ ThreadFinished(arg[a])
  /\ InternalThreadEnded(arg[a])
  /\ object' = [object EXCEPT ![arg[a]] = "freed"]
  /\ arg' = [arg EXCEPT ![a] = None]
  /\ back' = [back EXCEPT ![a] = "idle"]
  /\ UNCHANGED <<m_threadId, PX_synchroniseThreadFinish, processVars, pointer, history>>

\* Mutant: WaitAndDelete does not wait.
MutWaitAndDelete(k, w) ==
  /\ pc[k] = "idle" /\ pointer[w]
  /\ pointer' = [pointer EXCEPT ![w] = FALSE]
  /\ BeginDelete(k, w, "idle")
  /\ UNCHANGED <<threadVars, listVars, processVars, early, late>>

\* WaitAndDelete by an owner.  The pointer is taken under the owner's mutex; a
\* thread that IsSuspended is deleted at once ("Ended before it started").
WaitAndDelete(k, w) ==
  /\ pc[k] = "idle" /\ pointer[w]
  /\ pointer' = [pointer EXCEPT ![w] = FALSE]
  /\ IF PX_state[w] \in {"PX_firstResume", "PX_starting"}
     THEN /\ BeginDelete(k, w, "idle")
          /\ early' = IF PX_state[w] = "PX_starting" THEN early \cup {w} ELSE early
     ELSE /\ pc' = [pc EXCEPT ![k] = "w_wait"]
          /\ arg' = [arg EXCEPT ![k] = w]
          /\ UNCHANGED <<object, back, begun, early>>
  /\ UNCHANGED <<threadVars, listVars, processVars, late>>

\* Any other is deleted when it has terminated.
DeleteTerminated(k) ==
  /\ pc[k] = "w_wait"
  /\ IsTerminated(arg[k])
  /\ BeginDelete(k, arg[k], "idle")
  /\ UNCHANGED <<threadVars, listVars, processVars, pointer, early, late>>

\* The owner leaves the deletion to the thread.
SetAutoDelete(k, w) ==
  /\ pc[k] = "idle" /\ pointer[w]
  /\ pointer' = [pointer EXCEPT ![w] = FALSE]
  /\ m_type' = [m_type EXCEPT ![w] = "auto"]
  /\ UNCHANGED <<object, PX_state, m_threadId, PX_synchroniseThreadFinish, listVars,
                 processVars, pc, arg, back, history>>

-----------------------------------------------------------------------------
(* The housekeeper.                                                        *)

\* The loop's test; without work the housekeeper runs the timers and waits.
KeepHouse(h) ==
  /\ IF m_keepingHouse THEN m_autoDeleteThreads # <<>> /\ Goto(h, "h_loop", "h_delete")
                       ELSE Goto(h, "h_loop", "post")
  /\ UNCHANGED <<object, threadVars, listVars, processVars, arg, back, pointer, history>>

\* Mutant: the housekeeper passes the queue by.
MutDeleteQueued(a, at, then) ==
  /\ Goto(a, at, then)
  /\ UNCHANGED <<object, threadVars, listVars, processVars, arg, back, pointer, history>>

\* while (m_autoDeleteThreads.Dequeue(thread, 0)) delete thread;
DeleteQueued(a, at, then) ==
  IF m_autoDeleteThreads = <<>>
  THEN /\ Goto(a, at, then)
       /\ UNCHANGED <<object, threadVars, listVars, processVars, arg, back, pointer, history>>
  ELSE /\ pc[a] = at
       /\ m_autoDeleteThreads' = Tail(m_autoDeleteThreads)
       /\ BeginDelete(a, Head(m_autoDeleteThreads), at)
       /\ UNCHANGED <<threadVars, m_activeThreads, processVars, pointer, early, late>>

-----------------------------------------------------------------------------
(* The destructor of PProcess.                                             *)

ShutDown ==
  /\ Goto(Main, "idle", "p_keeper")
  /\ m_shuttingDown' = TRUE
  /\ UNCHANGED <<object, threadVars, listVars, m_keepingHouse, m_houseKeeper, made, toTerminate,
                 arg, back, pointer, history>>

StopKeeper ==
  /\ Goto(Main, "p_keeper", IF m_houseKeeper = None THEN "p_list" ELSE "p_wait")
  /\ arg' = [arg EXCEPT ![Main] = m_houseKeeper]
  /\ m_keepingHouse' = (m_keepingHouse /\ m_houseKeeper = None)
  /\ UNCHANGED <<object, threadVars, listVars, m_houseKeeper, made, m_shuttingDown, toTerminate,
                 back, pointer, history>>

DeleteKeeper ==
  /\ pc[Main] = "p_wait"
  /\ IsTerminated(arg[Main])
  /\ BeginDelete(Main, m_houseKeeper, "p_forget")
  /\ UNCHANGED <<threadVars, listVars, processVars, pointer, early, late>>

ForgetKeeper ==
  /\ Goto(Main, "p_forget", "p_list")
  /\ m_houseKeeper' = None
  /\ UNCHANGED <<object, threadVars, listVars, m_keepingHouse, made, m_shuttingDown, toTerminate,
                 arg, back, pointer, history>>

\* Under m_threadMutex: collect those still running and clear the list.
ListRemaining ==
  /\ Goto(Main, "p_list", "p_terminate")
  /\ toTerminate' = {m_activeThreads[i] : i \in {j \in Ids :
                       m_activeThreads[j] # None /\ ~IsTerminated(m_activeThreads[j])}}
  /\ m_activeThreads' = [i \in Ids |-> None]
  /\ UNCHANGED <<object, threadVars, m_autoDeleteThreads, m_keepingHouse, m_houseKeeper, made,
                 m_shuttingDown, arg, back, pointer, history>>

\* Terminate, with a limit on each wait: the thread is cancelled once it is running,
\* or goes on with what it does before that or after its Main.
TerminateRemaining ==
  /\ pc[Main] = "p_terminate"
  /\ \/ /\ toTerminate = {} /\ Goto(Main, "p_terminate", "p_delete")
        /\ UNCHANGED toTerminate
     \/ \E o \in toTerminate :
          /\ toTerminate' = toTerminate \ {o}
          /\ pc' = [pc EXCEPT ![o] = IF @ \in {"started", "main", "h_loop"} THEN "post" ELSE @]
  /\ UNCHANGED <<object, threadVars, listVars, m_keepingHouse, m_houseKeeper, made, m_shuttingDown,
                 arg, back, pointer, history>>

-----------------------------------------------------------------------------
ThreadStep(o) == PreMain(o) \/ PreMainEnds(o) \/ PostMain(o) \/ Ended(o) \/ SignalFinish(o)

KeeperStep(h) == KeepHouse(h) \/ DeleteQueued(h, "h_delete", "h_loop") \/ Destructor(h)

CallStep(k) == \/ Resume(k) \/ AssignPointer(k) \/ SignalTimerChange(k) \/ SwapKeepingHouse(k) \/ AssignHouseKeeper(k)
               \/ DeleteTerminated(k) \/ Destructor(k)

ShutDownStep == \/ StopKeeper \/ DeleteKeeper \/ ForgetKeeper \/ ListRemaining
                \/ TerminateRemaining \/ DeleteQueued(Main, "p_delete", "p_end")

Next == \/ \E k \in Callers, w \in Workers : Create(k, w) \/ WaitAndDelete(k, w) \/ SetAutoDelete(k, w)
        \/ \E k \in Owners : CallStep(k)
        \/ \E o \in Objects : ThreadStep(o)
        \/ \E w \in Workers : MainEnds(w) \/ DeleteMyself(w)
        \/ \E h \in Keepers : KeeperStep(h)
        \/ ShutDown \/ ShutDownStep

\* Threads that can take a step take it, and every Main ends.  Beginning a call,
\* and destroying the process, is left open.
Spec == /\ Init /\ [][Next]_vars
        /\ \A k \in Owners : WF_vars(CallStep(k))
        /\ \A o \in Objects : WF_vars(ThreadStep(o))
        /\ \A w \in Workers : WF_vars(MainEnds(w))
        /\ \A h \in Keepers : WF_vars(KeeperStep(h))
        /\ WF_vars(ShutDownStep)

-----------------------------------------------------------------------------
Locations == {"idle", "created", "assign", "stc", "stc_swap", "stc_assign", "w_wait", "destructor",
              "none", "pre", "started", "main", "post", "ended", "ended_signal", "signal", "gone",
              "h_loop", "h_delete", "p_keeper", "p_wait", "p_forget", "p_list",
              "p_terminate", "p_delete", "p_end"}

\* The values the variables take.
TypeOK ==
  /\ object \in [Objects -> {"absent", "alive", "destroying", "freed"}]
  /\ m_type \in [Objects -> {"auto", "manual"}]
  /\ PX_state \in [Objects -> {"PX_firstResume", "PX_starting", "PX_running", "PX_finishing",
                               "PX_finished"}]
  /\ m_threadId \in [Objects -> Ids \cup {0}]
  /\ PX_synchroniseThreadFinish \in [Objects -> {"null", "unset", "set"}]
  /\ m_activeThreads \in [Ids -> Objects \cup {None}]
  /\ m_autoDeleteThreads \in Seq(Objects)
  /\ m_keepingHouse \in BOOLEAN /\ m_shuttingDown \in BOOLEAN /\ m_houseKeeper \in Keepers \cup {None}
  /\ pc \in [Actors -> Locations] /\ made \in [Owners -> Keepers \cup {None}]
  /\ arg \in [Actors -> Objects \cup {None}]
  /\ back \in [Actors -> Locations]
  /\ pointer \in [Workers -> BOOLEAN]
  /\ toTerminate \subseteq Objects
  /\ begun \in [Objects -> Nat] /\ early \subseteq Workers /\ late \in BOOLEAN

\* Places at which the thread of an object still uses the object.
InObject == {"pre", "started", "main", "post", "ended", "ended_signal", "signal",
             "h_loop", "h_delete"}

\* An object is deleted once, and neither its thread nor the process's lists
\* reach it afterwards ("carefully constructed to avoid race condition").
NothingReachesDeleted ==
  \A o \in Objects :
    /\ begun[o] <= 1
    /\ object[o] = "freed" =>
         /\ pc[o] \notin InObject
         /\ \A i \in Ids : m_activeThreads[i] # o
         /\ \A n \in DOMAIN m_autoDeleteThreads : m_autoDeleteThreads[n] # o
         /\ m_houseKeeper = o => pc[Main] = "p_forget"

\* A thread in its Main is found under its identifier, whoever had that
\* identifier before, until the process is destroyed.
RunningIsFound ==
  \A w \in Workers : pc[w] = "main" /\ ~m_shuttingDown
                     => m_activeThreads[m_threadId[w]] = w

\* WaitAndDelete destroys an object when its Main is over ("Wait for thread
\* termination and delete object", thread.h:183).
DestroyedAfterMain ==
  \A o \in Objects : object[o] # "alive" => pc[o] \notin {"pre", "started", "main", "h_loop"}

\* ... which holds but for a thread caught between its creation and its first step,
\* and for a housekeeper started late, which the process takes for the first.
DestroyedAfterMainUnlessRaced ==
  ~late => \A o \in Objects \ early :
             object[o] # "alive" => pc[o] \notin {"pre", "started", "main", "h_loop"}

\* A thread that is automatic when it ends is deleted: by the housekeeper, or by
\* the destructor of the process.
AwaitsDeletion(w) == pc[w] = "ended" /\ m_type[w] = "auto"
Deleted(w)        == object[w] = "freed" \/ pc[Main] = "p_end"
AutomaticIsDeleted == \A w \in Workers : AwaitsDeletion(w) ~> Deleted(w)

\* The destructor of the process gets rid of the housekeeper and returns, unless a
\* thread that had looked at m_shuttingDown before starts another housekeeper.
ShutDownOver    == pc[Main] = "p_end" \/ late
ShutDownReturns == m_shuttingDown ~> ShutDownOver

\* Both, the two ways in which the house is kept.
HouseIsKept == AutomaticIsDeleted /\ ShutDownReturns
=============================================================================
