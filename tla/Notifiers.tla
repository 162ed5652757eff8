----------------------------- MODULE Notifiers ------------------------------
(***************************************************************************)
(* The notifiers that outlive their target (notifier_ext.h, .cxx).  A      *)
(* validated notifier asks the table of identifiers whether its target     *)
(* exists and then calls it.  An asynchronous one puts a callback into the *)
(* queue of its target, and the target's own thread takes it out again.    *)
(* All queues are in one map behind one mutex, which a target holds while  *)
(* it waits for its semaphore.  The semaphore counts what is queued.       *)
(***************************************************************************)
EXTENDS Naturals, Sequences

CONSTANTS Callers,             \* the threads that call notifiers
          AsyncTargets, ValidatedTargets,
          Nobody,              \* a caller without a target, a mutex without an owner
          Endless,             \* whether AsyncNotifierExecute waits without limit
          MaxPosts, MaxExecutes   \* bounds on callbacks queued, on calls of Execute

Targets == AsyncTargets \cup ValidatedTargets

VARIABLES m_mutex,        \* the owner of PAsyncNotifierQueueMap::m_mutex
          inUse,          \* the identifiers of both tables
          queue,          \* the queue of each asynchronous target
          pc,             \* of each caller, and of each target's own thread
          subject,        \* the target a caller calls
          wait,           \* whether a target's Execute has a time to wait
          posted, called, \* history: what was queued for a target, what it was called with
          executes        \* history: the calls of AsyncNotifierExecute

notifierVars == <<m_mutex, inUse, queue, pc, subject, wait, posted, called, executes>>

NotifierInit ==
  /\ m_mutex = Nobody /\ inUse = Targets
  /\ queue = [o \in AsyncTargets |-> << >>]
  /\ pc = [p \in Callers \cup Targets |-> "idle"]
  /\ subject = [c \in Callers |-> Nobody]
  /\ wait = [o \in AsyncTargets |-> FALSE]
  /\ posted = [o \in AsyncTargets |-> 0] /\ called = [o \in AsyncTargets |-> << >>]
  /\ executes = 0

At(p, from, to) == pc[p] = from /\ pc' = [pc EXCEPT ![p] = to]
Unlocked        == m_mutex = Nobody

-----------------------------------------------------------------------------
(* Callers.                                                                *)

\* A notifier of PDECLARE_ASYNC_NOTIFIER: a new callback, then Queue.
CallAsync(c, o) ==
  /\ o \in AsyncTargets /\ posted[o] < MaxPosts
  /\ At(c, "idle", "queueing")
  /\ subject' = [subject EXCEPT ![c] = o]
  /\ UNCHANGED <<m_mutex, inUse, queue, wait, posted, called, executes>>

\* PAsyncNotifierQueueMap::Queue: the callback is deleted when the target is gone.
Queue(c) ==
  /\ At(c, "queueing", "idle") /\ Unlocked
  /\ subject' = [subject EXCEPT ![c] = Nobody]
  /\ LET o == subject[c] IN
       IF o \in inUse
       THEN /\ posted' = [posted EXCEPT ![o] = @ + 1]
            /\ queue'  = [queue EXCEPT ![o] = Append(@, posted'[o])]
       ELSE UNCHANGED <<posted, queue>>
  /\ UNCHANGED <<m_mutex, inUse, wait, called, executes>>

\* A notifier of PDECLARE_VALIDATED_NOTIFIER: GetTarget() asks Exists ...
CallValidated(c, o) ==
  /\ o \in ValidatedTargets \cap inUse
  /\ At(c, "idle", "exists")
  /\ subject' = [subject EXCEPT ![c] = o]
  /\ UNCHANGED <<m_mutex, inUse, queue, wait, posted, called, executes>>

\* ... and the function of the target runs.
TargetCalled(c) ==
  /\ At(c, "exists", "idle")
  /\ subject' = [subject EXCEPT ![c] = Nobody]
  /\ UNCHANGED <<m_mutex, inUse, queue, wait, posted, called, executes>>

-----------------------------------------------------------------------------
(* Targets.                                                                *)

\* AsyncNotifierExecute: the lock of the map.
Execute(o, w) ==
  /\ executes < MaxExecutes /\ executes' = executes + 1
  /\ At(o, "idle", "inGet") /\ Unlocked
  /\ m_mutex' = o
  /\ wait' = [wait EXCEPT ![o] = w]
  /\ UNCHANGED <<inUse, queue, subject, posted, called>>

\* GetCallback: the semaphore lets the target have the front of its queue, which
\* stays there in the model until the callback has run ...
GetCallback(o) ==
  /\ At(o, "inGet", "executing") /\ queue[o] # << >>
  /\ m_mutex' = Nobody
  /\ UNCHANGED <<inUse, queue, subject, wait, posted, called, executes>>

\* ... or its wait comes to an end.
NoCallback(o) ==
  /\ At(o, "inGet", "idle") /\ queue[o] = << >>
  /\ wait[o] => ~Endless
  /\ m_mutex' = Nobody
  /\ UNCHANGED <<inUse, queue, subject, wait, posted, called, executes>>

\* callback->Call()
Call(o) ==
  /\ At(o, "executing", "idle")
  /\ called' = [called EXCEPT ![o] = Append(@, Head(queue[o]))]
  /\ queue'  = [queue EXCEPT ![o] = Tail(@)]
  /\ UNCHANGED <<m_mutex, inUse, subject, wait, posted, executes>>

\* The destructors of the class derived from the target ...
Destroy(o) == /\ At(o, "idle", "destroying")
              /\ UNCHANGED <<m_mutex, inUse, queue, subject, wait, posted, called, executes>>

\* ... and ~PValidatedNotifierTarget or ~PAsyncNotifierTarget, which give the
\* identifier back; the callbacks still queued are forgotten.
RemoveTarget(o) ==
  /\ At(o, "destroying", "destroyed")
  /\ o \in AsyncTargets => Unlocked
  /\ inUse' = inUse \ {o}
  /\ queue' = [q \in AsyncTargets |-> IF q = o THEN << >> ELSE queue[q]]
  /\ UNCHANGED <<m_mutex, subject, wait, posted, called, executes>>

TargetStep(o) == \/ o \in AsyncTargets /\ (GetCallback(o) \/ NoCallback(o) \/ Call(o))
                 \/ RemoveTarget(o)

NotifierNext ==
  \/ \E c \in Callers, o \in Targets : CallAsync(c, o) \/ CallValidated(c, o)
  \/ \E c \in Callers : Queue(c) \/ TargetCalled(c)
  \/ \E o \in AsyncTargets, w \in BOOLEAN : Execute(o, w)
  \/ \E o \in Targets : TargetStep(o) \/ Destroy(o)

NotifierSpec == /\ NotifierInit /\ [][NotifierNext]_notifierVars
                /\ \A c \in Callers : WF_notifierVars(Queue(c)) /\ WF_notifierVars(TargetCalled(c))
                /\ \A o \in Targets : WF_notifierVars(TargetStep(o))

-----------------------------------------------------------------------------
\* "the call simply will not happen rather than crash" (notifier_ext.h:88): a
\* validated notifier does not run a function of an object that is gone.
CallsOnlyWhatExists ==
  [][\A c \in Callers : pc[c] = "exists" /\ pc'[c] = "idle" => subject[c] \in inUse]_notifierVars

\* A target's thread runs each callback once, in the order in which they were
\* queued, and leaves none out while the target lives.
CallbacksInOrder ==
  \A o \in AsyncTargets : /\ \A n \in DOMAIN called[o] : called[o][n] = n
                          /\ pc[o] # "destroyed" => Len(called[o]) + Len(queue[o]) = posted[o]

\* Who calls an asynchronous notifier is not held up for ever.
QueueReturns == \A c \in Callers : pc[c] = "queueing" ~> pc[c] = "idle"

\* "Time to wait for a notification" (notifier_ext.h:202): a notification ends
\* the wait of the target it is for.
NotificationEndsWait ==
  \A c \in Callers, o \in AsyncTargets :
     (pc[c] = "queueing" /\ subject[c] = o /\ pc[o] = "inGet") ~> pc[o] # "inGet"
=============================================================================
