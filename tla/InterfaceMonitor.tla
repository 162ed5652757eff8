-------------------------- MODULE InterfaceMonitor --------------------------
(***************************************************************************)
(* PInterfaceMonitor of src/ptclib/psockbun.cxx: clients that add and      *)
(* remove their notifiers, the update thread that calls them when the      *)
(* interfaces change, and the shutdown of the process.  The first notifier *)
(* starts the thread, the last one that goes stops it.  m_threadMutex is   *)
(* not held while Stop waits for the end of the thread.                    *)
(*                                                                         *)
(* A client does not add or remove notifiers inside its own notification,  *)
(* though the mutex, which is recursive, would let it: the two clients     *)
(* there are, PMonitoredSocketBundle and PSingleMonitoredSocket, do it in  *)
(* their constructors and destructors.                                     *)
(***************************************************************************)
EXTENDS Naturals, FiniteSets

CONSTANTS Clients,
          Mains,        \* the threads that shut the process down
          MaxStarts     \* bound on the update threads

MonitorAssumption == Mains \cap Clients = {} /\ MaxStarts \in Nat

Threads == Clients \cup Mains
Updates == 1 .. MaxStarts

VARIABLES m_notifiers,
          m_updateThread, m_changedDetector,    \* 0 or the number of the thread
          cancelled,    \* the detectors cancelled
          update,       \* where the update threads are
          toCall,       \* the notifiers OnInterfacesChanged has yet to call
          calling,      \* the one it is in
          pc,
          awaited,      \* the thread a Stop waits for
          starts,       \* history: the update threads started
          overlapped,   \* history: two Stops ran at a time
          broken        \* history: a thread was deleted that was used or running

monitor == <<m_notifiers, m_updateThread, m_changedDetector, cancelled, starts>>
thread  == <<update, toCall, calling>>
callers == <<pc, awaited, overlapped>>
monitorVars == <<monitor, thread, callers, broken>>

MonitorInit ==
  /\ m_notifiers = {} /\ m_updateThread = 0 /\ m_changedDetector = 0
  /\ cancelled = {} /\ update = [u \in Updates |-> "none"]
  /\ toCall = {} /\ calling = {}
  /\ pc = [t \in Threads |-> "out"] /\ awaited = [t \in Threads |-> 0]
  /\ starts = 0 /\ overlapped = FALSE /\ broken = FALSE

Goto(t, from, to) == pc[t] = from /\ pc' = [pc EXCEPT ![t] = to]
UpdateAt(u, from, to) == update[u] = from /\ update' = [update EXCEPT ![u] = to]

\* m_notifiersMutex, which OnInterfacesChanged holds from its first call to its last.
NotifiersFree == \A u \in Updates : update[u] # "notify"

-----------------------------------------------------------------------------
(* AddNotifier with Start, and RemoveNotifier.                             *)

\* Start, when there is no detector.
Start == /\ starts < MaxStarts /\ starts' = starts + 1
         /\ m_changedDetector' = starts' /\ m_updateThread' = starts'
         /\ update' = [update EXCEPT ![starts'] = "wait"]

AddNotifier(c) ==
  /\ NotifiersFree
  /\ Goto(c, "out", "in")
  /\ m_notifiers' = m_notifiers \cup {c}
  /\ IF m_notifiers = {} /\ m_changedDetector = 0
       THEN Start
       ELSE UNCHANGED <<starts, m_changedDetector, m_updateThread, update>>
  /\ UNCHANGED <<cancelled, toCall, calling, awaited, overlapped, broken>>

RemoveNotifier(c) ==
  /\ NotifiersFree
  /\ m_notifiers' = m_notifiers \ {c}
  /\ Goto(c, "in", IF m_notifiers' = {} THEN "stop" ELSE "out")
  /\ UNCHANGED <<m_updateThread, m_changedDetector, cancelled, starts, thread, awaited,
                 overlapped, broken>>

-----------------------------------------------------------------------------
(* Stop, which OnShutdown calls too.                                       *)

OnShutdown(m) == /\ Goto(m, "out", "stop")
                 /\ UNCHANGED <<monitor, thread, awaited, overlapped, broken>>

StopCancels(t) ==
  /\ Goto(t, "stop", IF m_changedDetector = 0 THEN "out" ELSE "fetch")
  /\ cancelled' = IF m_changedDetector = 0 THEN cancelled ELSE cancelled \cup {m_changedDetector}
  /\ overlapped' = (overlapped \/ (m_changedDetector # 0
                                   /\ \E u \in Threads : pc[u] \in {"fetch", "wait", "delete"}))
  /\ UNCHANGED <<m_notifiers, m_updateThread, m_changedDetector, starts, thread, awaited, broken>>

\* m_updateThread->WaitForTermination(), the pointer read without the mutex.
StopFetches(t) == /\ Goto(t, "fetch", "wait")
                  /\ awaited' = [awaited EXCEPT ![t] = m_updateThread]
                  /\ broken' = (broken \/ m_updateThread = 0)
                  /\ UNCHANGED <<monitor, thread, overlapped>>

\* Mutant: Stop does not wait for the thread.
MutStopWaits(t) == /\ Goto(t, "wait", "delete")
                   /\ UNCHANGED <<monitor, thread, awaited, overlapped, broken>>

\* Whoever waits for a thread that was deleted may wait for ever.
StopWaits(t) == /\ Goto(t, "wait", "delete")
                /\ awaited[t] # 0
                /\ update[awaited[t]] = "ended"
                /\ UNCHANGED <<monitor, thread, awaited, overlapped, broken>>

StopDeletes(t) ==
  /\ Goto(t, "delete", "out")
  /\ broken' = (broken \/ (m_updateThread # 0 /\ update[m_updateThread] # "ended")
                       \/ \E u \in Threads \ {t} : pc[u] = "wait" /\ awaited[u] = m_updateThread)
  /\ update' = [u \in Updates |-> IF u = m_updateThread THEN "deleted" ELSE update[u]]
  /\ m_updateThread' = 0 /\ m_changedDetector' = 0
  /\ awaited' = [awaited EXCEPT ![t] = 0]
  /\ UNCHANGED <<m_notifiers, cancelled, starts, toCall, calling, overlapped>>

-----------------------------------------------------------------------------
(* UpdateThreadMain and OnInterfacesChanged.                               *)

\* The detector reports a change, or its time runs out ...
Changed(u) == /\ UpdateAt(u, "wait", "refresh") /\ u \notin cancelled
              /\ UNCHANGED <<monitor, toCall, calling, callers, broken>>

\* ... or it was cancelled.
Cancelled(u) == /\ UpdateAt(u, "wait", "ended") /\ u \in cancelled
                /\ UNCHANGED <<monitor, toCall, calling, callers, broken>>

\* RefreshInterfaceList finds the list as it was ...
Unchanged(u) == /\ UpdateAt(u, "refresh", "wait")
                /\ UNCHANGED <<monitor, toCall, calling, callers, broken>>

\* ... or other, and the notifiers are called one by one.
OnInterfacesChanged(u) ==
  /\ NotifiersFree
  /\ UpdateAt(u, "refresh", "notify")
  /\ toCall' = m_notifiers
  /\ UNCHANGED <<monitor, calling, callers, broken>>

CallNotifier(u) ==
  /\ update[u] = "notify" /\ calling = {}
  /\ \E c \in toCall : calling' = {c} /\ toCall' = toCall \ {c}
  /\ UNCHANGED <<monitor, update, callers, broken>>

NotifierReturns(u) ==
  /\ update[u] = "notify" /\ calling # {}
  /\ calling' = {}
  /\ UNCHANGED <<monitor, update, toCall, callers, broken>>

AllNotified(u) ==
  /\ calling = {} /\ toCall = {}
  /\ UpdateAt(u, "notify", "wait")
  /\ UNCHANGED <<monitor, toCall, calling, callers, broken>>

UpdateStep(u) == \/ Cancelled(u) \/ Unchanged(u) \/ OnInterfacesChanged(u)
                 \/ CallNotifier(u) \/ NotifierReturns(u) \/ AllNotified(u)
StopStep(t) == StopCancels(t) \/ StopFetches(t) \/ StopWaits(t) \/ StopDeletes(t)

MonitorNext == \/ \E c \in Clients : AddNotifier(c) \/ RemoveNotifier(c)
               \/ \E m \in Mains : OnShutdown(m)
               \/ \E t \in Threads : StopStep(t)
               \/ \E u \in Updates : Changed(u) \/ UpdateStep(u)

MonitorFairness == /\ \A u \in Updates : WF_monitorVars(UpdateStep(u))
                   /\ \A t \in Threads : WF_monitorVars(StopStep(t))

Spec == MonitorInit /\ [][MonitorNext]_monitorVars /\ MonitorFairness

-----------------------------------------------------------------------------
\* Unless two Stops overlap, a notifier is never called once RemoveNotifier has taken
\* it out, and no thread object is deleted while it runs or is waited for.
NotCalledOnceRemoved == overlapped \/ (calling \subseteq m_notifiers /\ ~broken)

\* Stop returns, whatever the thread is at, unless it overlaps another one.
InStop(t)    == pc[t] = "stop"
OutOfStop(t) == pc[t] \in {"out", "in"} \/ overlapped
StopReturns  == \A t \in Threads : InStop(t) ~> OutOfStop(t)

\* "monitor the network interfaces on a machine and update a list of clients on any
\* changes" (psockbun.h): while there are clients there is a thread to tell them.
ClientsAreServed == m_notifiers # {} /\ (\A t \in Threads : pc[t] \in {"out", "in"})
                    => \E u \in Updates : update[u] \in {"wait", "refresh", "notify"}
=============================================================================
