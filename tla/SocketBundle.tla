---------------------------- MODULE SocketBundle ----------------------------
(***************************************************************************)
(* PMonitoredSocketBundle of src/ptclib/psockbun.cxx: one UDP socket for   *)
(* each network interface, threads that read from all of them or from one, *)
(* threads that open and close the bundle, and the interface monitor that  *)
(* adds and removes sockets.  The lock of the bundle is given up while a   *)
(* reader waits in Select() and while a thread that destroys a socket      *)
(* waits for its reader.  Select() is the one built on poll().             *)
(***************************************************************************)
EXTENDS Naturals, Sequences, FiniteSets

CONSTANTS Readers,
          Named,        \* the readers that name an interface
          Controllers,  \* the threads that open and close the bundle
          Monitor, Nobody,
          Ifaces,
          Reuse,        \* m_reuseAddress
          FailSafe,     \* the naps before a reader is taken to be too slow; 100
          MaxOpens,     \* bound on the calls of Open
          MaxChanges    \* bound on the changes of the interfaces

Destroyers == Controllers \cup {Monitor}
Threads    == Readers \cup Destroyers

BundleAssumption == /\ Named \subseteq Readers /\ Readers \cap Destroyers = {}
                    /\ Monitor \notin Controllers /\ Nobody \notin Threads
                    /\ IsFiniteSet(Ifaces) /\ Reuse \in BOOLEAN /\ FailSafe \in Nat \ {0}
                    /\ MaxOpens \in Nat /\ MaxChanges \in Nat

VARIABLES lock,             \* the thread that has locked the bundle
          m_opened,
          sockets,          \* the state of every socket made so far
          m_socketInfoMap,  \* [socket, node]; node tells an entry of the map from a later one
          m_inUse,          \* of the entries of the map
          signalOpen,       \* m_interfaceAddedSignal
          up,               \* PInterfaceMonitor::m_interfaces
          toAdd, toRemove,  \* the changes the monitor has yet to tell
          pc,
          goal, victim, naps,       \* of a thread that destroys sockets
          entry, selected, polled, woken,   \* of a reader: the entry it refers to, its
                            \* sockets, what poll() watches, what Select() returned
          opens, changes,   \* history: calls of Open, changes
          raced, late, broken   \* history: the map changed under a thread that waited for
                            \* a reader, a reader was too slow, an erased entry was used

bundle  == <<m_opened, sockets, m_socketInfoMap, m_inUse, signalOpen>>
changer == <<goal, victim, naps>>
reader  == <<entry, selected, polled, woken>>
table   == <<up, toAdd, toRemove, opens, changes>>
record  == <<raced, late, broken>>
bundleVars == <<lock, bundle, table, pc, changer, reader, record>>

Absent == [socket |-> 0, node |-> 0]
Nowhere == [iface |-> CHOOSE i \in Ifaces : TRUE, node |-> 0]
Signal == 0             \* m_interfaceAddedSignal among the things polled

InMap(i)    == m_socketInfoMap[i] # Absent
SocketOf(i) == m_socketInfoMap[i].socket
Entry(i)    == [iface |-> i, node |-> m_socketInfoMap[i].node]
Erased(e)   == m_socketInfoMap[e.iface].node # e.node

BundleInit ==
  /\ lock = Nobody /\ m_opened = FALSE
  /\ sockets = <<>> /\ m_socketInfoMap = [i \in Ifaces |-> Absent]
  /\ m_inUse = [i \in Ifaces |-> FALSE] /\ signalOpen = TRUE
  /\ up \in SUBSET Ifaces /\ toAdd = {} /\ toRemove = {}
  /\ pc = [t \in Threads |-> "idle"]
  /\ goal = [t \in Destroyers |-> "none"] /\ victim = [t \in Destroyers |-> Nowhere]
  /\ naps = [t \in Destroyers |-> 0]
  /\ entry = [r \in Readers |-> Nowhere]
  /\ selected = [r \in Readers |-> {}] /\ polled = [r \in Readers |-> {}]
  /\ woken = [r \in Readers |-> "none"]
  /\ opens = 0 /\ changes = 0 /\ raced = FALSE /\ late = FALSE /\ broken = FALSE

Goto(t, from, to) == pc[t] = from /\ pc' = [pc EXCEPT ![t] = to]
Locks(t)   == lock = Nobody /\ lock' = t
Unlocks(t) == lock = t /\ lock' = Nobody

\* A thread changes the map while another one waits for a reader in DestroySocket.
Race(t) == raced' = (raced \/ \E u \in Destroyers \ {t} : pc[u] = "sleep")

-----------------------------------------------------------------------------
(* ReadFromBundle, SocketInfo::Read and ReadFromSocketList.                *)

ReadFromBundle(r) == /\ m_opened /\ Goto(r, "idle", "lock")
                     /\ UNCHANGED <<lock, bundle, table, changer, reader, record>>

\* The open sockets among the entries are marked as in use and the lock is given up.
Collect(r, ifaces) ==
  LET open == {i \in ifaces : sockets[SocketOf(i)] = "open"} IN
  /\ selected' = [selected EXCEPT ![r] = {SocketOf(i) : i \in open}]
  /\ m_inUse' = [i \in Ifaces |-> i \in open \/ (m_inUse[i] /\ i \notin ifaces)]
  /\ pc' = [pc EXCEPT ![r] = "enter"]

\* Fails when another thread reads, which may leave sockets it has come across before
\* marked as in use, or when the interface named has no socket.
StartRead(r) ==
  /\ pc[r] = "lock" /\ lock = Nobody
  /\ \E ifaces \in IF r \in Named THEN {{i} : i \in Ifaces} ELSE {{i \in Ifaces : InMap(i)}} :
       \/ /\ \E i \in ifaces : m_inUse[i] \/ ~InMap(i)
          /\ pc' = [pc EXCEPT ![r] = "idle"]
          /\ \E before \in SUBSET {i \in ifaces : InMap(i) /\ sockets[SocketOf(i)] = "open"} :
               m_inUse' = [i \in Ifaces |-> m_inUse[i] \/ i \in before]
          /\ UNCHANGED <<selected, entry>>
       \/ /\ \A i \in ifaces : ~m_inUse[i] /\ InMap(i)
          /\ Collect(r, ifaces)
          /\ entry' = [entry EXCEPT ![r] = IF r \in Named THEN Entry(CHOOSE i \in ifaces : TRUE)
                                                          ELSE Nowhere]
  /\ UNCHANGED <<lock, m_opened, sockets, m_socketInfoMap, signalOpen, table, changer,
                 polled, woken, record>>

Closed(p) == IF p = Signal THEN ~signalOpen ELSE sockets[p] # "open"
List(r)   == selected[r] \cup {Signal}

\* Select() gives poll() the handles; the one of a closed socket is left out.
EnterSelect(r) == /\ Goto(r, "enter", "poll")
                  /\ polled' = [polled EXCEPT ![r] = {p \in List(r) : ~Closed(p)}]
                  /\ UNCHANGED <<lock, bundle, table, changer, entry, selected, woken, record>>

Select(r, result) ==
  /\ Goto(r, "poll", "relock")
  /\ woken' = [woken EXCEPT ![r] = IF \E p \in List(r) : Closed(p) THEN "interrupted" ELSE result]
  /\ polled' = [polled EXCEPT ![r] = {}]
  /\ UNCHANGED <<lock, bundle, table, changer, entry, selected, record>>

\* A socket that is closed aborts the poll; data or a timeout may end it as well.
Aborted(r)    == \E p \in polled[r] : Closed(p)
SelectAborted(r) == Aborted(r) /\ Select(r, "interrupted")
SelectEnds(r) == ~Aborted(r) /\ \/ polled[r] # {Signal} /\ polled[r] # {} /\ Select(r, "data")
                                \/ Select(r, "timeout")

\* The reader has the lock again.  An empty datagram makes it start over; the
\* signal, when it was used, is opened anew.
ReadAfterSelect(r) ==
  /\ pc[r] = "relock" /\ lock = Nobody
  /\ LET ifaces == IF r \in Named THEN {entry[r].iface} ELSE {i \in Ifaces : InMap(i)}
         gone   == r \in Named /\ Erased(entry[r])
     IN
     /\ broken' = (broken \/ gone)
     /\ \/ /\ m_opened /\ woken[r] = "data" /\ ~gone
           /\ Collect(r, ifaces)
           /\ UNCHANGED <<signalOpen, entry>>
        \/ /\ m_inUse' = [i \in Ifaces |-> m_inUse[i] /\ (i \notin ifaces \/ gone)]
           /\ signalOpen' = (signalOpen \/ (m_opened /\ woken[r] = "interrupted"))
           /\ pc' = [pc EXCEPT ![r] = "idle"]
           /\ selected' = [selected EXCEPT ![r] = {}] /\ entry' = [entry EXCEPT ![r] = Nowhere]
  /\ woken' = [woken EXCEPT ![r] = "none"]
  /\ UNCHANGED <<lock, m_opened, sockets, m_socketInfoMap, table, changer, polled, raced, late>>

-----------------------------------------------------------------------------
(* CloseSocket and DestroySocket, with the lock.                           *)

CloseSocket(t, i) ==
  /\ pc' = [pc EXCEPT ![t] = "closed"]
  /\ victim' = [victim EXCEPT ![t] = Entry(i)]
  /\ naps' = [naps EXCEPT ![t] = 0]
  /\ sockets' = [sockets EXCEPT ![SocketOf(i)] = "closed"]

\* Delete the socket, erase the entry.
Erase(t) ==
  LET i == victim[t].iface IN
  /\ sockets' = [sockets EXCEPT ![SocketOf(i)] = "deleted"]
  /\ m_socketInfoMap' = [m_socketInfoMap EXCEPT ![i] = Absent]
  /\ m_inUse' = [m_inUse EXCEPT ![i] = FALSE]
  /\ pc' = [pc EXCEPT ![t] = IF goal[t] = "remove" THEN "unlock" ELSE "closing"]

\* Mutant: the socket is deleted although a reader uses it.
MutDestroySocket(t) ==
  /\ pc[t] = "closed" /\ lock = t
  /\ \A r \in Readers : pc[r] = "poll" => SocketOf(victim[t].iface) \notin polled[r]
  /\ Erase(t)
  /\ UNCHANGED <<lock, m_opened, signalOpen, table, changer, reader, record>>

\* Close() has returned, once poll() was left by those that watch the socket: wait
\* without the lock for a reader that uses it, else delete it.
DestroySocket(t) ==
  /\ pc[t] = "closed" /\ lock = t
  /\ \A r \in Readers : pc[r] = "poll" => SocketOf(victim[t].iface) \notin polled[r]
  /\ IF m_inUse[victim[t].iface]
       THEN /\ pc' = [pc EXCEPT ![t] = "sleep"] /\ lock' = Nobody
            /\ UNCHANGED <<sockets, m_socketInfoMap, m_inUse>>
       ELSE Erase(t) /\ UNCHANGED lock
  /\ UNCHANGED <<m_opened, signalOpen, table, changer, reader, record>>

\* Every nap ends with the lock taken and the entry looked at again.
NapOver(t) ==
  /\ pc[t] = "sleep" /\ lock = Nobody
  /\ naps' = [naps EXCEPT ![t] = @ + 1]
  /\ IF Erased(victim[t])
       THEN /\ broken' = TRUE /\ lock' = t
            /\ pc' = [pc EXCEPT ![t] = IF goal[t] = "remove" THEN "unlock" ELSE "closing"]
            /\ UNCHANGED <<late, sockets, m_socketInfoMap, m_inUse>>
       ELSE /\ UNCHANGED broken
            /\ late' = (late \/ (m_inUse[victim[t].iface] /\ naps'[t] = FailSafe))
            /\ IF m_inUse[victim[t].iface] /\ naps'[t] < FailSafe
                 THEN UNCHANGED <<lock, pc, sockets, m_socketInfoMap, m_inUse>>
                 ELSE lock' = t /\ Erase(t)
  /\ UNCHANGED <<m_opened, signalOpen, table, goal, victim, reader, raced>>

-----------------------------------------------------------------------------
(* OpenSocket and CreateSocket: where there is a socket already the second *)
(* one cannot be bound, unless addresses are shared or the first is closed;*)
(* then it takes the place of the first one in the entry.                  *)

OpenSockets(ifaces) ==
  LET free == {i \in ifaces : InMap(i) => Reuse \/ sockets[SocketOf(i)] # "open"}
      number == CHOOSE f \in [free -> 1 .. Cardinality(free)] :
                  \A i, j \in free : i # j => f[i] # f[j]
      New(i) == Len(sockets) + number[i]
  IN  /\ sockets' = sockets \o [n \in 1 .. Cardinality(free) |-> "open"]
      /\ m_socketInfoMap' = [i \in Ifaces |->
           IF i \in free THEN [socket |-> New(i),
                               node |-> IF InMap(i) THEN m_socketInfoMap[i].node ELSE New(i)]
                         ELSE m_socketInfoMap[i]]
      /\ m_inUse' = [i \in Ifaces |-> m_inUse[i] /\ i \notin free]

(* Open and Close of the bundle.                                           *)

CallOpen(c) ==
  /\ opens < MaxOpens /\ opens' = opens + 1
  /\ Goto(c, "idle", "closing") /\ Locks(c)
  /\ m_opened' = TRUE
  /\ goal' = [goal EXCEPT ![c] = "open"]
  /\ Race(c)
  /\ UNCHANGED <<sockets, m_socketInfoMap, m_inUse, signalOpen, up, toAdd, toRemove, changes,
                 victim, naps, reader, late, broken>>

CallClose(c) ==
  /\ m_opened
  /\ Goto(c, "idle", "closing") /\ Locks(c)
  /\ m_opened' = FALSE
  /\ goal' = [goal EXCEPT ![c] = "close"]
  /\ Race(c)
  /\ UNCHANGED <<sockets, m_socketInfoMap, m_inUse, signalOpen, table, victim, naps, reader,
                 late, broken>>

CloseNext(c) ==
  /\ pc[c] = "closing" /\ lock = c
  /\ \E i \in Ifaces : InMap(i) /\ CloseSocket(c, i)
  /\ UNCHANGED <<lock, m_opened, m_socketInfoMap, m_inUse, signalOpen, table, goal, reader, record>>

OpenAll(c) ==
  /\ goal[c] = "open" /\ Goto(c, "closing", "unlock") /\ lock = c
  /\ \A i \in Ifaces : ~InMap(i)
  /\ OpenSockets(up)
  /\ UNCHANGED <<lock, m_opened, signalOpen, table, changer, reader, record>>

CloseSignal(c) ==
  /\ goal[c] = "close" /\ Goto(c, "closing", "unlock") /\ lock = c
  /\ \A i \in Ifaces : ~InMap(i)
  /\ signalOpen' = FALSE
  /\ UNCHANGED <<lock, m_opened, sockets, m_socketInfoMap, m_inUse, table, changer, reader, record>>

\* m_interfaceAddedSignal.Close() too waits for those that watch the signal.
Leave(t) ==
  /\ Goto(t, "unlock", "idle") /\ Unlocks(t)
  /\ signalOpen \/ \A r \in Readers : pc[r] = "poll" => Signal \notin polled[r]
  /\ goal' = [goal EXCEPT ![t] = "none"] /\ victim' = [victim EXCEPT ![t] = Nowhere]
  /\ naps' = [naps EXCEPT ![t] = 0]
  /\ UNCHANGED <<bundle, table, reader, record>>

-----------------------------------------------------------------------------
(* The interface monitor and OnInterfaceChange.                            *)

RefreshInterfaceList ==
  /\ pc[Monitor] = "idle" /\ toAdd = {} /\ toRemove = {}
  /\ changes < MaxChanges /\ changes' = changes + 1
  /\ up' \in SUBSET Ifaces \ {up}
  /\ toAdd' = up' \ up /\ toRemove' = up \ up'
  /\ UNCHANGED <<lock, bundle, opens, pc, changer, reader, record>>

\* m_opened is looked at without the lock.
OnInterfaceChange(i) ==
  /\ IF i \in toAdd THEN toAdd' = toAdd \ {i} /\ UNCHANGED toRemove
                    ELSE toAdd = {} /\ toRemove' = toRemove \ {i} /\ UNCHANGED toAdd
  /\ i \in toAdd \cup toRemove
  /\ IF m_opened
       THEN /\ Goto(Monitor, "idle", "change")
            /\ goal' = [goal EXCEPT ![Monitor] = IF i \in toAdd THEN "add" ELSE "remove"]
            /\ victim' = [victim EXCEPT ![Monitor] = [iface |-> i, node |-> 0]]
       ELSE pc[Monitor] = "idle" /\ UNCHANGED <<pc, goal, victim>>
  /\ UNCHANGED <<lock, bundle, up, opens, changes, naps, reader, record>>

AddInterface ==
  /\ goal[Monitor] = "add" /\ Goto(Monitor, "change", "unlock") /\ Locks(Monitor)
  /\ OpenSockets({victim[Monitor].iface})
  /\ signalOpen' = FALSE
  /\ raced' = (raced \/ ~m_opened \/ \E u \in Controllers : pc[u] = "sleep")
  /\ UNCHANGED <<m_opened, table, changer, reader, late, broken>>

RemoveInterface ==
  /\ goal[Monitor] = "remove" /\ pc[Monitor] = "change" /\ Locks(Monitor)
  /\ Race(Monitor)
  /\ IF InMap(victim[Monitor].iface)
       THEN CloseSocket(Monitor, victim[Monitor].iface)
       ELSE pc' = [pc EXCEPT ![Monitor] = "unlock"] /\ UNCHANGED <<sockets, victim, naps>>
  /\ UNCHANGED <<m_opened, m_socketInfoMap, m_inUse, signalOpen, table, goal, reader, late, broken>>

-----------------------------------------------------------------------------
ReaderStep(r) == StartRead(r) \/ EnterSelect(r) \/ SelectAborted(r) \/ ReadAfterSelect(r)
DestroyerStep(t) == DestroySocket(t) \/ NapOver(t) \/ Leave(t)
ControllerStep(c) == CloseNext(c) \/ OpenAll(c) \/ CloseSignal(c)
MonitorStep == AddInterface \/ RemoveInterface \/ \E i \in Ifaces : OnInterfaceChange(i)

BundleNext == \/ \E r \in Readers : ReadFromBundle(r) \/ SelectEnds(r) \/ ReaderStep(r)
              \/ \E c \in Controllers : CallOpen(c) \/ CallClose(c) \/ ControllerStep(c)
              \/ \E t \in Destroyers : DestroyerStep(t)
              \/ RefreshInterfaceList \/ MonitorStep

\* A thread that has called the bundle goes on; poll() ends by itself only when one
\* of the sockets it watches is closed.
BundleFairness ==
  /\ \A r \in Readers : WF_bundleVars(ReaderStep(r))
  /\ \A t \in Destroyers : WF_bundleVars(DestroyerStep(t))
  /\ \A c \in Controllers : WF_bundleVars(ControllerStep(c))
  /\ WF_bundleVars(MonitorStep)

Spec == BundleInit /\ [][BundleNext]_bundleVars /\ BundleFairness

-----------------------------------------------------------------------------
InUse(r) == IF pc[r] \in {"enter", "poll", "relock"} THEN selected[r] ELSE {}
Settled  == \A t \in Destroyers : pc[t] \notin {"closing", "closed", "sleep"}

\* With one reader, which names no interface: no socket is deleted under it and no
\* erased entry is used.  With any readers every open socket is in the map, and a
\* closed bundle has none.  All of it unless another thread changed the map during a
\* wait for a reader, the monitor had seen the bundle open and added to a closed one,
\* or a reader did not return in time.  The code refuses a second reader when it sees
\* the first (psockbun.cxx:1052), but one that came in when there was no socket is not
\* seen, and takes the other's sockets for unused when it leaves.
SocketsSafe ==
  raced \/ late \/ Reuse \/
    /\ ~broken \/ Named # {}
    /\ Named = {} /\ (\A r, q \in Readers : r = q) =>
         \A r \in Readers : \A s \in InUse(r) : sockets[s] # "deleted"
    /\ \A s \in DOMAIN sockets : sockets[s] = "open" => \E i \in Ifaces : SocketOf(i) = s
    /\ ~m_opened /\ Settled => \A i \in Ifaces : ~InMap(i)

\* A reader that waits in poll() with something to watch comes out of it when the
\* bundle is closed, also when there is no socket but the signal.
InSelect(r)    == pc[r] = "poll" /\ polled[r] # {} /\ ~m_opened
OutOfSelect(r) == pc[r] # "poll" \/ raced \/ late
ReaderComesOut == \A r \in Readers : InSelect(r) ~> OutOfSelect(r)

\* "needed to make sure multi-threading doesn't crash" (psockbun.cxx).
NeverUsesErased == ~broken
=============================================================================
