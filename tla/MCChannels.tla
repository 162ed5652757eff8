------------------------------ MODULE MCChannels -----------------------------
(***************************************************************************)
(* Channels and sockets in one run: the queue channel, the indirect        *)
(* channel, the spool directory, the bundle of sockets and the monitor of  *)
(* the interfaces, and a telnet connection.  The variable part says which  *)
(* of them a behaviour is about; the others stay as they are initially.    *)
(***************************************************************************)
EXTENDS QueueChannel

CONSTANTS Actors,                             \* one stands for several, each in another part
          None,
          Callers, MaxCalls, Channels,        \* IndirectChannel
          Files, Spoolers, Scanner,           \* SpoolDirectory
          BundleReaders, BundleControllers, Monitor, Ifaces, FailSafe, MaxBundleOpens,
          MaxChanges,                         \* SocketBundle
          Clients, Mains, Detector, MaxStarts,   \* InterfaceMonitor
          Local, Remote, MaxAsks, MaxWrites   \* Telnet

VARIABLES part,
          readChannel, writeChannel, readAutoDelete, writeAutoDelete, status, holds,
          queued, indPc, call, using, owned, overlapped, indCalls,      \* IndirectChannel
          holder, m_threadRunning, scanner, listed, seen, entry, file,
          lockFile, spoolPc,                                            \* SpoolDirectory
          lock, m_opened, sockets, m_socketInfoMap, m_inUse, signalOpen, up,
          toAdd, toRemove, bundlePc, goal, victim, naps, readerEntry, selected,
          polled, woken, bundleOpens, changes, raced, late, erased,     \* SocketBundle
          m_notifiers, m_updateThread, m_changedDetector, cancelled, update, toCall,
          calling, monitorPc, awaited, starts, twoStops, broken,        \* InterfaceMonitor
          ourState, theirState, state, wire, second, written, received, asked   \* Telnet

I == INSTANCE IndirectChannel WITH
       Threads <- Callers, HalfDetach <- FALSE, pc <- indPc, calls <- indCalls

S == INSTANCE SpoolDirectory WITH
       Controllers <- Spoolers, Nobody <- None, pc <- spoolPc

B == INSTANCE SocketBundle WITH
       Readers <- BundleReaders, Named <- {}, Controllers <- BundleControllers, Nobody <- None,
       Reuse <- FALSE, MaxOpens <- MaxBundleOpens,
       pc <- bundlePc, entry <- readerEntry, opens <- bundleOpens, broken <- erased

M == INSTANCE InterfaceMonitor WITH pc <- monitorPc, overlapped <- twoStops

T == INSTANCE Telnet WITH
       Writer <- Local, Reader <- Remote, Willing <- {Local, Remote}, OneThread <- TRUE

indPart    == <<readChannel, writeChannel, readAutoDelete, writeAutoDelete, status, holds,
                queued, indPc, call, using, owned, overlapped, indCalls>>
spoolPart  == <<holder, m_threadRunning, scanner, listed, seen, entry, file, lockFile, spoolPc>>
bundlePart == <<lock, m_opened, sockets, m_socketInfoMap, m_inUse, signalOpen, up, toAdd,
                toRemove, bundlePc, goal, victim, naps, readerEntry, selected, polled, woken,
                bundleOpens, changes, raced, late, erased>>
monitorPart == <<m_notifiers, m_updateThread, m_changedDetector, cancelled, update, toCall,
                 calling, monitorPc, awaited, starts, twoStops, broken>>
telnetPart == <<ourState, theirState, state, wire, second, written, received, asked>>
allVars    == <<part, vars, indPart, spoolPart, bundlePart, monitorPart, telnetPart>>

ASSUME PartsAssumption == /\ I!IndirectAssumption /\ S!NobodyAssumption /\ B!BundleAssumption
                          /\ M!MonitorAssumption /\ T!EndsAssumption

MCInit == /\ part \in {"queue", "indirect", "spool", "bundle", "monitor", "telnet"}
          /\ Init /\ (part # "queue" => ~open)
          /\ I!IndInit /\ M!MonitorInit /\ T!TelnetInit
          /\ S!SpoolInit /\ (part # "spool" => entry = CHOOSE f \in Files : TRUE)
          /\ B!BundleInit /\ (part # "bundle" => up = {})

\* A behaviour is about one part, and only variables of that one change.
OthersStay ==
  /\ UNCHANGED part
  /\ IF part = "queue" THEN TRUE ELSE UNCHANGED vars
  /\ IF part = "indirect" THEN TRUE ELSE UNCHANGED indPart
  /\ IF part = "spool" THEN TRUE ELSE UNCHANGED spoolPart
  /\ IF part = "bundle" THEN TRUE ELSE UNCHANGED bundlePart
  /\ IF part = "monitor" THEN TRUE ELSE UNCHANGED monitorPart
  /\ IF part = "telnet" THEN TRUE ELSE UNCHANGED telnetPart

\* The properties of the bundle say nothing of what follows a race or a reader that
\* is too slow, and the behaviour of the bundle is not followed any further.
MCNext == \/ part = "queue" /\ Next /\ OthersStay
          \/ part = "indirect" /\ I!IndNext /\ OthersStay
          \/ part = "spool" /\ S!SpoolNext /\ OthersStay
          \/ part = "bundle" /\ ~raced /\ ~late /\ B!BundleNext /\ OthersStay
          \/ part = "monitor" /\ M!MonitorNext /\ OthersStay
          \/ part = "telnet" /\ T!TelnetNext /\ OthersStay

\* What actor a does when it can, in whatever part it appears.
FairStep(a) ==
  /\ \/ part = "queue" /\ a \in Readers /\ ReaderStep(a)
     \/ part = "queue" /\ a \in Writers /\ WriterStep(a)
     \/ part = "queue" /\ a \in Closers \cup Openers /\ ControllerStep(a)
     \/ part = "indirect" /\ a \in Callers /\ I!Step(a)
     \/ part = "spool" /\ a \in Spoolers /\ S!ThreadGone(a)
     \/ part = "spool" /\ a = Scanner /\ S!ScannerStep
     \/ part = "bundle" /\ a \in BundleReaders /\ B!ReaderStep(a)
     \/ part = "bundle" /\ a \in BundleControllers /\ B!ControllerStep(a)
     \/ part = "bundle" /\ a \in BundleControllers \cup {Monitor} /\ B!DestroyerStep(a)
     \/ part = "bundle" /\ a = Monitor /\ B!MonitorStep
     \/ part = "monitor" /\ a \in Clients \cup Mains /\ M!StopStep(a)
     \/ part = "monitor" /\ a = Detector /\ \E u \in 1 .. MaxStarts : M!UpdateStep(u)
     \/ part = "telnet" /\ a \in {Local, Remote} /\ T!ReadByte(a)
     \/ part = "telnet" /\ a = Local /\ T!WriteSecond
  /\ OthersStay

\* The fairness of the specifications of the parts, an actor a condition.
MCSpec == MCInit /\ [][MCNext]_allVars /\ \A a \in Actors : WF_allVars(FairStep(a))

-----------------------------------------------------------------------------
\* PIndirectChannel: see IndirectChannel.
DeletedWhenUnused == I!DeletedWhenUnused

\* PSpoolDirectory: see SpoolDirectory.
ProcessedWhole == S!ProcessedWhole

\* PMonitoredSocketBundle: see SocketBundle.
SocketsSafe == B!SocketsSafe

\* PInterfaceMonitor: see InterfaceMonitor.
NotCalledOnceRemoved == M!NotCalledOnceRemoved

\* PTelnetSocket: data arrives intact as long as the two ends are in step, and once
\* nothing is under way they agree on the option.  See Telnet.
DataAndOptionsAgree == T!IntactInStep /\ T!QuietIsAgreed

\* Calls that wait come back: BlockedReturn of QueueChannel, CloseReturns of
\* IndirectChannel, CloseReturnsUnlessCaught of SpoolDirectory, ReaderComesOut of
\* SocketBundle and StopReturns of InterfaceMonitor; and NegotiationEnds of Telnet.
Waiting(a) ==
  CASE part = "queue"    -> a \in Readers \cup Writers /\ CanGoOn(a)
    [] part = "indirect" -> I!InClose(a)
    [] part = "spool"    -> a \in Spoolers /\ S!InClose(a)
    [] part = "bundle"   -> a \in BundleReaders /\ B!InSelect(a)
    [] part = "monitor"  -> M!InStop(a)
    [] part = "telnet"   -> ~T!Quiet
Through(a) ==
  CASE part = "queue"    -> a \in Readers \cup Writers => Returned(a)
    [] part = "indirect" -> I!OutOfClose(a)
    [] part = "spool"    -> a \in Spoolers => S!OutOfClose(a)
    [] part = "bundle"   -> a \in BundleReaders => B!OutOfSelect(a)
    [] part = "monitor"  -> M!OutOfStop(a)
    [] part = "telnet"   -> T!Quiet \/ T!Repeated
EveryWaitEnds == \A a \in Callers : Waiting(a) ~> Through(a)
=============================================================================
