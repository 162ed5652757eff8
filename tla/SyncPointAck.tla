---------------------------- MODULE SyncPointAck ----------------------------
(***************************************************************************)
(* PSyncPointAck: a sync point whose Signal blocks until the thread it     *)
(* wakes calls Acknowledge.  It is two PSyncPoints, the base class and the *)
(* member "ack"; the server runs the loop of the class's documentation     *)
(* (Wait, do the operation, Acknowledge) and the clients call Signal.      *)
(***************************************************************************)
EXTENDS Naturals

CONSTANTS Clients, Server,   \* the server is not a client
          AllowTimed,       \* whether clients also call Signal(waitTime)
          MaxSignals        \* bound on the calls of Signal

VARIABLES syncSignalled, syncCond,      \* the PSyncPoint the class derives from
          ackSignalled, ackCond,        \* PSyncPointAck::ack
          pc,                           \* the location of each thread
          timed,                        \* the clients inside Signal(waitTime)
          requests,                     \* calls of Signal so far
          serving, acknowledged,        \* the requests begun and completed
          request,                      \* the latest request of each client
          everTimed                     \* a Signal(waitTime) has been called

Parties == Clients \cup {Server}

Sync == INSTANCE SyncPoint WITH Threads <- Parties, signalled <- syncSignalled, cond <- syncCond
Ack  == INSTANCE SyncPoint WITH Threads <- Parties, signalled <- ackSignalled, cond <- ackCond

syncVars == <<syncSignalled, syncCond>>
ackVars == <<ackSignalled, ackCond>>
history == <<requests, serving, acknowledged, request>>
vars == <<syncVars, ackVars, pc, timed, history, everTimed>>

Goto(t, from, to) == pc[t] = from /\ pc' = [pc EXCEPT ![t] = to]

Init == /\ Sync!SPInit /\ Ack!SPInit
        /\ pc = [t \in Parties |-> IF t = Server THEN "wait" ELSE "idle"]
        /\ timed = {}
        /\ requests = 0 /\ serving = 0 /\ acknowledged = 0
        /\ request = [c \in Clients |-> 0]
        /\ everTimed = FALSE

-----------------------------------------------------------------------------
(* The server.  Whatever was signalled before it wakes is what it serves.  *)

ServerWaits ==
  /\ pc[Server] = "wait"
  /\ Sync!WaitBlocks(Server) \/ Sync!WakeBlocks(Server)
  /\ UNCHANGED <<ackVars, pc, timed, history, everTimed>>

ServerWakes ==
  /\ Goto(Server, "wait", "working")
  /\ Sync!WaitPasses(Server) \/ Sync!WakePasses(Server)
  /\ serving' = requests
  /\ UNCHANGED <<ackVars, timed, requests, acknowledged, request, everTimed>>

Acknowledge ==
  /\ Goto(Server, "working", "wait")
  /\ Ack!Signal
  /\ acknowledged' = serving
  /\ UNCHANGED <<syncVars, timed, requests, serving, request, everTimed>>

-----------------------------------------------------------------------------
(* The clients.                                                            *)

Signal(c) ==
  /\ requests < MaxSignals
  /\ Goto(c, "idle", "ack")
  /\ Sync!Signal
  /\ \/ UNCHANGED <<timed, everTimed>>
     \/ AllowTimed /\ timed' = timed \cup {c} /\ everTimed' = TRUE
  /\ requests' = requests + 1
  /\ request' = [request EXCEPT ![c] = requests + 1]
  /\ UNCHANGED <<ackVars, serving, acknowledged>>

ClientWaits(c) ==
  /\ pc[c] = "ack"
  /\ \/ c \notin timed /\ Ack!WaitBlocks(c)
     \/ c \in timed /\ Ack!TimedWaitBlocks(c)
     \/ Ack!WakeBlocks(c)
     \/ Ack!Expire(c)
  /\ UNCHANGED <<syncVars, pc, timed, history, everTimed>>

\* Mutant: Signal goes on when it has woken the server.
MutClientReturns(c) ==
  /\ pc[c] = "ack"
  /\ pc' = [pc EXCEPT ![c] = IF c \in timed THEN "idle" ELSE "done"]
  /\ timed' = timed \ {c}
  /\ UNCHANGED <<syncVars, ackVars, history, everTimed>>

\* Signal returns: "done" is the untimed call, "idle" follows.
ClientReturns(c) ==
  /\ pc[c] = "ack"
  /\ pc' = [pc EXCEPT ![c] = IF c \in timed THEN "idle" ELSE "done"]
  /\ \/ Ack!WaitPasses(c) \/ Ack!WakePasses(c) \/ Ack!TimedWakePasses(c)
     \/ Ack!ExpireReturns(c)
  /\ timed' = timed \ {c}
  /\ UNCHANGED <<syncVars, history, everTimed>>

ClientGoesOn(c) ==
  /\ Goto(c, "done", "idle")
  /\ UNCHANGED <<syncVars, ackVars, timed, history, everTimed>>

Spurious(t) ==
  \/ /\ Sync!SpuriousWake(t)
     /\ UNCHANGED <<ackVars, pc, timed, history, everTimed>>
  \/ /\ Ack!SpuriousWake(t)
     /\ UNCHANGED <<syncVars, pc, timed, history, everTimed>>

ServerStep == ServerWaits \/ ServerWakes \/ Acknowledge
ClientStep(c) == ClientWaits(c) \/ ClientReturns(c) \/ ClientGoesOn(c)

Next == \/ ServerStep
        \/ \E c \in Clients : Signal(c) \/ ClientStep(c)
        \/ \E t \in Parties : Spurious(t)

Spec == Init /\ [][Next]_vars

\* The server and the clients keep running when nothing blocks them.
FairSpec == Spec /\ WF_vars(ServerStep) /\ \A c \in Clients : WF_vars(ClientStep(c))

-----------------------------------------------------------------------------
\* When Signal() returns, the operation it asked for has been acknowledged:
\* "this function will block until the target thread that was blocked by the
\* Wait() function has resumed execution and called the Acknowledge()".
SignalMeansAcknowledged ==
  \A c \in Clients : pc[c] = "done" => acknowledged >= request[c]

\* It does so as long as no Signal(waitTime) has been called, whose acknowledgement
\* may come when the caller has given up.
AcknowledgedUntilTimed == ~everTimed => SignalMeansAcknowledged

\* Signal() returns once the server acknowledges.
SignalReturns == \A c \in Clients : pc[c] = "ack" ~> pc[c] = "idle"
=============================================================================
