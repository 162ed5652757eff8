------------------------------ MODULE SyncQueue -----------------------------
(***************************************************************************)
(* PSyncQueue of include/ptlib/syncthrd.h: a queue between threads made of *)
(* a mutex, a semaphore that counts the items (m_available) and a sync     *)
(* point that tells Close and Drain that a blocked Dequeue has left        *)
(* (m_closed).  The mutex is only given up inside Dequeue's wait for the   *)
(* semaphore and before the wait for m_closed, so an action is the code    *)
(* between two such points.  Items are numbered in the order of Enqueue.   *)
(***************************************************************************)
EXTENDS Naturals, Sequences, FiniteSets

CONSTANTS Consumers,        \* the threads that call Dequeue
          Controllers,      \* the threads that call the Commands
          Commands,         \* among those of AllCommands
          Timeouts,         \* whether Dequeue is called with a timeout
          MaxItems,         \* bound on the accepted items
          MaxCommands       \* bound on the commands of one controller

AllCommands == {"Close", "CloseWait", "Drain", "DrainWait", "Restart"}

ASSUME CommandsAssumption == Commands \subseteq AllCommands /\ Timeouts \in BOOLEAN
ASSUME ThreadsAssumption == IsFiniteSet(Consumers) /\ IsFiniteSet(Controllers)
ASSUME QueueBounds == MaxItems \in Nat /\ MaxCommands \in Nat

VARIABLES m_queue, m_state, m_available,
          signalled, cond,  \* the PSyncPoint m_closed
          pc,               \* the location of consumers and controllers
          accepted,         \* the number of items Enqueue has accepted
          got,              \* the items Dequeue has returned, in order
          commands,         \* the number of commands of each controller
          given             \* the commands given so far

Threads == Consumers \cup Controllers

Closed == INSTANCE SyncPoint

m_closed == <<signalled, cond>>
queue    == <<m_queue, m_state, m_available>>
history  == <<accepted, got, commands, given>>
vars     == <<queue, m_closed, pc, history>>

Goto(t, from, to) == pc[t] = from /\ pc' = [pc EXCEPT ![t] = to]

Init == /\ m_queue = <<>>
        /\ m_state = "e_Open"
        /\ m_available = 0
        /\ Closed!SPInit
        /\ pc = [t \in Threads |-> "idle"]
        /\ accepted = 0
        /\ got = <<>>
        /\ commands = [k \in Controllers |-> 0]
        /\ given = {}

-----------------------------------------------------------------------------
\* Mutant: Enqueue gives no permit when the queue is not empty.
MutEnqueue ==
  /\ accepted < MaxItems
  /\ m_state \in {"e_Open", "e_Blocked"}
  /\ m_queue' = Append(m_queue, accepted + 1)
  /\ m_available' = m_available + (IF m_queue = <<>> THEN 1 ELSE 0)
  /\ accepted' = accepted + 1
  /\ UNCHANGED <<m_state, m_closed, pc, got, commands, given>>

\* Enqueue, by any thread; in the other two states it returns false.
Enqueue ==
  /\ accepted < MaxItems
  /\ m_state \in {"e_Open", "e_Blocked"}
  /\ m_queue' = Append(m_queue, accepted + 1)
  /\ m_available' = m_available + 1
  /\ accepted' = accepted + 1
  /\ UNCHANGED <<m_state, m_closed, pc, got, commands, given>>

Pop == /\ m_queue # <<>>
       /\ got' = Append(got, Head(m_queue))
       /\ m_queue' = Tail(m_queue)

PopNothing == UNCHANGED <<got, m_queue>>

-----------------------------------------------------------------------------
(* Dequeue, from its entry to the wait for m_available.                    *)

\* A consumer that is not inside Dequeue; "failed": the queue was closed.
Outside(c) == pc[c] \in {"idle", "failed"}
Return(c, to) == pc' = [pc EXCEPT ![c] = to]

\* "Multiple threads in PSyncQueue::Dequeue()" is reported, and the call fails.
DequeueWhileBlocked(c) ==
  /\ Outside(c)
  /\ m_state = "e_Blocked"
  /\ UNCHANGED vars

DequeueOpen(c) ==
  /\ Outside(c)
  /\ pc' = [pc EXCEPT ![c] = "available"]
  /\ m_state = "e_Open"
  /\ m_state' = "e_Blocked"
  /\ UNCHANGED <<m_queue, m_available, m_closed, history>>

\* Draining goes on without the semaphore; the call after the last item closes.
DequeueDraining(c) ==
  /\ Outside(c)
  /\ m_state = "e_Draining"
  /\ \/ Pop /\ Return(c, "idle") /\ UNCHANGED <<m_state, m_closed>>
     \/ /\ m_queue = <<>> /\ PopNothing
        /\ m_state' = "e_Closed" /\ Closed!Signal
        /\ Return(c, "failed")
  /\ UNCHANGED <<m_available, accepted, commands, given>>

DequeueClosed(c) ==
  /\ Outside(c)
  /\ m_state = "e_Closed"
  /\ Closed!Signal
  /\ Return(c, "failed")
  /\ UNCHANGED <<queue, history>>

TakePermit(c) ==
  /\ Goto(c, "available", "taken")
  /\ m_available > 0
  /\ m_available' = m_available - 1
  /\ UNCHANGED <<m_queue, m_state, m_closed, history>>

TimeOut(c) ==
  /\ Timeouts
  /\ Goto(c, "available", "timedout")
  /\ UNCHANGED <<queue, m_closed, history>>

(* The rest of Dequeue, with the mutex held again.                         *)
Leave ==
  IF m_state = "e_Blocked" THEN m_state' = "e_Open" /\ UNCHANGED m_closed
  ELSE /\ m_state' = IF m_state = "e_Draining" /\ m_queue' = <<>>
                     THEN "e_Closed" ELSE m_state
       /\ IF m_state' = "e_Closed" THEN Closed!Signal ELSE UNCHANGED m_closed

\* Mutant: the item is taken from the front and not handed to the caller.
MutDequeueEnd(c) ==
  /\ pc[c] \in {"taken", "timedout"}
  /\ Return(c, "idle")
  /\ m_queue' = IF m_queue = <<>> THEN <<>> ELSE Tail(m_queue)
  /\ Leave
  /\ UNCHANGED <<m_available, accepted, commands, given, got>>

DequeueEnd(c) ==
  /\ pc[c] \in {"taken", "timedout"}
  /\ IF pc[c] = "taken" /\ m_queue # <<>> THEN Pop ELSE PopNothing
  /\ Leave
  /\ Return(c, IF got' = got /\ m_state' = "e_Closed" THEN "failed" ELSE "idle")
  /\ UNCHANGED <<m_available, accepted, commands, given>>

-----------------------------------------------------------------------------
(* The commands.                                                           *)

Command(k, name) == /\ name \in Commands
                    /\ commands[k] < MaxCommands
                    /\ commands' = [commands EXCEPT ![k] = @ + 1]
                    /\ given' = given \cup {name}
                    /\ UNCHANGED <<m_closed, accepted, got>>

\* A command that waits does so only for a Dequeue that it found blocked.
WaitForDequeue(k, wait) ==
  Goto(k, "idle", IF wait /\ m_state = "e_Blocked" THEN "closing"
                  ELSE IF wait THEN "returned" ELSE "idle")

\* Mutant: Close lets go before the permit that breaks the blocked Dequeue.
MutClose(k, wait) ==
  /\ Command(k, IF wait THEN "CloseWait" ELSE "Close")
  /\ WaitForDequeue(k, wait)
  /\ m_state' = "e_Closed"
  /\ m_queue' = <<>>
  /\ UNCHANGED m_available

Close(k, wait) ==
  /\ Command(k, IF wait THEN "CloseWait" ELSE "Close")
  /\ WaitForDequeue(k, wait)
  /\ m_state' = "e_Closed"
  /\ m_queue' = <<>>
  /\ m_available' = m_available + 1

\* Mutant: Drain closes at once.
MutDrain(k, wait) ==
  /\ Command(k, IF wait THEN "DrainWait" ELSE "Drain")
  /\ m_state \in {"e_Open", "e_Blocked"}
  /\ WaitForDequeue(k, wait)
  /\ m_state' = "e_Closed"
  /\ m_available' = m_available + 1
  /\ UNCHANGED m_queue

Drain(k, wait) ==
  /\ Command(k, IF wait THEN "DrainWait" ELSE "Drain")
  /\ m_state \in {"e_Open", "e_Blocked"}
  /\ WaitForDequeue(k, wait)
  /\ m_state' = IF m_queue = <<>> THEN "e_Closed" ELSE "e_Draining"
  /\ m_available' = m_available + 1
  /\ UNCHANGED m_queue

\* Drain does nothing, and does not wait, on a queue that drains or is closed.
DrainAgain(k, wait) ==
  /\ Command(k, IF wait THEN "DrainWait" ELSE "Drain")
  /\ m_state \in {"e_Draining", "e_Closed"}
  /\ Goto(k, "idle", IF wait THEN "returned" ELSE "idle")
  /\ UNCHANGED queue

Restart(k) ==
  /\ Command(k, "Restart")
  /\ pc[k] = "idle"
  /\ m_state = "e_Closed"
  /\ m_state' = "e_Open"
  /\ m_queue' = <<>>
  /\ m_available' = 0
  /\ UNCHANGED pc

WaitClosed(k) ==
  /\ pc[k] = "closing"
  /\ Closed!WaitBlocks(k) \/ Closed!WakeBlocks(k)
  /\ UNCHANGED <<queue, pc, history>>

\* Mutant: Close does not wait.
MutClosedReached(k) ==
  /\ Goto(k, "closing", "returned")
  /\ UNCHANGED <<queue, m_closed, history>>

ClosedReached(k) ==
  /\ Goto(k, "closing", "returned")
  /\ Closed!WaitPasses(k) \/ Closed!WakePasses(k)
  /\ UNCHANGED <<queue, history>>

GoOn(k) == Goto(k, "returned", "idle") /\ UNCHANGED <<queue, m_closed, history>>

-----------------------------------------------------------------------------
Consume(c) == \/ DequeueOpen(c) \/ DequeueDraining(c) \/ DequeueClosed(c)
              \/ TakePermit(c) \/ DequeueEnd(c)
Await(k) == WaitClosed(k) \/ ClosedReached(k) \/ GoOn(k)

Next == \/ Enqueue
        \/ \E c \in Consumers : Consume(c) \/ DequeueWhileBlocked(c) \/ TimeOut(c)
        \/ \E k \in Controllers :
             \/ \E wait \in BOOLEAN : Close(k, wait) \/ Drain(k, wait) \/ DrainAgain(k, wait)
             \/ Restart(k) \/ Await(k)

Spec == Init /\ [][Next]_vars

\* Consumers loop on Dequeue until it fails on a closed queue, the semaphore lets
\* one of those that wait for it go, and a thread woken from m_closed goes on.
FairSpec == /\ Spec
            /\ \A c \in Consumers : WF_vars(pc[c] # "failed" /\ Consume(c))
            /\ \A k \in Controllers : WF_vars(Await(k))

-----------------------------------------------------------------------------
InDequeue(c) == pc[c] \in {"available", "taken", "timedout"}

TypeOK ==
  /\ m_queue \in Seq(1..MaxItems)
  /\ m_state \in {"e_Open", "e_Blocked", "e_Draining", "e_Closed"}
  /\ m_available \in Nat
  /\ Closed!SPTypeOK
  /\ pc \in [Threads -> {"idle", "available", "taken", "timedout", "failed",
                           "closing", "returned"}]
  /\ accepted \in 0..MaxItems
  /\ commands \in [Controllers -> 0..MaxCommands]

\* Every item in the queue has its permit in m_available, or a Dequeue that has
\* taken the permit and will pop: whatever Close, Drain, Restart and timeouts do
\* between, no item waits in the queue while a Dequeue sleeps next to it.
PermitsCoverItems ==
  Len(m_queue) <= m_available + Cardinality({c \in Consumers : pc[c] = "taken"})

\* As long as the queue is drained and never closed, every accepted item is
\* handed out, in order, before the queue closes.
DrainLosesNothing ==
  given \subseteq {"Drain", "DrainWait"} =>
    /\ got \o m_queue = [i \in 1..accepted |-> i]
    /\ m_state = "e_Closed" => m_queue = <<>>

\* Dequeue that has not timed out fails only on a queue that has been closed; a
\* Restart may leave it the permit of an item that another Dequeue has taken.
FailureMeansClosed ==
  [][\A c \in Consumers : pc[c] = "taken" /\ pc'[c] # "taken" /\ got' = got
                            => m_state' = "e_Closed" \/ "Restart" \in given]_vars

\* When Close(true) or Drain(true) returns no thread is left inside Dequeue:
\* the queue may be destroyed.
CloseWaitsForDequeue ==
  (\E k \in Controllers : pc[k] = "returned") => \A c \in Consumers : ~InDequeue(c)

\* That holds for one controller that always waits and never restarts the queue,
\* as long as no other consumer has found the queue closed.
CloseWaitsForOneDequeue ==
  /\ given \subseteq {"CloseWait", "DrainWait"}
  /\ \A c \in Consumers : pc[c] # "failed"
  /\ Cardinality({k \in Controllers : commands[k] > 0}) <= 1
  => CloseWaitsForDequeue

\* A blocked Dequeue leaves once the queue closes or drains, and a command that
\* waits for one to leave is told so, whichever call leaves; unless a Restart takes
\* back the permit meant for it.
DequeueUnblocks ==
  /\ \A c \in Consumers : InDequeue(c) /\ m_state \in {"e_Draining", "e_Closed"}
                            ~> ~InDequeue(c) \/ "Restart" \in given
  /\ \A k \in Controllers : pc[k] = "closing" ~> pc[k] = "returned" \/ "Restart" \in given
=============================================================================
