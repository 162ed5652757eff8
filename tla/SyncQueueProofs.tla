-------------------------- MODULE SyncQueueProofs ---------------------------
(***************************************************************************)
(* PSyncQueue for any number of consumers and controllers: the semaphore   *)
(* always covers the queue.  The invariant is inductive together with the  *)
(* types: an Enqueue adds an item and a permit, a wait turns a permit into *)
(* a Dequeue that has it, and whatever else takes permits away (Restart)   *)
(* empties the queue.                                                      *)
(***************************************************************************)
EXTENDS SyncQueue, SequenceTheorems, FiniteSetTheorems, TLAPS

Taken == {c \in Consumers : pc[c] = "taken"}

QueueType == /\ m_queue \in Seq(1..MaxItems)
             /\ m_available \in Nat
             /\ accepted \in 0..MaxItems
             /\ DOMAIN pc = Threads

\* The balance that PermitsCoverItems states.
Balance == Len(m_queue) <= m_available + Cardinality(Taken)

LEMMA TakenFinite == ASSUME NEW S \in SUBSET Consumers
                     PROVE  IsFiniteSet(S) /\ Cardinality(S) \in Nat
BY ThreadsAssumption, FS_Subset, FS_CardinalityType

\* A consumer that gets a permit joins Taken, one that pops leaves it.
LEMMA TakenGrows ==
  ASSUME DOMAIN pc = Threads, NEW c \in Consumers, Goto(c, "available", "taken")
  PROVE  Cardinality(Taken') = Cardinality(Taken) + 1
<1>1. Taken' = Taken \cup {c} /\ c \notin Taken
  BY DEF Taken, Goto, Threads
<1>2. QED
  BY <1>1, TakenFinite, FS_AddElement DEF Taken

LEMMA TakenShrinks ==
  ASSUME DOMAIN pc = Threads, NEW c \in Consumers, pc[c] = "taken",
         NEW l \in {"idle", "failed"}, pc' = [pc EXCEPT ![c] = l]
  PROVE  Cardinality(Taken') = Cardinality(Taken) - 1
<1>1. Taken' = Taken \ {c} /\ c \in Taken
  BY DEF Taken, Threads
<1>2. QED
  BY <1>1, TakenFinite, FS_RemoveElement DEF Taken

\* No other step moves a thread to or from "taken".
LEMMA TakenStays ==
  ASSUME DOMAIN pc = Threads,
         \/ pc' = pc
         \/ \E t \in Threads, l \in {"idle", "failed", "available", "timedout",
                                    "closing", "returned"} :
              pc[t] # "taken" /\ pc' = [pc EXCEPT ![t] = l]
  PROVE  Taken' = Taken
BY DEF Taken, Threads

\* The pops and the pushes.
LEMMA PopLength ==
  ASSUME NEW q \in Seq(1..MaxItems), q # <<>>
  PROVE  Tail(q) \in Seq(1..MaxItems) /\ Len(Tail(q)) = Len(q) - 1 /\ Len(q) \in Nat \ {0}
OBVIOUS

LEMMA InitBalance == Init => QueueType /\ Balance
<1> SUFFICES ASSUME Init PROVE QueueType /\ Balance
  OBVIOUS
<1>1. QueueType
  BY QueueBounds DEF Init, QueueType
<1>2. Len(m_queue) = 0 /\ m_available = 0
  BY DEF Init
<1>3. QED
  BY <1>1, <1>2, TakenFinite DEF Balance, Taken

LEMMA StepBalance == QueueType /\ Balance /\ [Next]_vars => QueueType' /\ Balance'
<1> SUFFICES ASSUME QueueType, Balance, [Next]_vars PROVE QueueType' /\ Balance'
  OBVIOUS
<1> DEFINE Ct == Cardinality(Taken)
<1>0. Ct \in Nat /\ Ct' \in Nat /\ Len(m_queue) \in Nat /\ DOMAIN pc = Threads
  BY TakenFinite DEF Taken, QueueType
<1> USE DEF QueueType, Balance
<1>1. ASSUME Enqueue PROVE QueueType' /\ Balance'
  <2>1. Taken' = Taken
    BY <1>1 DEF Enqueue, Taken
  <2>2. accepted + 1 \in 1..MaxItems
    BY <1>1, QueueBounds DEF Enqueue
  <2>3. Len(m_queue') = Len(m_queue) + 1 /\ m_queue' \in Seq(1..MaxItems)
    BY <1>1, <2>2 DEF Enqueue
  <2>4. QED
    BY <1>0, <1>1, <2>1, <2>2, <2>3, QueueBounds DEF Enqueue
<1>2. ASSUME NEW c \in Consumers, DequeueOpen(c) PROVE QueueType' /\ Balance'
  <2>1. Taken' = Taken
    BY <1>0, <1>2, TakenStays DEF DequeueOpen, Outside, Threads
  <2>2. QED
    BY <1>0, <1>2, <2>1 DEF DequeueOpen, history
<1>3. ASSUME NEW c \in Consumers, DequeueDraining(c) PROVE QueueType' /\ Balance'
  <2>1. m_available' = m_available /\ accepted' = accepted /\ DOMAIN pc' = Threads
    BY <1>0, <1>3 DEF DequeueDraining, Return
  <2>0. Taken' = Taken
    BY <1>0, <1>3, TakenStays DEF DequeueDraining, Outside, Return, Threads
  <2>2. CASE Pop
    BY <1>0, <2>0, <2>1, <2>2, PopLength DEF Pop
  <2>3. CASE PopNothing
    BY <1>0, <2>0, <2>1, <2>3 DEF PopNothing
  <2>4. QED
    BY <1>3, <2>2, <2>3 DEF DequeueDraining
<1>4. ASSUME NEW c \in Consumers, TakePermit(c) PROVE QueueType' /\ Balance'
  <2>1. Ct' = Ct + 1
    BY <1>0, <1>4, TakenGrows DEF TakePermit
  <2>2. QED
    BY <1>0, <1>4, <2>1 DEF TakePermit, Goto, history
<1>5. ASSUME NEW c \in Consumers, DequeueEnd(c) PROVE QueueType' /\ Balance'
  <2>1. m_available' = m_available /\ accepted' = accepted /\ DOMAIN pc' = Threads
    BY <1>0, <1>5 DEF DequeueEnd, Return
  <2>0. \E l \in {"idle", "failed"} : pc' = [pc EXCEPT ![c] = l]
    BY <1>5 DEF DequeueEnd, Return
  <2>2. CASE pc[c] = "taken"
    <3>1. Ct' = Ct - 1
      BY <1>0, <2>0, <2>2, TakenShrinks
    <3>2. CASE m_queue # <<>>
      <4>1. m_queue' = Tail(m_queue)
        BY <1>5, <2>2, <3>2 DEF DequeueEnd, Pop
      <4>2. QED
        BY <1>0, <2>1, <3>1, <3>2, <4>1, PopLength
    <3>3. CASE m_queue = <<>>
      <4>1. m_queue' = m_queue
        BY <1>5, <3>3 DEF DequeueEnd, PopNothing
      <4>2. Len(m_queue') = 0
        BY <4>1, <3>3
      <4>3. QED
        BY <1>0, <2>1, <4>1, <4>2
    <3>4. QED
      BY <3>2, <3>3
  <2>3. CASE pc[c] # "taken"
    <3>1. Taken' = Taken
      BY <1>0, <2>0, <2>3, TakenStays DEF Threads
    <3>2. m_queue' = m_queue
      BY <1>5, <2>3 DEF DequeueEnd, PopNothing
    <3>3. QED
      BY <1>0, <2>1, <3>1, <3>2
  <2>4. QED
    BY <2>2, <2>3
<1>6. ASSUME NEW c \in Consumers,
             DequeueWhileBlocked(c) \/ DequeueClosed(c) \/ TimeOut(c)
      PROVE  QueueType' /\ Balance'
  <2>1. UNCHANGED <<m_queue, m_available, accepted>> /\ DOMAIN pc' = Threads
    BY <1>0, <1>6
       DEF DequeueWhileBlocked, DequeueClosed, TimeOut, Return, Goto, queue, history, vars
  <2>2. Taken' = Taken
    BY <1>0, <1>6, TakenStays
       DEF DequeueWhileBlocked, DequeueClosed, TimeOut, Outside, Return, Goto, vars, Threads
  <2>3. QED
    BY <1>0, <2>1, <2>2
<1>7. ASSUME NEW k \in Controllers, NEW wait \in BOOLEAN, Close(k, wait)
      PROVE  QueueType' /\ Balance'
  <2>1. m_queue' = <<>> /\ m_available' = m_available + 1 /\ accepted' = accepted
        /\ DOMAIN pc' = Threads
    BY <1>0, <1>7 DEF Close, Command, WaitForDequeue, Goto
  <2>2. Len(m_queue') = 0 /\ m_queue' \in Seq(1..MaxItems)
    BY <2>1
  <2>3. QED
    BY <1>0, <2>1, <2>2
<1>8. ASSUME NEW k \in Controllers, NEW wait \in BOOLEAN, Drain(k, wait)
      PROVE  QueueType' /\ Balance'
  <2>1. UNCHANGED m_queue /\ m_available' = m_available + 1 /\ accepted' = accepted
        /\ DOMAIN pc' = Threads
    BY <1>0, <1>8 DEF Drain, Command, WaitForDequeue, Goto
  <2>2. Taken' = Taken
    BY <1>0, <1>8, TakenStays DEF Drain, WaitForDequeue, Goto, Threads
  <2>3. QED
    BY <1>0, <2>1, <2>2
<1>9. ASSUME NEW k \in Controllers, Restart(k) PROVE QueueType' /\ Balance'
  <2>1. m_queue' = <<>> /\ m_available' = 0 /\ accepted' = accepted /\ pc' = pc
    BY <1>9 DEF Restart, Command
  <2>2. Len(m_queue') = 0 /\ m_queue' \in Seq(1..MaxItems)
    BY <2>1
  <2>3. QED
    BY <1>0, <2>1, <2>2
<1>10. ASSUME NEW k \in Controllers, Await(k) PROVE QueueType' /\ Balance'
  <2>1. UNCHANGED <<m_queue, m_available, accepted>> /\ DOMAIN pc' = Threads
    BY <1>0, <1>10 DEF Await, WaitClosed, ClosedReached, GoOn, Goto, queue, history
  <2>2. Taken' = Taken
    BY <1>0, <1>10, TakenStays DEF Await, WaitClosed, ClosedReached, GoOn, Goto, Threads
  <2>3. QED
    BY <1>0, <2>1, <2>2
<1>11. ASSUME NEW k \in Controllers, NEW wait \in BOOLEAN, DrainAgain(k, wait)
       PROVE  QueueType' /\ Balance'
  <2>1. UNCHANGED <<m_queue, m_available, accepted>> /\ DOMAIN pc' = Threads
    BY <1>0, <1>11 DEF DrainAgain, Command, Goto, queue
  <2>2. Taken' = Taken
    BY <1>0, <1>11, TakenStays DEF DrainAgain, Goto, Threads
  <2>3. QED
    BY <1>0, <2>1, <2>2
<1>12. ASSUME UNCHANGED vars PROVE QueueType' /\ Balance'
  BY <1>0, <1>12 DEF vars, queue, history, Taken
<1>13. QED
  BY <1>1, <1>2, <1>3, <1>4, <1>5, <1>6, <1>7, <1>8, <1>9, <1>10, <1>11, <1>12 DEF Next, Consume

\* Of PSyncQueue, for any number of consumers and of controllers and any order of
\* Close, Drain, Restart and timeouts: every item in the queue has a permit in the
\* semaphore or a Dequeue that took one and is about to pop.
THEOREM QueueCovered == Spec => []PermitsCoverItems
<1>1. QueueType /\ Balance => PermitsCoverItems
  BY DEF Balance, PermitsCoverItems, Taken
<1>2. QED
  BY <1>1, InitBalance, StepBalance, PTL DEF Spec

-----------------------------------------------------------------------------
(* Nothing is lost while the queue is drained: what Dequeue has returned   *)
(* and what is queued are, together and in this order, 1 to accepted.      *)

Drains == {"Drain", "DrainWait"}

Numbered == /\ Len(got) + Len(m_queue) = accepted
            /\ \A i \in 1..Len(got) : got[i] = i
            /\ \A i \in 1..Len(m_queue) : m_queue[i] = Len(got) + i

InOrder == /\ got \in Seq(Nat)
           /\ m_state \in {"e_Open", "e_Blocked", "e_Draining", "e_Closed"}
           /\ given \subseteq Drains => Numbered /\ (m_state = "e_Closed" => m_queue = <<>>)

\* A pop moves the front of the queue to the end of what was returned.
LEMMA PopKeepsNumbers ==
  ASSUME QueueType, got \in Seq(Nat), Pop, accepted' = accepted
  PROVE  got' \in Seq(Nat) /\ (Numbered => Numbered')
<1>1. /\ Len(m_queue) \in Nat \ {0} /\ Head(m_queue) = m_queue[1] /\ Head(m_queue) \in Nat
      /\ Len(m_queue') = Len(m_queue) - 1
      /\ \A i \in 1..Len(m_queue') : m_queue'[i] = m_queue[i + 1]
  BY HeadTailProperties, EmptySeq, LenProperties, QueueBounds DEF QueueType, Pop
<1>2. /\ got' \in Seq(Nat) /\ Len(got) \in Nat /\ Len(got') = Len(got) + 1
      /\ got'[Len(got) + 1] = m_queue[1]
      /\ \A i \in 1..Len(got) : got'[i] = got[i]
  BY <1>1 DEF Pop
<1>3. ASSUME Numbered PROVE Numbered'
  <2>1. Len(got') + Len(m_queue') = accepted'
    BY <1>1, <1>2, <1>3 DEF Numbered
  <2>2. ASSUME NEW i \in 1..Len(got') PROVE got'[i] = i
    <3>1. CASE i \in 1..Len(got)
      BY <1>2, <1>3, <3>1 DEF Numbered
    <3>2. CASE i = Len(got) + 1
      <4>1. m_queue[1] = Len(got) + 1
        BY <1>1, <1>3 DEF Numbered
      <4>2. QED
        BY <1>2, <3>2, <4>1
    <3>3. i \in 1..Len(got) \/ i = Len(got) + 1
      BY <1>2
    <3>4. QED
      BY <3>1, <3>2, <3>3
  <2>3. ASSUME NEW i \in 1..Len(m_queue') PROVE m_queue'[i] = Len(got') + i
    <3>1. i + 1 \in 1..Len(m_queue) /\ m_queue'[i] = m_queue[i + 1]
      BY <1>1
    <3>2. m_queue[i + 1] = Len(got) + (i + 1)
      BY <1>3, <3>1 DEF Numbered
    <3>3. i \in Int
      BY <1>1
    <3>4. QED
      BY <1>2, <3>1, <3>2, <3>3
  <2>4. QED
    BY <2>1, <2>2, <2>3 DEF Numbered
<1>4. QED
  BY <1>2, <1>3

LEMMA StepInOrder ==
  ASSUME QueueType, QueueType', InOrder, [Next]_vars
  PROVE  InOrder'
<1> DEFINE Same == UNCHANGED <<got, m_queue, accepted>>
<1>0. Same => Numbered' = Numbered
  BY DEF Numbered
<1>1. ASSUME Enqueue PROVE InOrder'
  <2>1. /\ Len(m_queue') = Len(m_queue) + 1 /\ Len(m_queue) \in Nat /\ Len(got) \in Nat
        /\ m_queue'[Len(m_queue) + 1] = accepted + 1
        /\ \A i \in 1..Len(m_queue) : m_queue'[i] = m_queue[i]
    BY <1>1 DEF Enqueue, QueueType, InOrder
  <2>2. Numbered => Numbered'
    BY <1>1, <2>1, QueueBounds DEF Enqueue, Numbered, QueueType
  <2>3. QED
    BY <1>1, <2>2 DEF Enqueue, InOrder
<1>2. ASSUME NEW c \in Consumers, DequeueDraining(c) PROVE InOrder'
  <2>1. CASE Pop
    BY <1>2, <2>1, PopKeepsNumbers DEF DequeueDraining, InOrder, Pop
  <2>2. CASE m_queue = <<>> /\ PopNothing
    BY <1>0, <1>2, <2>2 DEF DequeueDraining, InOrder, PopNothing, Pop
  <2>3. QED
    BY <1>2, <2>1, <2>2 DEF DequeueDraining
<1>3. ASSUME NEW c \in Consumers, DequeueEnd(c) PROVE InOrder'
  <2>1. /\ accepted' = accepted /\ given' = given
        /\ m_state' \in {"e_Open", "e_Blocked", "e_Draining", "e_Closed"}
        /\ m_state' = "e_Closed" => m_queue' = <<>> \/ m_state = "e_Closed"
    BY <1>3 DEF DequeueEnd, Leave, InOrder
  <2>2. CASE Pop
    BY <2>1, <2>2, PopKeepsNumbers DEF InOrder, Pop
  <2>3. CASE PopNothing
    BY <1>0, <2>1, <2>3 DEF InOrder, PopNothing
  <2>4. QED
    BY <1>3, <2>2, <2>3 DEF DequeueEnd
<1>4. ASSUME NEW c \in Consumers,
             \/ DequeueOpen(c) \/ DequeueClosed(c) \/ TakePermit(c)
             \/ DequeueWhileBlocked(c) \/ TimeOut(c)
      PROVE  InOrder'
  <2>1. Same /\ given' = given /\ m_state' \in {m_state, "e_Blocked"}
    BY <1>4 DEF DequeueOpen, DequeueClosed, TakePermit, DequeueWhileBlocked, TimeOut,
                queue, history, vars
  <2>2. QED
    BY <1>0, <2>1 DEF InOrder
<1>5. ASSUME NEW k \in Controllers, NEW wait \in BOOLEAN, Close(k, wait) PROVE InOrder'
  <2>1. got' = got /\ m_state' = "e_Closed" /\ ~ given' \subseteq Drains
    BY <1>5 DEF Close, Command, Drains
  <2>2. QED
    BY <2>1 DEF InOrder
<1>6. ASSUME NEW k \in Controllers, NEW wait \in BOOLEAN, Drain(k, wait) PROVE InOrder'
  <2>1. /\ Same /\ given \subseteq given' /\ m_state' \in {"e_Draining", "e_Closed"}
        /\ m_state' = "e_Closed" => m_queue = <<>>
    BY <1>6 DEF Drain, Command
  <2>2. QED
    BY <1>0, <2>1 DEF InOrder
<1>7. ASSUME NEW k \in Controllers, NEW wait \in BOOLEAN, DrainAgain(k, wait) PROVE InOrder'
  <2>1. Same /\ given \subseteq given' /\ m_state' = m_state
    BY <1>7 DEF DrainAgain, Command, queue
  <2>2. QED
    BY <1>0, <2>1 DEF InOrder
<1>8. ASSUME NEW k \in Controllers, Restart(k) PROVE InOrder'
  <2>1. got' = got /\ m_state' = "e_Open" /\ ~ given' \subseteq Drains
    BY <1>8 DEF Restart, Command, Drains
  <2>2. QED
    BY <2>1 DEF InOrder
<1>9. ASSUME (\E k \in Controllers : Await(k)) \/ UNCHANGED vars PROVE InOrder'
  <2>1. Same /\ given' = given /\ m_state' = m_state
    BY <1>9 DEF Await, WaitClosed, ClosedReached, GoOn, queue, history, vars
  <2>2. QED
    BY <1>0, <2>1 DEF InOrder
<1>10. QED
  BY <1>1, <1>2, <1>3, <1>4, <1>5, <1>6, <1>7, <1>8, <1>9 DEF Next, Consume

LEMMA InOrderSuffices == QueueType /\ InOrder => DrainLosesNothing
<1> SUFFICES ASSUME QueueType, InOrder, given \subseteq Drains
             PROVE  got \o m_queue = [i \in 1..accepted |-> i]
  BY DEF DrainLosesNothing, InOrder, Drains
<1> DEFINE s == got \o m_queue  t == [i \in 1..accepted |-> i]
<1>1. m_queue \in Seq(Nat) /\ got \in Seq(Nat) /\ accepted \in Nat /\ Numbered
  BY QueueBounds, SeqMonotonic DEF QueueType, InOrder
<1>2. /\ s \in Seq(Nat) /\ Len(s) = accepted
      /\ \A i \in 1..accepted : s[i] = IF i <= Len(got) THEN got[i] ELSE m_queue[i - Len(got)]
  BY <1>1, ConcatProperties DEF Numbered
<1>3. t \in Seq(Nat) /\ Len(t) = accepted
  BY <1>1
<1>4. ASSUME NEW i \in 1..accepted PROVE s[i] = t[i]
  <2>1. Len(got) \in Nat /\ Len(m_queue) \in Nat
    BY <1>1
  <2>2. QED
    BY <1>1, <1>2, <2>1 DEF Numbered
<1>5. QED
  BY <1>2, <1>3, <1>4, SeqEqual

\* Of PSyncQueue: as long as only Drain is called, Dequeue hands every item that
\* Enqueue accepted out, in order, before the queue closes.
THEOREM DrainHandsAllOut == Spec => []DrainLosesNothing
<1>1. Init => InOrder
  BY QueueBounds DEF Init, InOrder, Numbered
<1>2. QED
  BY <1>1, InOrderSuffices, InitBalance, StepBalance, StepInOrder, PTL DEF Spec

-----------------------------------------------------------------------------
(* Close(true) and Drain(true) wait for the one Dequeue there is.          *)

States    == {"e_Open", "e_Blocked", "e_Draining", "e_Closed"}
Locations == {"idle", "available", "taken", "timedout", "failed", "closing", "returned"}
Empty     == \A c \in Consumers : ~InDequeue(c)

\* What CloseWaitsForOneDequeue supposes.
Calm == /\ given \subseteq {"CloseWait", "DrainWait"}
        /\ \A c \in Consumers : pc[c] # "failed"
        /\ \A j, k \in Controllers : commands[j] > 0 /\ commands[k] > 0 => j = k

\* One consumer at most is inside Dequeue, none as long as the queue is open; the
\* first command is the one that drains or closes it, and m_closed is only
\* signalled by the consumer that leaves the closed queue empty behind.
OneInside ==
  /\ m_state = "e_Open" => Empty
  /\ \A c, d \in Consumers : InDequeue(c) /\ InDequeue(d) => c = d
  /\ signalled => Empty /\ m_state = "e_Closed"
  /\ \A k \in Controllers : pc[k] \in {"closing", "returned"} => commands[k] > 0
  /\ \A k \in Controllers : commands[k] > 0 => /\ m_state \in {"e_Draining", "e_Closed"}
                                               /\ pc[k] # "closing" => Empty
  /\ m_state \in {"e_Draining", "e_Closed"} => \E k \in Controllers : commands[k] > 0

ClosingType == /\ m_state \in States
               /\ pc \in [Threads -> Locations]
               /\ commands \in [Controllers -> Nat]
               /\ "Restart" \notin given => \A c \in Consumers : pc[c] = "failed" => m_state = "e_Closed"

LeaveInv == ClosingType /\ (Calm => OneInside)

LEMMA StepClosingType == ClosingType /\ [Next]_vars => ClosingType'
<1> SUFFICES ASSUME ClosingType, [Next]_vars PROVE ClosingType'
  OBVIOUS
<1> USE DEF ClosingType, States, Locations, Threads
<1>1. CASE Enqueue
  BY <1>1 DEF Enqueue
<1>2. ASSUME NEW c \in Consumers, Consume(c) \/ DequeueWhileBlocked(c) \/ TimeOut(c)
      PROVE  ClosingType'
  <2>1. CASE DequeueOpen(c) \/ DequeueDraining(c) \/ DequeueClosed(c)
    BY <2>1 DEF DequeueOpen, DequeueDraining, DequeueClosed, Outside, Return, queue, history
  <2>2. CASE TakePermit(c) \/ DequeueWhileBlocked(c) \/ TimeOut(c)
    BY <2>2 DEF TakePermit, DequeueWhileBlocked, TimeOut, Goto, queue, history, vars
  <2>3. CASE DequeueEnd(c)
    BY <2>3 DEF DequeueEnd, Leave, Return
  <2>4. QED
    BY <1>2, <2>1, <2>2, <2>3 DEF Consume
<1>3. ASSUME NEW k \in Controllers, NEW wait \in BOOLEAN, Close(k, wait) PROVE ClosingType'
  BY <1>3 DEF Close, Command, WaitForDequeue, Goto
<1>4. ASSUME NEW k \in Controllers, NEW wait \in BOOLEAN, Drain(k, wait) PROVE ClosingType'
  BY <1>4 DEF Drain, Command, WaitForDequeue, Goto
<1>5. ASSUME NEW k \in Controllers, NEW wait \in BOOLEAN, DrainAgain(k, wait) PROVE ClosingType'
  BY <1>5 DEF DrainAgain, Command, Goto, queue
<1>6. ASSUME NEW k \in Controllers, Restart(k) PROVE ClosingType'
  BY <1>6 DEF Restart, Command
<1>7. ASSUME NEW k \in Controllers, Await(k) PROVE ClosingType'
  BY <1>7 DEF Await, WaitClosed, ClosedReached, GoOn, Goto, queue, history
<1>8. CASE UNCHANGED vars
  BY <1>8 DEF vars, queue, history
<1>9. QED
  BY <1>1, <1>2, <1>3, <1>4, <1>5, <1>6, <1>7, <1>8 DEF Next

\* What is supposed of a state was so before: a consumer that found the queue
\* closed finds it closed again, since nobody has restarted it.
LEMMA CalmBefore == ClosingType /\ ClosingType' /\ [Next]_vars /\ Calm' => Calm
<1> SUFFICES ASSUME ClosingType, ClosingType', [Next]_vars, Calm' PROVE Calm
  OBVIOUS
<1> USE DEF ClosingType, States, Locations, Threads
<1>1. given \subseteq given' /\ \A k \in Controllers : commands'[k] >= commands[k]
  <2>1. CASE Enqueue
    BY <2>1 DEF Enqueue
  <2>2. ASSUME NEW c \in Consumers, Consume(c) \/ DequeueWhileBlocked(c) \/ TimeOut(c)
        PROVE  given' = given /\ commands' = commands
    BY <2>2 DEF Consume, DequeueOpen, DequeueDraining, DequeueClosed, TakePermit, DequeueEnd,
                DequeueWhileBlocked, TimeOut, history, vars
  <2>3. ASSUME NEW k \in Controllers, NEW name, Command(k, name)
        PROVE  given \subseteq given' /\ \A j \in Controllers : commands'[j] >= commands[j]
    BY <2>3 DEF Command
  <2>4. ASSUME NEW k \in Controllers, Await(k) PROVE given' = given /\ commands' = commands
    BY <2>4 DEF Await, WaitClosed, ClosedReached, GoOn, history
  <2>5. CASE UNCHANGED vars
    BY <2>5 DEF vars, history
  <2>6. QED
    BY <2>1, <2>2, <2>3, <2>4, <2>5 DEF Next, Close, Drain, DrainAgain, Restart
<1>2. "Restart" \notin given'
  BY DEF Calm
<1>3. ASSUME NEW c \in Consumers, pc[c] = "failed" PROVE pc'[c] = "failed"
  <2>0. m_state = "e_Closed"
    BY <1>1, <1>2, <1>3
  <2>1. CASE Enqueue
    BY <1>3, <2>1 DEF Enqueue
  <2>2. ASSUME NEW d \in Consumers, Consume(d) \/ DequeueWhileBlocked(d) \/ TimeOut(d)
        PROVE  pc'[c] = "failed"
    BY <1>3, <2>0, <2>2 DEF Consume, DequeueOpen, DequeueDraining, DequeueClosed, TakePermit,
       DequeueEnd, DequeueWhileBlocked, TimeOut, Return, Goto, vars
  <2>3. ASSUME NEW k \in Controllers, NEW to \in Locations, NEW from \in Locations \ {"failed"},
               Goto(k, from, to)
        PROVE  pc'[c] = "failed"
    BY <1>3, <2>3 DEF Goto
  <2>4. ASSUME NEW k \in Controllers, NEW wait \in BOOLEAN,
               Close(k, wait) \/ Drain(k, wait) \/ DrainAgain(k, wait)
        PROVE  pc'[c] = "failed"
    BY <1>3, <2>4 DEF Close, Drain, DrainAgain, WaitForDequeue, Goto
  <2>5. ASSUME NEW k \in Controllers, Restart(k) \/ Await(k) PROVE pc'[c] = "failed"
    BY <1>3, <2>3, <2>5 DEF Restart, Await, WaitClosed, ClosedReached, GoOn
  <2>6. CASE UNCHANGED vars
    BY <1>3, <2>6 DEF vars
  <2>7. QED
    BY <2>1, <2>2, <2>4, <2>5, <2>6 DEF Next
<1>4. \A j, k \in Controllers : commands[j] > 0 /\ commands[k] > 0 => j = k
  BY <1>1 DEF Calm
<1>5. QED
  BY <1>1, <1>3, <1>4 DEF Calm

LEMMA StepOneInside ==
  ASSUME ClosingType, ClosingType', Calm, Calm', OneInside, [Next]_vars
  PROVE  OneInside'
<1> USE DEF ClosingType, States, Locations, Threads, OneInside, Empty, InDequeue
<1>1. CASE Enqueue
  BY <1>1 DEF Enqueue, m_closed
<1>2. ASSUME NEW c \in Consumers, DequeueOpen(c) PROVE OneInside'
  <2>1. /\ \A k \in Controllers : ~(commands[k] > 0)
        /\ Empty /\ ~signalled
    BY <1>2 DEF DequeueOpen
  <2>2. /\ pc' = [pc EXCEPT ![c] = "available"] /\ m_state' = "e_Blocked"
        /\ signalled' = signalled /\ commands' = commands
    BY <1>2 DEF DequeueOpen, m_closed, history
  <2>3. QED
    BY <2>1, <2>2
<1>3. ASSUME NEW c \in Consumers, DequeueDraining(c) \/ DequeueClosed(c) PROVE OneInside'
  <2>1. pc' # [pc EXCEPT ![c] = "failed"]
    BY DEF Calm
  <2>2. /\ pc' = [pc EXCEPT ![c] = "idle"] /\ Outside(c)
        /\ m_state' = m_state /\ signalled' = signalled /\ commands' = commands
    BY <1>3, <2>1 DEF DequeueDraining, DequeueClosed, Return, m_closed, history
  <2>3. QED
    BY <2>2 DEF Outside
<1>4. ASSUME NEW c \in Consumers, TakePermit(c) \/ TimeOut(c) PROVE OneInside'
  <2>1. /\ pc[c] = "available"
        /\ \E l \in {"taken", "timedout"} : pc' = [pc EXCEPT ![c] = l]
        /\ m_state' = m_state /\ signalled' = signalled /\ commands' = commands
    BY <1>4 DEF TakePermit, TimeOut, Goto, m_closed, history, queue
  <2>2. QED
    BY <2>1
<1>5. ASSUME NEW c \in Consumers, DequeueEnd(c) PROVE OneInside'
  <2>1. /\ pc[c] \in {"taken", "timedout"} /\ commands' = commands
        /\ \E l \in {"idle", "failed"} : pc' = [pc EXCEPT ![c] = l]
    BY <1>5 DEF DequeueEnd, Return
  <2>2. Empty'
    BY <2>1
  <2>3. m_state # "e_Open"
    BY <2>1
  <2>4. \/ m_state = "e_Blocked" /\ m_state' = "e_Open" /\ signalled' = signalled
        \/ m_state \in {"e_Draining", "e_Closed"} /\ m_state' = "e_Closed"
        \/ m_state = "e_Draining" /\ m_state' = "e_Draining" /\ signalled' = signalled
    BY <1>5, <2>3 DEF DequeueEnd, Leave, m_closed
  <2>5. QED
    BY <2>1, <2>2, <2>4
<1>6. ASSUME NEW k \in Controllers, NEW wait \in BOOLEAN, Close(k, wait) \/ Drain(k, wait)
      PROVE  OneInside'
  <2>1. /\ wait /\ m_state' \in {"e_Draining", "e_Closed"} /\ signalled' = signalled
        /\ m_state = "e_Closed" => m_state' = "e_Closed"
        /\ pc[k] = "idle" /\ commands'[k] > 0
        /\ pc' = [pc EXCEPT ![k] = IF m_state = "e_Blocked" THEN "closing" ELSE "returned"]
        /\ \A j \in Controllers \ {k} : commands'[j] = commands[j]
    BY <1>6 DEF Close, Drain, Command, WaitForDequeue, Goto, m_closed, Calm
  <2>2. \A j \in Controllers \ {k} : ~(commands[j] > 0)
    BY <2>1 DEF Calm
  <2>3. m_state # "e_Blocked" => Empty
    BY <2>1, <2>2
  <2>4. \A c \in Consumers : InDequeue(c)' <=> InDequeue(c)
    BY <2>1
  <2>5. QED
    BY <2>1, <2>2, <2>3, <2>4
<1>7. ASSUME NEW k \in Controllers, NEW wait \in BOOLEAN, DrainAgain(k, wait) PROVE OneInside'
  <2>0. wait /\ commands' = [commands EXCEPT ![k] = @ + 1]
    BY <1>7 DEF DrainAgain, Command, Calm
  <2>1. /\ m_state' = m_state /\ signalled' = signalled
        /\ m_state \in {"e_Draining", "e_Closed"}
        /\ pc[k] = "idle" /\ commands'[k] > 0
        /\ pc' = [pc EXCEPT ![k] = "returned"]
        /\ \A j \in Controllers \ {k} : commands'[j] = commands[j]
    BY <1>7, <2>0 DEF DrainAgain, Command, Goto, m_closed, queue
  <2>2. Empty
    BY <2>1 DEF Calm
  <2>3. QED
    BY <2>1, <2>2
<1>8. ASSUME NEW k \in Controllers, Restart(k) PROVE OneInside'
  BY <1>8 DEF Restart, Command, Calm
<1>9. ASSUME NEW k \in Controllers, Await(k) PROVE OneInside'
  <2>1. m_state' = m_state /\ commands' = commands
    BY <1>9 DEF Await, WaitClosed, ClosedReached, GoOn, queue, history
  <2>2. CASE WaitClosed(k)
    <3>1. signalled' = signalled /\ pc' = pc
      BY <2>2 DEF WaitClosed, Closed!WaitBlocks, Closed!WakeBlocks
    <3>2. QED
      BY <2>1, <3>1
  <2>3. CASE ClosedReached(k)
    <3>1. /\ signalled /\ ~signalled'
          /\ pc[k] = "closing" /\ pc' = [pc EXCEPT ![k] = "returned"]
      BY <2>3 DEF ClosedReached, Goto, Closed!WaitPasses, Closed!WakePasses, Closed!Consume
    <3>2. QED
      BY <2>1, <3>1
  <2>4. CASE GoOn(k)
    <3>1. signalled' = signalled /\ pc[k] = "returned" /\ pc' = [pc EXCEPT ![k] = "idle"]
      BY <2>4 DEF GoOn, Goto, m_closed
    <3>2. QED
      BY <2>1, <3>1
  <2>5. QED
    BY <1>9, <2>2, <2>3, <2>4 DEF Await
<1>10. ASSUME UNCHANGED vars PROVE OneInside'
  BY <1>10 DEF vars, queue, m_closed, history
<1>11. ASSUME NEW c \in Consumers, DequeueWhileBlocked(c) PROVE OneInside'
  BY <1>10, <1>11 DEF DequeueWhileBlocked
<1>12. QED
  BY <1>1, <1>2, <1>3, <1>4, <1>5, <1>6, <1>7, <1>8, <1>9, <1>10, <1>11 DEF Next, Consume

\* One element at most, said with Cardinality.
LEMMA AtMostOne ==
  ASSUME NEW S, IsFiniteSet(S), Cardinality(S) <= 1, NEW x \in S, NEW y \in S
  PROVE  x = y
<1> SUFFICES ASSUME x # y PROVE FALSE
  OBVIOUS
<1>1. IsFiniteSet(S \ {x}) /\ Cardinality(S \ {x}) = Cardinality(S) - 1
      /\ Cardinality(S) \in Nat
  BY FS_RemoveElement, FS_CardinalityType
<1> DEFINE T == S \ {x}
<1>2. IsFiniteSet(T) /\ y \in T /\ Cardinality(T) = Cardinality(S) - 1
  BY <1>1
<1>3. IsFiniteSet(T \ {y}) /\ Cardinality(T \ {y}) = Cardinality(T) - 1
  <2> HIDE DEF T
  <2> QED BY <1>2, FS_RemoveElement
<1>4. Cardinality(T \ {y}) \in Nat
  BY <1>3, FS_CardinalityType
<1>5. QED
  BY <1>1, <1>2, <1>3, <1>4

\* Of PSyncQueue, for any number of consumers: when Close(true) or Drain(true) of
\* the only controller returns no thread is inside Dequeue, unless another consumer
\* has found the queue closed before.
THEOREM CloseWaits == Spec => []CloseWaitsForOneDequeue
<1>1. Init => LeaveInv
  BY DEF Init, LeaveInv, ClosingType, OneInside, Empty, InDequeue, States, Locations, Threads,
         Closed!SPInit
<1>2. LeaveInv /\ [Next]_vars => LeaveInv'
  BY StepClosingType, CalmBefore, StepOneInside DEF LeaveInv
<1>3. LeaveInv => CloseWaitsForOneDequeue
  <2> SUFFICES ASSUME LeaveInv,
                      given \subseteq {"CloseWait", "DrainWait"},
                      \A c \in Consumers : pc[c] # "failed",
                      Cardinality({k \in Controllers : commands[k] > 0}) <= 1
               PROVE  CloseWaitsForDequeue
    BY DEF CloseWaitsForOneDequeue
  <2> DEFINE S == {k \in Controllers : commands[k] > 0}
  <2>1. IsFiniteSet(S)
    BY ThreadsAssumption, FS_Subset
  <2>2. \A j, k \in S : j = k
    BY <2>1, AtMostOne
  <2>3. Calm
    BY <2>2 DEF Calm
  <2>4. QED
    BY <2>3 DEF LeaveInv, OneInside, Empty, CloseWaitsForDequeue
<1>4. QED
  BY <1>1, <1>2, <1>3, PTL DEF Spec

-----------------------------------------------------------------------------
(* A Dequeue that got a permit fails only because of a command.            *)

\* Until a command drains or closes the queue there is no permit too many: with
\* Balance, a Dequeue that has a permit finds an item.
NoSpare == "Restart" \notin given /\ m_state \in {"e_Open", "e_Blocked"}
             => m_available + Cardinality(Taken) <= Len(m_queue)

LEMMA StepNoSpare ==
  ASSUME QueueType, QueueType', ClosingType, NoSpare, [Next]_vars
  PROVE  NoSpare'
<1> DEFINE Ct == Cardinality(Taken)
           Open(s) == s \in {"e_Open", "e_Blocked"}
<1>0. Ct \in Nat /\ Ct' \in Nat /\ Len(m_queue) \in Nat /\ DOMAIN pc = Threads /\ m_available \in Nat
  BY TakenFinite DEF Taken, QueueType
<1> USE DEF NoSpare
<1>1. ASSUME Enqueue PROVE NoSpare'
  <2>1. Taken' = Taken /\ given' = given /\ m_state' = m_state /\ m_available' = m_available + 1
    BY <1>1 DEF Enqueue, Taken
  <2>2. Len(m_queue') = Len(m_queue) + 1
    BY <1>1 DEF Enqueue, QueueType
  <2>3. QED
    BY <1>0, <2>1, <2>2
<1>2. ASSUME NEW c \in Consumers,
             DequeueOpen(c) \/ DequeueClosed(c) \/ DequeueWhileBlocked(c) \/ TimeOut(c)
      PROVE  NoSpare'
  <2>1. /\ UNCHANGED <<m_queue, m_available, given>>
        /\ Open(m_state') => Open(m_state)
    BY <1>2 DEF DequeueOpen, DequeueClosed, DequeueWhileBlocked, TimeOut, queue, history, vars
  <2>2. Taken' = Taken
    BY <1>0, <1>2, TakenStays DEF DequeueOpen, DequeueClosed, DequeueWhileBlocked, TimeOut,
       Outside, Return, Goto, vars, Threads
  <2>3. QED
    BY <2>1, <2>2
<1>3. ASSUME NEW c \in Consumers, DequeueDraining(c) PROVE NoSpare'
  BY <1>3 DEF DequeueDraining
<1>4. ASSUME NEW c \in Consumers, TakePermit(c) PROVE NoSpare'
  <2>1. Ct' = Ct + 1
    BY <1>0, <1>4, TakenGrows DEF TakePermit
  <2>2. QED
    BY <1>0, <1>4, <2>1 DEF TakePermit, history
<1>5. ASSUME NEW c \in Consumers, DequeueEnd(c) PROVE NoSpare'
  <2> SUFFICES ASSUME "Restart" \notin given', Open(m_state')
               PROVE  m_available' + Ct' <= Len(m_queue')
    OBVIOUS
  <2>1. m_available + Ct <= Len(m_queue) /\ m_available' = m_available
    BY <1>5 DEF DequeueEnd, Leave
  <2>2. \E l \in {"idle", "failed"} : pc' = [pc EXCEPT ![c] = l]
    BY <1>5 DEF DequeueEnd, Return
  <2>3. CASE pc[c] = "taken" /\ m_queue # <<>>
    <3>1. Ct' = Ct - 1
      BY <1>0, <2>2, <2>3, TakenShrinks
    <3>2. Len(m_queue') = Len(m_queue) - 1
      BY <1>5, <2>3, PopLength DEF DequeueEnd, Pop, QueueType
    <3>3. QED
      BY <1>0, <2>1, <3>1, <3>2
  <2>4. CASE pc[c] = "taken" /\ m_queue = <<>>
    <3>1. Ct' = Ct - 1 /\ m_queue' = m_queue
      BY <1>0, <1>5, <2>2, <2>4, TakenShrinks DEF DequeueEnd, PopNothing
    <3>2. QED
      BY <1>0, <2>1, <3>1
  <2>5. CASE pc[c] # "taken"
    <3>1. Taken' = Taken /\ m_queue' = m_queue
      BY <1>0, <1>5, <2>2, <2>5, TakenStays DEF DequeueEnd, PopNothing, Threads
    <3>2. QED
      BY <1>0, <2>1, <3>1
  <2>6. QED
    BY <2>3, <2>4, <2>5
<1>6. ASSUME NEW k \in Controllers, NEW wait \in BOOLEAN, Close(k, wait) \/ Drain(k, wait)
      PROVE  NoSpare'
  BY <1>6 DEF Close, Drain
<1>7. ASSUME NEW k \in Controllers, NEW wait \in BOOLEAN, DrainAgain(k, wait) PROVE NoSpare'
  <2>1. m_state' \in {"e_Draining", "e_Closed"}
    BY <1>7 DEF DrainAgain, queue
  <2>2. QED
    BY <2>1
<1>8. ASSUME NEW k \in Controllers, Restart(k) PROVE NoSpare'
  BY <1>8 DEF Restart, Command
<1>9. ASSUME NEW k \in Controllers, Await(k) PROVE NoSpare'
  <2>1. UNCHANGED <<m_queue, m_available, m_state, given>>
    BY <1>9 DEF Await, WaitClosed, ClosedReached, GoOn, queue, history
  <2>2. Taken' = Taken
    BY <1>0, <1>9, TakenStays DEF Await, WaitClosed, ClosedReached, GoOn, Goto, Threads
  <2>3. QED
    BY <2>1, <2>2
<1>10. ASSUME UNCHANGED vars PROVE NoSpare'
  BY <1>10 DEF vars, queue, history, Taken
<1>11. QED
  BY <1>1, <1>2, <1>3, <1>4, <1>5, <1>6, <1>7, <1>8, <1>9, <1>10 DEF Next, Consume

\* The state in which a Dequeue has just failed.
FailsWhenClosed == \A c \in Consumers : pc[c] = "taken" /\ pc'[c] # "taken" /\ got' = got
                                          => m_state' = "e_Closed" \/ "Restart" \in given

LEMMA StepFails ==
  ASSUME QueueType, ClosingType, NoSpare, got \in Seq(Nat), [Next]_vars
  PROVE  FailsWhenClosed
<1> SUFFICES ASSUME NEW c \in Consumers, pc[c] = "taken", pc'[c] # "taken", got' = got,
                    "Restart" \notin given
             PROVE  m_state' = "e_Closed"
  BY DEF FailsWhenClosed
<1>0. pc \in [Threads -> Locations] /\ m_state \in States
  BY DEF ClosingType
<1>1. DequeueEnd(c)
  <2>1. ~Enqueue /\ ~UNCHANGED vars
    BY DEF Enqueue, vars
  <2>2. \A k \in Controllers : ~Await(k) /\ ~Restart(k)
    BY <1>0 DEF Await, WaitClosed, ClosedReached, GoOn, Restart, Goto, Threads
  <2>3. \A k \in Controllers, wait \in BOOLEAN :
          ~Close(k, wait) /\ ~Drain(k, wait) /\ ~DrainAgain(k, wait)
    BY <1>0 DEF Close, Drain, DrainAgain, WaitForDequeue, Goto, Threads
  <2>4. \A d \in Consumers : /\ ~DequeueOpen(d) /\ ~DequeueDraining(d) /\ ~DequeueClosed(d)
                             /\ ~TakePermit(d) /\ ~DequeueWhileBlocked(d) /\ ~TimeOut(d)
    BY <1>0 DEF DequeueOpen, DequeueDraining, DequeueClosed, TakePermit, DequeueWhileBlocked,
                TimeOut, Outside, Return, Goto, vars, Threads
  <2>5. \A d \in Consumers : DequeueEnd(d) => d = c
    BY <1>0 DEF DequeueEnd, Return, Threads
  <2>6. QED
    BY <2>1, <2>2, <2>3, <2>4, <2>5 DEF Next, Consume
<1>2. m_queue = <<>> /\ m_queue' = <<>>
  <2>1. CASE m_queue # <<>>
    <3>1. got' = Append(got, Head(m_queue))
      BY <1>1, <2>1 DEF DequeueEnd, Pop
    <3>2. Len(got') = Len(got) + 1 /\ Len(got) \in Nat
      BY <3>1
    <3>3. QED
      BY <3>2
  <2>2. CASE m_queue = <<>>
    BY <1>1, <2>2 DEF DequeueEnd, PopNothing
  <2>3. QED
    BY <2>1, <2>2
<1>3. m_state \in {"e_Draining", "e_Closed"}
  <2>1. c \in Taken /\ IsFiniteSet(Taken) /\ Cardinality(Taken) \in Nat
    BY TakenFinite DEF Taken
  <2>2. Cardinality(Taken) # 0
    BY <2>1, FS_EmptySet
  <2>3. Len(m_queue) = 0 /\ m_available \in Nat
    BY <1>2 DEF QueueType
  <2>4. QED
    BY <1>0, <2>1, <2>2, <2>3 DEF NoSpare, States
<1>4. QED
  BY <1>1, <1>2, <1>3 DEF DequeueEnd, Leave

\* Of PSyncQueue: a Dequeue that has not timed out fails only on a queue that was
\* closed, or whose Restart left it a permit without an item.
THEOREM FailureIsClosed == Spec => FailureMeansClosed
<1> DEFINE Inv == QueueType /\ Balance /\ InOrder /\ ClosingType /\ NoSpare
<1>1. Init => Inv
  <2>1. Init => ClosingType /\ InOrder
    BY QueueBounds DEF Init, ClosingType, States, Locations, Threads, InOrder, Numbered
  <2>2. Init => NoSpare
    <3> SUFFICES ASSUME Init PROVE Cardinality(Taken) = 0 /\ Len(m_queue) = 0 /\ m_available = 0
      BY DEF NoSpare
    <3>1. Taken = {}
      BY DEF Init, Taken, Threads
    <3>2. QED
      BY <3>1, FS_EmptySet DEF Init
  <2>3. QED
    BY <2>1, <2>2, InitBalance
<1>2. Inv /\ [Next]_vars => Inv' /\ [FailsWhenClosed]_vars
  BY StepBalance, StepInOrder, StepClosingType, StepNoSpare, StepFails DEF InOrder
<1>3. QED
  BY <1>1, <1>2, PTL DEF Spec, FailureMeansClosed, FailsWhenClosed
=============================================================================
