------------------------------ MODULE MCProcess -----------------------------
(***************************************************************************)
(* The parts of ProcessParts and sorted lists, in one run: the variable    *)
(* part says which of them a behaviour is about; the others stay as they   *)
(* are initially.                                                          *)
(***************************************************************************)
EXTENDS ProcessParts

CONSTANTS Actors,             \* all that act; one stands for several, each in another part
          User, HouseKeeper   \* Timer; User compares lists as well

VARIABLES part, tree, list, elmt

\* Few objects in every order, and more of them appended in ascending order.
Few  == INSTANCE SortedList WITH Objects <- 1 .. 5, Ascending <- FALSE, SelfOnly <- TRUE
Many == INSTANCE SortedList WITH Objects <- 1 .. 8, Ascending <- TRUE, SelfOnly <- TRUE

listPart == <<tree, list, elmt>>
allVars  == <<part, vars, useVars, ackPart, condPart, ringPart, notifierPart,
              containerPart, listPart>>

MCInit == /\ part \in {"timer", "use", "ack", "cond", "ring", "notifiers", "containers",
                       "few", "many"}
          /\ Init /\ UseInit /\ A!Init /\ S!RSInit /\ N!NotifierInit /\ O!ContainerInit
          /\ IF part = "many" THEN Many!SortedInit ELSE Few!SortedInit
          /\ C!Init /\ (part # "cond" => value = 0)

\* A behaviour is about one part, and only variables of that one change.
OthersStay ==
  /\ UNCHANGED part
  /\ IF part = "timer" THEN TRUE ELSE UNCHANGED vars
  /\ IF part = "use" THEN TRUE ELSE UNCHANGED useVars
  /\ IF part = "ack" THEN TRUE ELSE UNCHANGED ackPart
  /\ IF part = "cond" THEN TRUE ELSE UNCHANGED condPart
  /\ IF part = "ring" THEN TRUE ELSE UNCHANGED ringPart
  /\ IF part = "notifiers" THEN TRUE ELSE UNCHANGED notifierPart
  /\ IF part = "containers" THEN TRUE ELSE UNCHANGED containerPart
  /\ IF part \in {"few", "many"} THEN TRUE ELSE UNCHANGED listPart

MCNext == \/ part = "timer" /\ Next /\ OthersStay
          \/ part = "use" /\ UseNext /\ OthersStay
          \/ part = "ack" /\ A!Next /\ OthersStay
          \/ part = "cond" /\ C!Next /\ OthersStay
          \/ part = "ring" /\ S!RSNext /\ OthersStay
          \/ part = "notifiers" /\ N!NotifierNext /\ OthersStay
          \/ part = "containers" /\ O!ContainerNext /\ OthersStay
          \/ part = "few" /\ Few!SortedNext /\ OthersStay
          \/ part = "many" /\ Many!SortedNext /\ OthersStay

\* What actor a does when it can, in whatever part it appears.
FairStep(a) ==
  /\ \/ part = "timer" /\ a \in PoolThreads /\ PoolStep(a)
     \/ part = "timer" /\ a = User /\ UserStep
     \/ part = "timer" /\ a = HouseKeeper /\ Process
     \/ part = "use" /\ a \in Threads /\ Resume(a)
     \/ part = "ack" /\ a = Server /\ A!ServerStep
     \/ part = "ack" /\ a = Client /\ A!ClientStep(a)
     \/ part = "cond" /\ a \in Threads /\ C!Step(a)
     \/ part = "notifiers" /\ a \in Notifying /\ (N!Queue(a) \/ N!TargetCalled(a))
     \/ part = "notifiers" /\ a \in AsyncTargets \cup ValidatedTargets /\ N!TargetStep(a)
     \/ part = "few" /\ a = User /\ Few!GoLeft
     \/ part = "many" /\ a = User /\ Many!GoLeft
  /\ OthersStay

\* The fairness of the specifications of the parts, an actor a condition.
MCSpec == /\ MCInit /\ [][MCNext]_allVars
          /\ \A a \in Actors : WF_allVars(FairStep(a))
          /\ SF_allVars(part = "timer" /\ StopAwait /\ OthersStay)

-----------------------------------------------------------------------------
\* The tree of a sorted list gives what the list holds, and is balanced: see SortedList.
TreeIsRight == IF part = "many" THEN Many!FoundInPlace /\ Many!Balanced
                                ELSE Few!FoundInPlace /\ Few!Balanced

\* Calls that wait come back, and loops come to an end: see
\* StopReturns of Timer, EventReachesWaiter of SyncPointUse, and the other modules.
Waiting(a) ==
  CASE part = "timer" -> InStop
    [] part = "use" -> signalled /\ Blocked # {}
    [] part = "ack" -> ackPc[Client] = "ack"
    [] part = "cond" -> C!Waiting(a)
    [] part = "notifiers" -> a \in Notifying /\ notifierPc[a] = "queueing"
    [] OTHER -> ~Few!Idle
Through(a) ==
  CASE part = "timer" -> ~InStop
    [] part = "use" -> ~signalled
    [] part = "ack" -> ackPc[Client] = "idle"
    [] part = "cond" -> C!Through(a)
    [] part = "notifiers" -> notifierPc[a] = "idle"
    [] OTHER -> Few!Idle
EveryWaitEnds == \A a \in Threads : Waiting(a) ~> Through(a)
=============================================================================
