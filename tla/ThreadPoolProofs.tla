-------------------------- MODULE ThreadPoolProofs --------------------------
(***************************************************************************)
(* The two maps of PQueuedThreadPool agree with the workers, works without *)
(* a group are not lost, those of a group run in order, Shutdown leaves no *)
(* worker behind and the pool keeps within its limits, for any number of   *)
(* works, workers, groups and threads that command the pool, and whatever  *)
(* it was constructed with.                                                *)
(*                                                                         *)
(* RemoveWork of one worker must not take away a work that another worker, *)
(* or its own queue, still holds: so no work may be held twice.  A work is *)
(* held by the worker the map names, and a worker holds it once; and a     *)
(* work that is only now being added is known to neither map.              *)
(*                                                                         *)
(* For the order (OrderInv): a worker holds its works in the order of      *)
(* AddWork, those of one group are with one worker unless the others       *)
(* exit, and a work that nobody holds was done or dropped.                 *)
(*                                                                         *)
(* For the end (ShutdownInv): a worker that is off the list and not yet    *)
(* deleted is being stopped by somebody (Watched), and nobody stops        *)
(* himself, directly or in a circle (NoCircle). When Shutdown returns all  *)
(* workers are off the list, so if one were left there would be a chain    *)
(* without an end of workers that stop one another; there are finitely     *)
(* many.                                                                   *)
(*                                                                         *)
(* For the limits (LimitsInv): the workers of the list are not stopped, so *)
(* that where none is in use all have terminated and go; a new one comes   *)
(* only to a list below the maximum, and neither the maximum nor what a    *)
(* worker has read of it exceeds the limit.  A work goes to a worker with  *)
(* less than its units queued, unless it follows its group.                *)
(*                                                                         *)
(* For the works that have no group (KeptInv): they go to workers of the   *)
(* list only, and one that leaves the list to be stopped has an empty      *)
(* queue, so that StopWorker finds nothing there but works that have       *)
(* followed their group.                                                   *)
(***************************************************************************)
EXTENDS ThreadPool, FiniteSetTheorems, SequenceTheorems, WellFoundedInduction, TLAPS

Members(g) == {x \in Works : workerOf[x] # NoWorker /\ groupOf[x] = g}

PCs == {"none", "starting", "dequeue", "dequeued", "working", "removed", "late",
        "growing", "exited", "deleted"}

USE DEF PCs

Shape == /\ added \in 0..MaxWorks
         /\ created \in Nat
         /\ workerOf \in [Works -> Workers \cup {NoWorker}]
         /\ groupOf \in [Works -> Groups \cup {NoGroup}]
         /\ groupCount \in [Groups -> Nat]
         /\ groupWorker \in [Groups -> Workers \cup {NoWorker}]
         /\ queue \in [Workers -> Seq(Works)]
         /\ item \in [Workers -> Works \cup {NoWork}]
         /\ pc \in [Workers -> PCs]

\* No work is in either map before it is added.
Fresh == \A x \in Works : x > added => workerOf[x] = NoWorker

\* A worker holds a work once.
HeldOnce == \A w \in Workers :
  /\ item[w] \notin QueuedAt(w)
  /\ \A i, j \in DOMAIN queue[w] : queue[w][i] = queue[w][j] => i = j

Busy == \A w \in Workers : pc[w] \in {"dequeued", "working"} => item[w] \in Works

Served == \A g \in Groups : groupCount[g] > 0 => groupWorker[g] \in Workers

Owned   == \A w \in Workers : \A x \in HeldBy(w) : workerOf[x] = w
Counted == \A g \in Groups : groupCount[g] = Cardinality(Members(g))

IInv == Shape /\ Fresh /\ HeldOnce /\ Busy /\ Served /\ Owned /\ Counted

\* The state the invariant is about, apart from pc.
books == <<added, maps, queue, item>>

\* A group has finitely many works.
LEMMA MembersFinite == ASSUME NEW g PROVE IsFiniteSet(Members(g)) /\ IsFiniteSet(Members(g)')
<1>1. IsFiniteSet(Works)
  BY PoolBounds, FS_Interval DEF Works
<1>2. Members(g) \in SUBSET Works /\ Members(g)' \in SUBSET Works
  BY DEF Members
<1>3. QED
  BY <1>1, <1>2, FS_Subset

\* The invariant holds of a new pool.
LEMMA InitIInv == Init => IInv
<1> SUFFICES ASSUME Init PROVE IInv
  OBVIOUS
<1>1. Shape
  BY PoolBounds, PoolAssumption DEF Init, Shape, Works, Workers, NoWorker, NoWork
<1>2. Fresh
  BY DEF Init, Fresh
<1>3. HeldOnce /\ Busy /\ Served /\ Owned
  BY DEF Init, HeldOnce, Busy, Served, Owned, HeldBy, QueuedAt, NoWork, Works
<1>4. ASSUME NEW g \in Groups PROVE groupCount[g] = Cardinality(Members(g))
  <2>1. Members(g) = {}
    BY DEF Init, Members
  <2>2. QED
    BY <2>1, FS_EmptySet DEF Init
<1>5. QED
  BY <1>1, <1>2, <1>3, <1>4 DEF IInv, Counted

\* What a worker holds is in the map, so it was added.
LEMMA HeldWasAdded ==
  ASSUME IInv, NEW w \in Workers, NEW x \in HeldBy(w)
  PROVE  x \in Works /\ x <= added
<1>1. x \in Works
  BY DEF IInv, Shape, HeldBy, QueuedAt
<1>2. workerOf[x] = w /\ w # NoWorker
  BY DEF IInv, Owned, Workers, NoWorker
<1>3. QED
  BY <1>1, <1>2, PoolBounds DEF IInv, Fresh, Shape, Works

\* A step that moves nothing between the maps and the workers.
LEMMA BooksKept ==
  ASSUME IInv, UNCHANGED books, created' \in Nat, pc' \in [Workers -> PCs],
         \A w \in Workers : pc'[w] \in {"dequeued", "working"} => item[w] \in Works
  PROVE  IInv'
BY DEF IInv, books, maps, Shape, Fresh, HeldOnce, Busy, Served, Owned, Counted, Members, HeldBy, QueuedAt

\* Give, with the count of the group brought up to date.
LEMMA GivePreserves ==
  ASSUME IInv, NEW w \in Workers, NEW g \in Groups \cup {NoGroup}, Give(w, g),
         added < MaxWorks, created' \in Nat, pc' \in [Workers -> PCs],
         \A v \in Workers : pc'[v] \in {"dequeued", "working"} => pc'[v] = pc[v],
         groupCount' = IF g = NoGroup THEN groupCount
                       ELSE [groupCount EXCEPT ![g] = @ + 1],
         groupWorker' \in [Groups -> Workers \cup {NoWorker}],
         \A h \in Groups : groupCount'[h] > 0 => groupWorker'[h] \in Workers
  PROVE  IInv'
<1> DEFINE new == added + 1
<1>1. /\ new \in Works /\ new \in Nat /\ new # NoWork
      /\ w # NoWorker
      /\ workerOf[new] = NoWorker
  BY PoolBounds DEF IInv, Shape, Fresh, Works, Workers, NoWork, NoWorker
<1>2. \A v \in Workers : new \notin HeldBy(v)
  BY <1>1, HeldWasAdded DEF IInv, Shape
<1>3. Shape'
  <2>1. added' \in 0..MaxWorks
    BY PoolBounds DEF IInv, Shape, Give
  <2>2. workerOf' \in [Works -> Workers \cup {NoWorker}] /\ groupOf' \in [Works -> Groups \cup {NoGroup}]
    BY DEF IInv, Shape, Give
  <2>3. groupCount' \in [Groups -> Nat]
    BY DEF IInv, Shape
  <2>4. queue' \in [Workers -> Seq(Works)]
    BY <1>1 DEF IInv, Shape, Give
  <2>5. QED
    BY <2>1, <2>2, <2>3, <2>4 DEF IInv, Shape, Give
<1>4. Fresh'
  BY <1>1 DEF IInv, Fresh, Shape, Give, Works
<1>5. ASSUME NEW v \in Workers
      PROVE  \/ queue'[v] = queue[v]
             \/ v = w /\ queue'[v] = Append(queue[v], new)
  BY DEF Give, IInv, Shape
<1>6. ASSUME NEW v \in Workers
      PROVE  QueuedAt(v)' \subseteq QueuedAt(v) \cup (IF v = w THEN {new} ELSE {})
  <2>1. queue[v] \in Seq(Works)
    BY DEF IInv, Shape
  <2>2. CASE queue'[v] = queue[v]
    BY <2>2 DEF QueuedAt
  <2>3. CASE v = w /\ queue'[v] = Append(queue[v], new)
    <3>1. /\ DOMAIN queue[v] = 1..Len(queue[v]) /\ Len(queue[v]) \in Nat
          /\ DOMAIN queue'[v] = 1..(Len(queue[v]) + 1)
      BY <1>1, <2>1, <2>3
    <3>2. \A i \in 1..(Len(queue[v]) + 1) :
            queue'[v][i] = IF i = Len(queue[v]) + 1 THEN new ELSE queue[v][i]
      BY <1>1, <2>1, <2>3
    <3>3. QED
      BY <3>1, <3>2, <2>3 DEF QueuedAt
  <2>4. QED
    BY <1>5, <2>2, <2>3
<1>7. item' = item
  BY DEF Give
<1>8. HeldOnce'
  <2> SUFFICES ASSUME NEW v \in Workers
               PROVE  /\ item[v] \notin QueuedAt(v)'
                      /\ \A i, j \in DOMAIN queue'[v] : queue'[v][i] = queue'[v][j] => i = j
    BY <1>7 DEF HeldOnce
  <2>1. item[v] # new
    BY <1>1, <1>2 DEF HeldBy
  <2>2. item[v] \notin QueuedAt(v)'
    BY <1>6, <2>1 DEF IInv, HeldOnce
  <2>3. \A i \in DOMAIN queue[v] : queue[v][i] # new
    BY <1>2 DEF HeldBy, QueuedAt
  <2>4. queue[v] \in Seq(Works)
    BY DEF IInv, Shape
  <2>5. \A i, j \in DOMAIN queue[v] : queue[v][i] = queue[v][j] => i = j
    BY DEF IInv, HeldOnce
  <2>6. \A i, j \in DOMAIN queue'[v] : queue'[v][i] = queue'[v][j] => i = j
    <3>1. CASE queue'[v] = queue[v]
      BY <3>1, <2>5
    <3>2. CASE queue'[v] = Append(queue[v], new)
      <4>1. /\ DOMAIN queue[v] = 1..Len(queue[v]) /\ Len(queue[v]) \in Nat
            /\ DOMAIN queue'[v] = 1..(Len(queue[v]) + 1)
        BY <1>1, <2>4, <3>2
      <4>2. \A i \in 1..(Len(queue[v]) + 1) :
              queue'[v][i] = IF i = Len(queue[v]) + 1 THEN new ELSE queue[v][i]
        BY <1>1, <2>4, <3>2
      <4>3. ASSUME NEW i \in 1..(Len(queue[v]) + 1), NEW j \in 1..(Len(queue[v]) + 1),
                   queue'[v][i] = queue'[v][j]
            PROVE  i = j
        <5>1. CASE i \in 1..Len(queue[v]) /\ j \in 1..Len(queue[v])
          <6>1. queue'[v][i] = queue[v][i] /\ queue'[v][j] = queue[v][j]
            BY <4>1, <4>2, <5>1
          <6>2. i \in DOMAIN queue[v] /\ j \in DOMAIN queue[v]
            BY <4>1, <5>1
          <6>3. QED
            BY <4>3, <6>1, <6>2, <2>5
        <5>2. CASE i = Len(queue[v]) + 1 \/ j = Len(queue[v]) + 1
          <6>1. ASSUME NEW k \in 1..Len(queue[v]) PROVE queue'[v][k] # new
            <7>1. k \in DOMAIN queue[v] /\ k \in 1..(Len(queue[v]) + 1) /\ k # Len(queue[v]) + 1
              BY <4>1
            <7>2. QED
              BY <4>2, <2>3, <7>1
          <6>2. queue'[v][Len(queue[v]) + 1] = new
            BY <4>1, <4>2
          <6>3. QED
            BY <4>1, <4>3, <5>2, <6>1, <6>2
        <5>3. QED
          BY <4>1, <5>1, <5>2
      <4>4. QED
        BY <4>1, <4>3
    <3>3. QED
      BY <1>5, <3>1, <3>2
  <2>7. QED
    BY <2>2, <2>6
<1>9. Busy'
  BY <1>7 DEF IInv, Busy
<1>10. Owned'
  <2> SUFFICES ASSUME NEW v \in Workers, NEW x \in HeldBy(v)' PROVE workerOf'[x] = v
    BY DEF Owned
  <2>1. CASE x = new
    <3>1. v = w
      BY <1>2, <1>6, <1>7, <2>1 DEF HeldBy
    <3>2. QED
      BY <1>1, <2>1, <3>1 DEF Give, IInv, Shape
  <2>2. CASE x # new
    <3>1. x \in HeldBy(v)
      BY <1>6, <1>7, <2>2 DEF HeldBy
    <3>2. x \in Works /\ workerOf[x] = v
      BY <3>1, HeldWasAdded DEF IInv, Owned
    <3>3. QED
      BY <2>2, <3>2 DEF Give, IInv, Shape
  <2>3. QED
    BY <2>1, <2>2
<1>11. Counted'
  <2> SUFFICES ASSUME NEW h \in Groups PROVE groupCount'[h] = Cardinality(Members(h)')
    BY DEF Counted
  <2>1. h # NoGroup
    BY PoolAssumption
  <2>2. groupCount[h] = Cardinality(Members(h)) /\ groupCount[h] \in Nat
    BY DEF IInv, Counted, Shape
  <2>3. new \notin Members(h)
    BY <1>1 DEF Members
  <2>4. CASE h = g
    <3>1. Members(h)' = Members(h) \cup {new}
      BY <1>1, <2>4 DEF Members, Give, IInv, Shape
    <3>2. QED
      <4>1. Cardinality(Members(h)') = Cardinality(Members(h)) + 1
        BY <2>3, <3>1, MembersFinite, FS_AddElement
      <4>2. groupCount'[h] = groupCount[h] + 1
        BY <2>1, <2>4 DEF IInv, Shape
      <4>3. QED
        BY <2>2, <4>1, <4>2
  <2>5. CASE h # g
    <3>1. Members(h)' = Members(h)
      BY <1>1, <2>5 DEF Members, Give, IInv, Shape
    <3>2. QED
      BY <2>2, <2>5, <3>1 DEF IInv, Shape
  <2>6. QED
    BY <2>4, <2>5
<1>12. Served'
  BY DEF Served
<1>13. QED
  BY <1>3, <1>4, <1>8, <1>9, <1>10, <1>11, <1>12 DEF IInv

\* A worker that takes a work off its queue still holds it, as its item.
LEMMA DequeuePreserves ==
  ASSUME IInv, NEW w \in Workers, Dequeue(w)
  PROVE  IInv'
<1>1. pc' \in [Workers -> PCs] /\ created' = created
  BY DEF IInv, Shape, Dequeue, Goto, others
<1>2. CASE queue[w] = <<>> /\ pc' = [pc EXCEPT ![w] = "exited"] /\ UNCHANGED <<item, queue>>
  BY <1>1, <1>2, BooksKept DEF IInv, Shape, Busy, Dequeue, maps, books, others
<1>3. CASE /\ queue[w] # <<>>
           /\ pc' = [pc EXCEPT ![w] = "dequeued"]
           /\ item' = [item EXCEPT ![w] = Head(queue[w])]
           /\ queue' = [queue EXCEPT ![w] = Tail(@)]
  <2>1. queue[w] \in Seq(Works) /\ Head(queue[w]) \in Works /\ Tail(queue[w]) \in Seq(Works)
    BY <1>3 DEF IInv, Shape
  <2>2. UNCHANGED <<added, workerOf, groupOf, groupCount, groupWorker>>
    BY DEF Dequeue, maps, others
  <2>3. Shape'
    BY <1>1, <1>3, <2>1, <2>2 DEF IInv, Shape
  <2>4. Fresh'
    BY <2>2 DEF IInv, Fresh
  <2>5. Busy'
    BY <1>3, <2>1 DEF IInv, Shape, Busy
  <2>6. \A i \in DOMAIN Tail(queue[w]) : /\ i + 1 \in DOMAIN queue[w]
                                         /\ Tail(queue[w])[i] = queue[w][i + 1]
                                         /\ i \in Nat \ {0}
    BY <1>3, <2>1
  <2>7. Head(queue[w]) = queue[w][1] /\ 1 \in DOMAIN queue[w]
    BY <1>3, <2>1
  <2>8. \A i, j \in DOMAIN queue[w] : queue[w][i] = queue[w][j] => i = j
    BY DEF IInv, HeldOnce
  <2>9. HeldOnce'
    <3>1. /\ Head(queue[w]) \notin {Tail(queue[w])[i] : i \in DOMAIN Tail(queue[w])}
          /\ \A i, j \in DOMAIN Tail(queue[w]) : Tail(queue[w])[i] = Tail(queue[w])[j] => i = j
      BY <2>6, <2>7, <2>8
    <3>2. QED
      BY <1>3, <3>1 DEF IInv, Shape, HeldOnce, QueuedAt
  <2>10. \A v \in Workers : HeldBy(v)' \subseteq HeldBy(v)
    <3>1. {Tail(queue[w])[i] : i \in DOMAIN Tail(queue[w])} \subseteq QueuedAt(w)
      BY <2>6 DEF QueuedAt
    <3>2. Head(queue[w]) \in QueuedAt(w)
      BY <2>7 DEF QueuedAt
    <3>3. QED
      BY <1>3, <3>1, <3>2 DEF IInv, Shape, HeldBy, QueuedAt
  <2>11. Owned'
    BY <2>2, <2>10 DEF IInv, Owned
  <2>12. Served' /\ Counted'
    BY <2>2 DEF IInv, Served, Counted, Members
  <2>13. QED
    BY <2>3, <2>4, <2>5, <2>9, <2>11, <2>12 DEF IInv
<1>4. QED
  BY <1>2, <1>3 DEF Dequeue, Goto

\* RemoveWork takes out of the maps what its own worker held, and no other worker.
LEMMA RemoveWorkPreserves ==
  ASSUME IInv, NEW w \in Workers, RemoveWork(w)
  PROVE  IInv'
<1> DEFINE x == item[w]
           g == groupOf[x]
<1>1. /\ x \in Works /\ x # NoWork /\ x \in HeldBy(w)
      /\ workerOf[x] = w /\ w # NoWorker
      /\ g \in Groups \cup {NoGroup}
  <2>1. x \in Works
    BY DEF IInv, Busy, RemoveWork, Goto
  <2>2. x # NoWork /\ w # NoWorker
    BY <2>1, PoolBounds DEF Works, Workers, NoWork, NoWorker
  <2>3. x \in HeldBy(w)
    BY <2>2 DEF HeldBy
  <2>4. QED
    BY <2>1, <2>2, <2>3 DEF IInv, Owned, Shape
<1>2. /\ workerOf' = [workerOf EXCEPT ![x] = NoWorker]
      /\ item' = [item EXCEPT ![w] = NoWork]
      /\ pc' = [pc EXCEPT ![w] = "removed"]
      /\ groupCount' = IF g = NoGroup THEN groupCount ELSE [groupCount EXCEPT ![g] = @ - 1]
      /\ UNCHANGED <<added, created, groupOf, groupWorker, queue>>
  BY DEF RemoveWork, Goto, RemoveFromGroup, others
<1>3. ASSUME NEW h \in Groups
      PROVE  /\ groupCount'[h] = Cardinality(Members(h)')
             /\ groupCount'[h] \in Nat
  <2>1. h # NoGroup
    BY PoolAssumption
  <2>2. groupCount[h] = Cardinality(Members(h)) /\ groupCount[h] \in Nat
    BY DEF IInv, Counted, Shape
  <2>3. Members(h)' = IF h = g THEN Members(h) \ {x} ELSE Members(h)
    BY <1>1, <1>2 DEF Members, IInv, Shape
  <2>4. CASE h = g
    <3>1. x \in Members(h)
      BY <1>1, <2>4 DEF Members
    <3>2. Cardinality(Members(h)') = Cardinality(Members(h)) - 1
      BY <2>3, <2>4, <3>1, MembersFinite, FS_RemoveElement
    <3>3. Cardinality(Members(h)') \in Nat
      BY MembersFinite, FS_CardinalityType
    <3>4. groupCount'[h] = groupCount[h] - 1
      BY <1>2, <2>1, <2>4 DEF IInv, Shape
    <3>5. QED
      BY <2>2, <3>2, <3>3, <3>4
  <2>5. CASE h # g
    BY <1>2, <2>2, <2>3, <2>5 DEF IInv, Shape
  <2>6. QED
    BY <2>4, <2>5
<1>4. Shape'
  <2>1. groupCount' \in [Groups -> Nat]
    <3>1. groupCount' = [h \in Groups |-> groupCount'[h]]
      BY <1>1, <1>2 DEF IInv, Shape
    <3>2. QED
      BY <1>3, <3>1
  <2>2. QED
    BY <1>1, <1>2, <2>1 DEF IInv, Shape
<1>5. Fresh'
  BY <1>1, <1>2 DEF IInv, Shape, Fresh
<1>6. HeldOnce'
  BY <1>2, PoolBounds DEF IInv, Shape, HeldOnce, QueuedAt, Works, NoWork
<1>7. Busy'
  BY <1>2 DEF IInv, Shape, Busy
<1>8. Owned'
  <2> SUFFICES ASSUME NEW v \in Workers, NEW y \in HeldBy(v)' PROVE workerOf'[y] = v
    BY DEF Owned
  <2>1. y \in HeldBy(v)
    BY <1>2 DEF IInv, Shape, HeldBy, QueuedAt, NoWork
  <2>2. workerOf[y] = v /\ y \in Works
    BY <2>1, HeldWasAdded DEF IInv, Owned
  <2>3. y # x
    \* The queue of w does not hold the item of w, and no other worker does.
    BY <1>1, <1>2, <2>2 DEF IInv, Shape, HeldOnce, HeldBy, QueuedAt
  <2>4. QED
    BY <1>2, <2>2, <2>3 DEF IInv, Shape
<1>9. Counted'
  BY <1>3 DEF Counted
<1>10. Served'
  <2> SUFFICES ASSUME NEW h \in Groups, groupCount'[h] > 0 PROVE groupWorker[h] \in Workers
    BY <1>2 DEF Served
  <2>1. groupCount[h] \in Nat /\ groupCount'[h] <= groupCount[h]
    BY <1>1, <1>2 DEF IInv, Shape
  <2>2. groupCount'[h] \in Nat
    BY <1>3
  <2>3. QED
    BY <2>1, <2>2 DEF IInv, Served
<1>11. QED
  BY <1>4, <1>5, <1>6, <1>7, <1>8, <1>9, <1>10 DEF IInv

\* Whatever Shutdown drops from a queue stays in the maps.
LEMMA StopWorkerPreserves ==
  ASSUME IInv, NEW t \in Threads, StopWorker(t)
  PROVE  IInv'
<1>1. /\ queue' = [queue EXCEPT ![stopping[t]] = <<>>]
      /\ UNCHANGED <<added, created, workerOf, groupOf, groupCount, groupWorker, item, pc>>
  BY DEF StopWorker, pool, maps
<1>2. ASSUME NEW v \in Workers PROVE queue'[v] = queue[v] \/ queue'[v] = <<>>
  BY <1>1 DEF IInv, Shape
<1>3. \A v \in Workers : QueuedAt(v)' \subseteq QueuedAt(v)
  BY <1>2 DEF QueuedAt
<1>4. Shape'
  <2>1. queue' = [v \in Workers |-> queue'[v]]
    BY <1>1 DEF IInv, Shape
  <2>2. ASSUME NEW v \in Workers PROVE queue'[v] \in Seq(Works)
    <3>1. queue[v] \in Seq(Works) /\ <<>> \in Seq(Works)
      BY DEF IInv, Shape
    <3>2. QED
      BY <1>2, <3>1
  <2>3. queue' \in [Workers -> Seq(Works)]
    BY <2>1, <2>2
  <2>4. QED
    BY <1>1, <2>3 DEF IInv, Shape
<1>5. HeldOnce'
  BY <1>1, <1>2, <1>3 DEF IInv, HeldOnce
<1>6. Owned'
  BY <1>1, <1>3 DEF IInv, Owned, HeldBy
<1>7. Fresh' /\ Busy' /\ Served' /\ Counted'
  BY <1>1 DEF IInv, Fresh, Busy, Served, Counted, Members
<1>8. QED
  BY <1>4, <1>5, <1>6, <1>7 DEF IInv

\* AddWork without a group, or with a group that has no worker.
LEMMA AllocateAndGivePreserves ==
  ASSUME IInv, MayAdd, NEW g \in Groups \cup {NoGroup}, AllocateAndGive(g),
         groupCount' = IF g = NoGroup THEN groupCount
                       ELSE [groupCount EXCEPT ![g] = @ + 1],
         groupWorker' = IF g = NoGroup THEN groupWorker
                        ELSE [groupWorker EXCEPT ![g] = Allocated]
  PROVE  IInv'
<1>1. /\ Allocated \in Workers /\ Give(Allocated, g) /\ added < MaxWorks
      /\ created' \in Nat
  BY DEF AllocateAndGive, MayAdd, IInv, Shape
<1>2. pc' \in [Workers -> PCs]
  BY DEF AllocateAndGive, IInv, Shape
<1>3. \A v \in Workers : pc'[v] \in {"dequeued", "working"} => pc'[v] = pc[v]
  BY DEF AllocateAndGive
<1>4. groupWorker' \in [Groups -> Workers \cup {NoWorker}]
  BY <1>1 DEF IInv, Shape
<1>5. ASSUME NEW h \in Groups, groupCount'[h] > 0 PROVE groupWorker'[h] \in Workers
  BY <1>1, <1>5 DEF IInv, Shape, Served
<1>6. QED
  BY <1>1, <1>2, <1>3, <1>4, <1>5, GivePreserves

\* Every step keeps the invariant.
LEMMA StepIInv == IInv /\ [Next]_vars => IInv'
<1> SUFFICES ASSUME IInv, [Next]_vars PROVE IInv'
  OBVIOUS
<1>1. CASE AddUngrouped
  BY <1>1, AllocateAndGivePreserves DEF AddUngrouped
<1>2. ASSUME NEW g \in Groups, AddFirstOfGroup(g) \/ AddToTerminatedGroup(g) PROVE IInv'
  <2>1. /\ MayAdd /\ AllocateAndGive(g)
        /\ groupCount' = [groupCount EXCEPT ![g] = @ + 1]
        /\ groupWorker' = [groupWorker EXCEPT ![g] = Allocated]
    BY <1>2 DEF AddFirstOfGroup, AddToTerminatedGroup, IInv, Shape
  <2>2. QED
    BY <2>1, PoolAssumption, AllocateAndGivePreserves
<1>3. ASSUME NEW g \in Groups, AddToGroup(g) PROVE IInv'
  <2>1. groupWorker[g] \in Workers /\ groupCount[g] \in Nat /\ g # NoGroup
    BY <1>3, PoolAssumption DEF AddToGroup, IInv, Shape, Served
  <2>2. /\ Give(groupWorker[g], g) /\ added < MaxWorks
        /\ groupCount' = [groupCount EXCEPT ![g] = @ + 1]
        /\ UNCHANGED <<created, pc, groupWorker>>
    BY <1>3 DEF AddToGroup, MayAdd
  <2>3. \A h \in Groups : groupCount'[h] > 0 => groupWorker'[h] \in Workers
    BY <2>1, <2>2 DEF IInv, Shape, Served
  <2>4. created' \in Nat /\ pc' \in [Workers -> PCs]
        /\ groupWorker' \in [Groups -> Workers \cup {NoWorker}]
    BY <2>2 DEF IInv, Shape
  <2>5. QED
    BY <2>1, <2>2, <2>3, <2>4, GivePreserves
<1>4. ASSUME NEW w \in Workers, WorkerStep(w) PROVE IInv'
  <2>1. CASE Dequeue(w)
    BY <2>1, DequeuePreserves
  <2>2. CASE RemoveWork(w)
    BY <2>2, RemoveWorkPreserves
  <2>3. CASE OnWorkerStarted(w) \/ SetWorking(w) \/ ClearWorking(w) \/ OnMaxWaitTime(w) \/ Increase(w)
    <3>1. UNCHANGED books /\ created' \in Nat
      BY <2>3 DEF OnWorkerStarted, SetWorking, ClearWorking, OnMaxWaitTime, Increase,
                  books, maps, others, IInv, Shape
    <3>2. /\ pc' \in [Workers -> PCs]
          /\ \A v \in Workers : pc'[v] \in {"dequeued", "working"} => item[v] \in Works
      BY <2>3 DEF OnWorkerStarted, SetWorking, ClearWorking, OnMaxWaitTime, Increase,
                  Goto, IInv, Shape, Busy
    <3>3. QED
      BY <3>1, <3>2, BooksKept
  <2>4. QED
    BY <1>4, <2>1, <2>2, <2>3 DEF WorkerStep
<1>5. ASSUME NEW t \in Threads, NEW count \in Counts, SetMaxWorkers(t, count) PROVE IInv'
  BY <1>5, BooksKept DEF SetMaxWorkers, pool, maps, books, IInv, Shape, Busy
<1>6. ASSUME NEW t \in Threads, Shutdown(t) PROVE IInv'
  BY <1>6, BooksKept DEF Shutdown, pool, maps, books, IInv, Shape, Busy
<1>7. ASSUME NEW t \in Threads, CallStep(t) PROVE IInv'
  <2>1. CASE StopWorker(t)
    BY <2>1, StopWorkerPreserves
  <2>2. CASE Reclaim(t) \/ TestEmpty(t) \/ TakeFront(t)
    BY <2>2, BooksKept DEF Reclaim, TestEmpty, TakeFront, pool, maps, books, IInv, Shape, Busy
  <2>3. CASE DeleteWorker(t)
    <3>1. UNCHANGED books /\ created' \in Nat
      BY <2>3 DEF DeleteWorker, maps, books, IInv, Shape
    <3>2. /\ pc' \in [Workers -> PCs]
          /\ \A v \in Workers : pc'[v] \in {"dequeued", "working"} => item[v] \in Works
      BY <2>3 DEF DeleteWorker, IInv, Shape, Busy
    <3>3. QED
      BY <3>1, <3>2, BooksKept
  <2>4. QED
    BY <1>7, <2>1, <2>2, <2>3 DEF CallStep
<1>8. CASE UNCHANGED vars
  BY <1>8, BooksKept DEF vars, maps, worker, books, IInv, Shape, Busy
<1>9. QED
  BY <1>1, <1>2, <1>3, <1>4, <1>5, <1>6, <1>7, <1>8 DEF Next, Quiet

-----------------------------------------------------------------------------
(* What AllocateWorker does to the list of workers.                         *)

LEMMA LeastNumber == ASSUME NEW S \in SUBSET Nat, S # {} PROVE \E n \in S : \A m \in S : n <= m
<1>1. PICK n \in S : \A m \in S : ~(<<m, n>> \in OpToRel(<, Nat))
  BY NatLessThanWellFounded, WFMin
<1>2. \A m \in S : ~(m < n)
  BY <1>1 DEF OpToRel
<1>3. QED
  BY <1>2

\* The members of a finite set of positions have the ranks 1, 2, ... up to their number.
Upto(K, i) == {j \in K : j <= i}

LEMMA UptoFinite ==
  ASSUME NEW n \in Nat, NEW K \in SUBSET (1..n), NEW i
  PROVE  /\ IsFiniteSet(K) /\ Cardinality(K) \in Nat /\ Cardinality(K) <= n
         /\ IsFiniteSet(Upto(K, i)) /\ Cardinality(Upto(K, i)) \in Nat
         /\ Cardinality(Upto(K, i)) <= Cardinality(K)
<1>1. IsFiniteSet(1..n) /\ Cardinality(1..n) = n
  BY FS_Interval
<1>2. IsFiniteSet(K) /\ Cardinality(K) <= n
  BY <1>1, FS_Subset
<1>3. Upto(K, i) \in SUBSET K
  BY DEF Upto
<1>4. IsFiniteSet(Upto(K, i)) /\ Cardinality(Upto(K, i)) <= Cardinality(K)
  BY <1>2, <1>3, FS_Subset
<1>5. QED
  BY <1>2, <1>4, FS_CardinalityType

LEMMA RankExists ==
  ASSUME NEW n \in Nat, NEW K \in SUBSET (1..n), NEW k \in 1..Cardinality(K)
  PROVE  \E i \in K : Cardinality(Upto(K, i)) = k
<1> DEFINE Enough == {i \in Nat : Cardinality(Upto(K, i)) >= k}
<1>0. \A j \in K : j \in Nat /\ 1 <= j /\ j <= n
  OBVIOUS
<1>1. Cardinality(K) \in Nat /\ k \in Nat /\ 1 <= k /\ k <= Cardinality(K)
  BY UptoFinite
<1>2. n \in Enough
  <2>1. Upto(K, n) = K
    BY <1>0 DEF Upto
  <2>2. QED
    BY <1>1, <2>1
<1>3. PICK i \in Enough : \A j \in Enough : i <= j
  BY <1>2, LeastNumber
<1>4. i # 0
  <2>0. \A j \in K : ~(j <= 0)
    BY <1>0
  <2>1. Upto(K, 0) = {}
    BY <2>0 DEF Upto
  <2>2. Cardinality(Upto(K, 0)) = 0
    BY <2>1, FS_EmptySet
  <2>3. QED
    BY <1>1, <2>2
<1>5. i - 1 \in Nat /\ i - 1 \notin Enough
  BY <1>3, <1>4
<1>11. Cardinality(Upto(K, i)) \in Nat /\ Cardinality(Upto(K, i - 1)) \in Nat
  BY UptoFinite
<1>6. Cardinality(Upto(K, i - 1)) < k /\ Cardinality(Upto(K, i)) >= k
  BY <1>1, <1>5, <1>11
<1>7. i \in K
  <2>1. CASE i \notin K
    <3>0. \A j \in K : j <= i <=> j <= i - 1
      BY <1>0, <1>5, <2>1
    <3>1. Upto(K, i) = Upto(K, i - 1)
      BY <3>0 DEF Upto
    <3>2. QED
      BY <1>1, <1>6, <1>11, <3>1
  <2>2. QED
    BY <2>1
<1>8. Upto(K, i) = Upto(K, i - 1) \cup {i} /\ i \notin Upto(K, i - 1)
  <2>1. (\A j \in K : j <= i <=> j <= i - 1 \/ j = i) /\ ~(i <= i - 1)
    BY <1>0, <1>5
  <2>2. QED
    BY <1>7, <2>1 DEF Upto
<1>9. Cardinality(Upto(K, i)) = Cardinality(Upto(K, i - 1)) + 1
  BY <1>8, UptoFinite, FS_AddElement
<1>10. QED
  BY <1>1, <1>6, <1>7, <1>9, <1>11

LEMMA RankGrows ==
  ASSUME NEW n \in Nat, NEW K \in SUBSET (1..n), NEW i \in K, NEW j \in K, i < j
  PROVE  Cardinality(Upto(K, i)) < Cardinality(Upto(K, j))
<1>0. \A h \in K : h \in Nat
  OBVIOUS
<1>1. Upto(K, i) \in SUBSET (Upto(K, j) \ {j}) /\ j \in Upto(K, j)
  <2>1. (\A h \in K : h <= i => h <= j /\ h # j) /\ j <= j
    BY <1>0
  <2>2. QED
    BY <2>1 DEF Upto
<1>2. IsFiniteSet(Upto(K, j) \ {j}) /\ Cardinality(Upto(K, j) \ {j}) = Cardinality(Upto(K, j)) - 1
  BY <1>1, UptoFinite, FS_RemoveElement
<1>3. Cardinality(Upto(K, i)) <= Cardinality(Upto(K, j) \ {j})
  BY <1>1, <1>2, FS_Subset
<1>4. Cardinality(Upto(K, i)) \in Nat /\ Cardinality(Upto(K, j)) \in Nat
  BY UptoFinite
<1>5. QED
  BY <1>2, <1>3, <1>4

LEMMA RankInRange ==
  ASSUME NEW n \in Nat, NEW K \in SUBSET (1..n), NEW i \in K
  PROVE  Cardinality(Upto(K, i)) \in 1..Cardinality(K)
<1>1. i \in Upto(K, i)
  BY DEF Upto
<1>2. Cardinality(Upto(K, i)) # 0
  BY <1>1, UptoFinite, FS_EmptySet
<1>3. /\ Cardinality(Upto(K, i)) \in Nat /\ Cardinality(K) \in Nat
      /\ Cardinality(Upto(K, i)) <= Cardinality(K)
  BY UptoFinite
<1>4. QED
  BY <1>2, <1>3

\* m_workers lists workers, each once.
Staff == {m_workers[i] : i \in DOMAIN m_workers}
Listed == /\ m_workers \in Seq(Workers)
          /\ \A i, j \in DOMAIN m_workers : m_workers[i] = m_workers[j] => i = j

\* Survivors are those of the list that have not been deleted, in the same order.
LEMMA SurvivorsListed ==
  ASSUME Listed
  PROVE  /\ Survivors \in Seq(Workers) /\ Len(Survivors) <= Len(m_workers)
         /\ {Survivors[k] : k \in DOMAIN Survivors} = Staff \ Dead
         /\ \A k, l \in DOMAIN Survivors : Survivors[k] = Survivors[l] => k = l
<1> DEFINE n == Len(m_workers)
           size == Cardinality(Kept)
           At(k) == CHOOSE i \in Kept : RankOf(i) = k
<1>1. n \in Nat /\ DOMAIN m_workers = 1..n /\ \A i \in 1..n : m_workers[i] \in Workers
  BY DEF Listed
<1>2. Kept \in SUBSET (1..n)
  BY <1>1 DEF Kept
<1> HIDE DEF n
<1>3. \A i : RankOf(i) = Cardinality(Upto(Kept, i))
  BY DEF RankOf, Upto
<1>4. size \in Nat /\ size <= n
  BY <1>1, <1>2, UptoFinite
<1>5. ASSUME NEW k \in 1..size PROVE At(k) \in Kept /\ RankOf(At(k)) = k
  BY <1>1, <1>2, <1>3, RankExists
<1>6. ASSUME NEW i \in Kept PROVE RankOf(i) \in 1..size /\ At(RankOf(i)) = i
  <2>1. RankOf(i) \in 1..size
    BY <1>1, <1>2, <1>3, RankInRange
  <2>2. At(RankOf(i)) \in Kept /\ RankOf(At(RankOf(i))) = RankOf(i)
    BY <1>5, <2>1
  <2>3. ASSUME NEW j \in Kept, RankOf(j) = RankOf(i) PROVE ~(i < j) /\ ~(j < i)
    <3>1. RankOf(i) \in Nat
      BY <2>1, <1>4
    <3>2. i < j => RankOf(i) < RankOf(j)
      BY <1>1, <1>2, <1>3, RankGrows
    <3>3. j < i => RankOf(j) < RankOf(i)
      BY <1>1, <1>2, <1>3, RankGrows
    <3>4. QED
      BY <2>3, <3>1, <3>2, <3>3
  <2>4. QED
    BY <1>1, <1>2, <2>1, <2>2, <2>3
<1>7. Survivors = [k \in 1..size |-> m_workers[At(k)]]
  BY DEF Survivors
<1> HIDE DEF size, At
<1>8. \A k \in 1..size : At(k) \in 1..n /\ m_workers[At(k)] \in Workers \ Dead
  BY <1>1, <1>2, <1>5 DEF Kept
<1>9. Survivors \in Seq(Workers) /\ DOMAIN Survivors = 1..size /\ Len(Survivors) = size
  BY <1>4, <1>7, <1>8
<1>10. {Survivors[k] : k \in DOMAIN Survivors} \subseteq Staff \ Dead
  BY <1>1, <1>7, <1>8, <1>9 DEF Staff
<1>11. ASSUME NEW i \in 1..n, m_workers[i] \notin Dead
       PROVE  \E k \in DOMAIN Survivors : Survivors[k] = m_workers[i]
  <2>1. i \in Kept
    BY <1>1, <1>11 DEF Kept
  <2>2. RankOf(i) \in 1..size /\ Survivors[RankOf(i)] = m_workers[i]
    BY <1>6, <1>7, <2>1
  <2>3. QED
    BY <1>9, <2>2
<1>12. ASSUME NEW k \in 1..size, NEW l \in 1..size, Survivors[k] = Survivors[l] PROVE k = l
  <2>1. m_workers[At(k)] = m_workers[At(l)]
    BY <1>7, <1>12
  <2>2. At(k) = At(l)
    BY <1>1, <1>8, <2>1 DEF Listed
  <2>3. QED
    BY <1>5, <2>2
<1>13. Staff \ Dead \subseteq {Survivors[k] : k \in DOMAIN Survivors}
  BY <1>1, <1>11 DEF Staff
<1>14. QED
  BY <1>4, <1>9, <1>10, <1>12, <1>13 DEF n

LEMMA FirstIdleFound == ASSUME Listed, Idle # {} PROVE FirstIdle \in Idle
<1>1. Idle \in SUBSET Nat
  BY DEF Listed, Idle, Usable
<1>2. \E i \in Idle : \A j \in Idle : i <= j
  BY <1>1, LeastNumber
<1>3. QED
  BY <1>2 DEF FirstIdle

LEMMA LastLeastFound ==
  ASSUME Listed, queue \in [Workers -> Seq(Works)], Usable # {}
  PROVE  LastLeast \in Usable
<1> DEFINE Size(i) == GetWorkSize(m_workers[i])
           Sizes == {Size(i) : i \in Usable}
<1>1. Usable \subseteq 1..Len(m_workers) /\ Len(m_workers) \in Nat
  BY DEF Listed, Usable
<1>2. \A i \in Usable : Size(i) \in Nat
  <2>1. \A w \in Workers : Len(queue[w]) \in Nat
    OBVIOUS
  <2>2. \A i \in Usable : m_workers[i] \in Workers
    BY <1>1 DEF Listed
  <2>3. \A w \in Workers : GetWorkSize(w) \in Nat
    <3> SUFFICES ASSUME NEW w \in Workers PROVE GetWorkSize(w) \in Nat
      OBVIOUS
    <3>1. CASE pc[w] \in {"working", "removed"}
      BY <2>1, <3>1 DEF GetWorkSize
    <3>2. CASE pc[w] \notin {"working", "removed"}
      BY <2>1, <3>2 DEF GetWorkSize
    <3>3. QED
      BY <3>1, <3>2
  <2>4. QED
    BY <2>2, <2>3
<1>3. PICK least \in Sizes : \A size \in Sizes : least <= size
  <2>1. Sizes \in SUBSET Nat /\ Sizes # {}
    BY <1>2
  <2>2. QED
    BY <2>1, LeastNumber
<1> DEFINE Back == {Len(m_workers) - i : i \in {j \in Usable : Size(j) = least}}
<1> HIDE DEF Size
<1>4. PICK back \in Back : \A other \in Back : back <= other
  <2>1. Back # {}
    BY <1>3
  <2>2. Back \in SUBSET Nat
    BY <1>1
  <2>3. QED
    BY <2>1, <2>2, LeastNumber
<1>5. PICK i \in Usable : Size(i) = least /\ back = Len(m_workers) - i
  BY <1>4
<1>6. ASSUME NEW j \in Usable
      PROVE  Size(i) < Size(j) \/ (Size(i) = Size(j) /\ j <= i)
  <2>1. i \in Nat /\ j \in Nat /\ Size(i) \in Nat /\ Size(j) \in Nat /\ least <= Size(j)
    BY <1>1, <1>2, <1>3
  <2>2. CASE Size(j) = least
    <3>1. Len(m_workers) - j \in Back
      BY <2>2
    <3>2. Len(m_workers) - i <= Len(m_workers) - j
      BY <1>4, <1>5, <3>1
    <3>3. QED
      BY <1>1, <1>5, <2>1, <2>2, <3>2
  <2>3. QED
    BY <1>5, <2>1, <2>2
<1>7. QED
  BY <1>6 DEF LastLeast, Size

\* The worker that AllocateWorker returns is in use, or it is new.
LEMMA AllocatedFound ==
  ASSUME Listed, queue \in [Workers -> Seq(Works)]
  PROVE  \/ \E i \in Usable : Allocated = m_workers[i]
         \/ Allocated = created + 1
<1>1. Idle # {} => FirstIdle \in Usable
  BY FirstIdleFound DEF Idle
<1>2. Usable # {} => LastLeast \in Usable
  BY LastLeastFound
<1>3. QED
  BY <1>1, <1>2 DEF Allocated

\* The list after AllocateWorker, with the worker it returns.
LEMMA AllocatedListed ==
  ASSUME Listed, created \in Nat, \A w \in Staff : w <= created,
         queue \in [Workers -> Seq(Works)], NEW g, AllocateAndGive(g)
  PROVE  /\ Listed' /\ Staff' = (Staff \ Dead) \cup {Allocated}
         /\ Allocated \in Staff \/ Allocated = created + 1
         /\ Allocated \in Staff => ~Terminated(Allocated) /\ ~m_shutdown[Allocated]
         /\ Allocated \notin Dead
         /\ Len(m_workers') <= Len(m_workers) \/ Allocated = created + 1
         /\ Len(m_workers') <= Len(Survivors) + 1
<1>1. /\ Survivors \in Seq(Workers) /\ Len(Survivors) <= Len(m_workers)
      /\ {Survivors[k] : k \in DOMAIN Survivors} = Staff \ Dead
      /\ \A k, l \in DOMAIN Survivors : Survivors[k] = Survivors[l] => k = l
  BY SurvivorsListed
<1>2. Dead \subseteq Staff /\ \A w \in Dead : Terminated(w)
  BY DEF Dead, Met, Staff
<1>3. Allocated \in Workers
  BY DEF AllocateAndGive
<1>4. CASE \E i \in Usable : Allocated = m_workers[i]
  <2>1. Allocated \in Staff /\ ~Terminated(Allocated) /\ ~m_shutdown[Allocated] /\ Allocated \notin Dead
    BY <1>2, <1>4 DEF Usable, Staff
  <2>2. ~(Allocated > created)
    <3>1. Allocated \in Nat /\ Allocated <= created
      BY <1>3, <2>1 DEF Workers
    <3>2. QED
      BY <3>1
  <2>3. m_workers' = Survivors
    BY <2>2 DEF AllocateAndGive
  <2>4. Len(Survivors) \in Nat /\ Len(m_workers') <= Len(m_workers)
        /\ Len(m_workers') <= Len(Survivors) + 1
    BY <1>1, <2>3
  <2>5. Staff' = Staff \ Dead
    BY <1>1, <2>3 DEF Staff
  <2>6. Staff' = (Staff \ Dead) \cup {Allocated}
    BY <2>1, <2>5
  <2>7. Listed'
    BY <1>1, <2>3 DEF Listed
  <2>8. QED
    BY <2>1, <2>4, <2>6, <2>7
<1>5. CASE Allocated = created + 1
  <2>1. Allocated \notin Staff /\ Allocated \notin Dead
    BY <1>2, <1>5 DEF Workers
  <2>2. m_workers' = Append(Survivors, Allocated)
    <3>1. Allocated > created
      BY <1>5
    <3>2. QED
      BY <3>1 DEF AllocateAndGive
  <2>3. /\ m_workers' \in Seq(Workers) /\ Len(m_workers') = Len(Survivors) + 1
        /\ m_workers'[Len(Survivors) + 1] = Allocated
        /\ \A k \in 1..Len(Survivors) : m_workers'[k] = Survivors[k]
    BY <1>1, <1>3, <2>2, AppendProperties
  <2>4. Len(Survivors) \in Nat /\ DOMAIN Survivors = 1..Len(Survivors)
        /\ DOMAIN m_workers' = 1..Len(Survivors) + 1
    BY <1>1, <2>3
  <2>5. \A k \in 1..Len(Survivors) : Survivors[k] # Allocated
    BY <1>1, <2>1, <2>4
  <2>6. ASSUME NEW k \in 1..Len(Survivors) + 1, NEW l \in 1..Len(Survivors) + 1,
               m_workers'[k] = m_workers'[l]
        PROVE  k = l
    <3>1. \A h \in 1..Len(Survivors) + 1 : h \in 1..Len(Survivors) \/ h = Len(Survivors) + 1
      BY <2>4
    <3>2. QED
      BY <1>1, <2>3, <2>4, <2>5, <2>6, <3>1
  <2>7. Staff' = (Staff \ Dead) \cup {Allocated}
    <3>1. Staff' = {m_workers'[k] : k \in 1..Len(Survivors) + 1}
      BY <2>4 DEF Staff
    <3>2. Staff \ Dead = {Survivors[k] : k \in 1..Len(Survivors)}
      BY <1>1, <2>4
    <3>3. /\ \A k \in 1..Len(Survivors) + 1 : k \in 1..Len(Survivors) \/ k = Len(Survivors) + 1
          /\ \A k \in 1..Len(Survivors) : k \in 1..Len(Survivors) + 1
          /\ Len(Survivors) + 1 \in 1..Len(Survivors) + 1
      BY <2>4
    <3>4. Staff' \subseteq (Staff \ Dead) \cup {Allocated}
      BY <2>3, <3>1, <3>2, <3>3
    <3>5. Staff \ Dead \subseteq Staff'
      <4>1. \A k \in 1..Len(Survivors) : Survivors[k] \in Staff'
        BY <2>3, <3>1, <3>3
      <4>2. QED
        BY <3>2, <4>1
    <3>6. Allocated \in Staff'
      BY <2>3, <3>1, <3>3
    <3>7. QED
      BY <3>4, <3>5, <3>6
  <2>8. QED
    BY <1>5, <2>1, <2>3, <2>4, <2>6, <2>7 DEF Listed
<1>6. QED
  BY <1>4, <1>5, AllocatedFound

\* The list without the worker at one of its positions.
LEMMA WithoutListed ==
  ASSUME Listed, NEW i \in DOMAIN m_workers, m_workers' = Without(i)
  PROVE  /\ Listed' /\ Staff' = Staff \ {m_workers[i]}
         /\ Len(m_workers') = Len(m_workers) - 1
<1> DEFINE n == Len(m_workers)
           Old(k) == IF k < i THEN k ELSE k + 1
<1>1. /\ n \in Nat /\ DOMAIN m_workers = 1..n /\ i \in 1..n
      /\ m_workers \in Seq(Workers)
  BY DEF Listed
<1>2. /\ SubSeq(m_workers, 1, i - 1) \in Seq(Workers) /\ Len(SubSeq(m_workers, 1, i - 1)) = i - 1
      /\ \A k \in 1..(i - 1) : SubSeq(m_workers, 1, i - 1)[k] = m_workers[k]
  BY <1>1
<1>3. /\ SubSeq(m_workers, i + 1, n) \in Seq(Workers) /\ Len(SubSeq(m_workers, i + 1, n)) = n - i
      /\ \A k \in 1..(n - i) : SubSeq(m_workers, i + 1, n)[k] = m_workers[i + k]
  BY <1>1
<1>4. /\ m_workers' \in Seq(Workers) /\ Len(m_workers') = n - 1
      /\ \A k \in 1..(i - 1) : m_workers'[k] = m_workers[k]
      /\ \A k \in i..(n - 1) : m_workers'[k] = m_workers[k + 1]
  <2> DEFINE front == SubSeq(m_workers, 1, i - 1)
             back == SubSeq(m_workers, i + 1, n)
  <2>1. m_workers' = front \o back
    BY DEF Without
  <2>a. front \in Seq(Workers) /\ Len(front) = i - 1 /\ back \in Seq(Workers) /\ Len(back) = n - i
    BY <1>2, <1>3
  <2> HIDE DEF front, back
  <2>b. /\ front \o back \in Seq(Workers) /\ Len(front \o back) = Len(front) + Len(back)
        /\ \A k \in 1..(Len(front) + Len(back)) : (front \o back)[k] =
             IF k <= Len(front) THEN front[k] ELSE back[k - Len(front)]
    BY <2>a, ConcatProperties
  <2>c. /\ m_workers' \in Seq(Workers) /\ Len(m_workers') = (i - 1) + (n - i)
        /\ \A k \in 1..((i - 1) + (n - i)) :
             m_workers'[k] = IF k <= i - 1 THEN front[k] ELSE back[k - (i - 1)]
    BY <2>1, <2>a, <2>b
  <2>2. /\ m_workers' \in Seq(Workers) /\ Len(m_workers') = (i - 1) + (n - i)
        /\ \A k \in 1..((i - 1) + (n - i)) : m_workers'[k] =
             IF k <= i - 1 THEN SubSeq(m_workers, 1, i - 1)[k]
             ELSE SubSeq(m_workers, i + 1, n)[k - (i - 1)]
    BY <2>c DEF front, back
  <2>3. ASSUME NEW k \in 1..(i - 1) PROVE m_workers'[k] = m_workers[k]
    <3>1. k <= i - 1 /\ k \in 1..((i - 1) + (n - i))
      BY <1>1
    <3>2. QED
      BY <1>2, <2>2, <3>1
  <2>4. ASSUME NEW k \in i..(n - 1) PROVE m_workers'[k] = m_workers[k + 1]
    <3>1. /\ ~(k <= i - 1) /\ k \in 1..((i - 1) + (n - i)) /\ k - (i - 1) \in 1..(n - i)
          /\ i + (k - (i - 1)) = k + 1
      BY <1>1
    <3>2. QED
      BY <1>3, <2>2, <3>1
  <2>5. (i - 1) + (n - i) = n - 1
    BY <1>1
  <2>6. QED
    BY <2>2, <2>3, <2>4, <2>5
<1> HIDE DEF n
<1>5. /\ DOMAIN m_workers' = 1..(n - 1)
      /\ \A k \in 1..(n - 1) : /\ m_workers'[k] = m_workers[Old(k)]
                               /\ Old(k) \in 1..n /\ Old(k) # i
      /\ \A k, l \in 1..(n - 1) : Old(k) = Old(l) => k = l
  <2>1. DOMAIN m_workers' = 1..(n - 1)
    BY <1>1, <1>4
  <2>2. ASSUME NEW k \in 1..(n - 1)
        PROVE  /\ m_workers'[k] = m_workers[Old(k)]
               /\ Old(k) \in 1..n /\ Old(k) # i
    <3>1. CASE k < i
      <4>1. k \in 1..(i - 1)
        BY <1>1, <3>1
      <4>2. QED
        BY <1>1, <1>4, <3>1, <4>1
    <3>2. CASE ~(k < i)
      <4>1. k \in i..(n - 1)
        BY <1>1, <3>2
      <4>2. QED
        BY <1>1, <1>4, <3>2, <4>1
    <3>3. QED
      BY <3>1, <3>2
  <2>3. \A k, l \in 1..(n - 1) : Old(k) = Old(l) => k = l
    BY <1>1
  <2>4. QED
    BY <2>1, <2>2, <2>3
<1>6. ASSUME NEW j \in 1..n, j # i PROVE \E k \in 1..(n - 1) : Old(k) = j
  <2>1. CASE j < i
    BY <1>1, <2>1
  <2>2. CASE ~(j < i)
    <3>1. j - 1 \in 1..(n - 1) /\ ~(j - 1 < i) /\ (j - 1) + 1 = j
      BY <1>1, <1>6, <2>2
    <3>2. QED
      BY <3>1
  <2>3. QED
    BY <2>1, <2>2
<1> HIDE DEF Old
<1>7. Listed'
  BY <1>1, <1>4, <1>5 DEF Listed
<1>8. Staff' \subseteq Staff \ {m_workers[i]}
  BY <1>1, <1>5 DEF Listed, Staff
<1>9. Staff \ {m_workers[i]} \subseteq Staff'
  <2>1. ASSUME NEW j \in 1..n, j # i PROVE m_workers[j] \in Staff'
    <3>1. PICK k \in 1..(n - 1) : Old(k) = j
      BY <1>6, <2>1
    <3>2. k \in DOMAIN m_workers' /\ m_workers'[k] = m_workers[j]
      BY <1>5, <3>1
    <3>3. QED
      BY <3>2 DEF Staff
  <2>2. QED
    BY <1>1, <2>1 DEF Staff
<1>10. QED
  BY <1>4, <1>7, <1>8, <1>9 DEF n

\* The list without its first worker.
LEMMA TailListed ==
  ASSUME Listed, m_workers # <<>>, m_workers' = Tail(m_workers)
  PROVE  /\ Listed' /\ Staff' = Staff \ {Head(m_workers)} /\ Head(m_workers) \in Staff
         /\ Len(m_workers') = Len(m_workers) - 1
<1> DEFINE n == Len(m_workers)
<1>1. /\ n \in Nat /\ n >= 1 /\ DOMAIN m_workers = 1..n /\ Head(m_workers) = m_workers[1]
      /\ m_workers \in Seq(Workers)
  BY DEF Listed
<1>2. /\ m_workers' \in Seq(Workers) /\ Len(m_workers') = n - 1
      /\ DOMAIN m_workers' = 1..(n - 1)
      /\ \A k \in 1..(n - 1) : m_workers'[k] = m_workers[k + 1]
  BY <1>1
<1> HIDE DEF n
<1>3. /\ \A k \in 1..(n - 1) : k + 1 \in 1..n /\ k + 1 # 1
      /\ \A k, l \in 1..(n - 1) : k + 1 = l + 1 => k = l
      /\ \A j \in 1..n : j # 1 => j - 1 \in 1..(n - 1) /\ (j - 1) + 1 = j
      /\ 1 \in 1..n
  BY <1>1
<1>4. Listed'
  BY <1>1, <1>2, <1>3 DEF Listed
<1>5. Staff' \subseteq Staff \ {m_workers[1]}
  BY <1>1, <1>2, <1>3 DEF Listed, Staff
<1>6. ASSUME NEW j \in 1..n, j # 1 PROVE m_workers[j] \in Staff'
  <2>1. j - 1 \in DOMAIN m_workers' /\ m_workers'[j - 1] = m_workers[j]
    BY <1>2, <1>3, <1>6
  <2>2. QED
    BY <2>1 DEF Staff
<1>7. Staff \ {m_workers[1]} \subseteq Staff'
  BY <1>1, <1>6 DEF Staff
<1>8. Head(m_workers) \in Staff
  BY <1>1, <1>3 DEF Staff
<1>9. QED
  BY <1>1, <1>2, <1>4, <1>5, <1>7, <1>8 DEF n

-----------------------------------------------------------------------------
(* The order of the works of a group.                                       *)

\* Workers are taken on in the order of their numbers.
Hiring == /\ Listed
          /\ \A w \in Staff : w <= created
          /\ \A w \in Workers : w > created => pc[w] = "none"

LEMMA AllocateEffect ==
  ASSUME IInv, Hiring, NEW g, AllocateAndGive(g)
  PROVE  /\ Hiring' /\ Staff' = (Staff \ Dead) \cup {Allocated} /\ Allocated \notin Dead
         /\ \/ /\ Allocated \in Staff /\ created' = created
               /\ ~Terminated(Allocated) /\ ~m_shutdown[Allocated]
               /\ pc'[Allocated] = pc[Allocated]
            \/ /\ Allocated = created + 1 /\ created' = created + 1
               /\ pc[Allocated] = "none" /\ pc'[Allocated] = "starting"
         /\ \A w \in Dead : w \in Staff /\ pc[w] = "exited" /\ pc'[w] = "deleted"
         /\ \A w \in Workers \ (Dead \cup {Allocated}) : pc'[w] = pc[w]
         /\ \A w \in Workers : Gone(w) => Gone(w)'
<1>1. /\ created \in Nat /\ Allocated \in Workers /\ Allocated \in Nat
      /\ Dead \subseteq Staff /\ Staff \subseteq Workers
      /\ \A w \in Dead : pc[w] = "exited"
      /\ \A w \in Workers : w \in Nat
  <2>1. created \in Nat /\ Allocated \in Workers /\ \A w \in Workers : w \in Nat
    BY DEF AllocateAndGive, IInv, Shape, Workers
  <2>2. Dead \subseteq Staff /\ \A w \in Dead : pc[w] = "exited"
    BY DEF Dead, Met, Staff, Terminated
  <2>3. Staff \subseteq Workers
    BY DEF Staff, Hiring, Listed
  <2>4. QED
    BY <2>1, <2>2, <2>3
<1>2. /\ Listed' /\ Staff' = (Staff \ Dead) \cup {Allocated}
      /\ Allocated \in Staff \/ Allocated = created + 1
      /\ Allocated \in Staff => ~Terminated(Allocated) /\ ~m_shutdown[Allocated]
      /\ Allocated \notin Dead
  BY AllocatedListed DEF Hiring, IInv, Shape
<1>3. \A w \in Workers : pc'[w] = IF w \in Dead THEN "deleted"
                                  ELSE IF w = Allocated /\ w > created THEN "starting"
                                  ELSE pc[w]
  BY DEF AllocateAndGive
<1>4. created' = IF Allocated > created THEN created + 1 ELSE created
  BY DEF AllocateAndGive
<1>5. \A w \in Dead : w \in Staff /\ pc[w] = "exited" /\ pc'[w] = "deleted"
  BY <1>1, <1>3
<1>6. \A w \in Workers \ (Dead \cup {Allocated}) : pc'[w] = pc[w]
  BY <1>3
<1>7. CASE Allocated \in Staff
  <2>1. ~(Allocated > created)
    BY <1>1, <1>7 DEF Hiring
  <2>2. created' = created /\ pc'[Allocated] = pc[Allocated]
    BY <1>1, <1>2, <1>3, <1>4, <2>1
  <2>3. Staff' \subseteq Staff
    BY <1>2, <1>7
  <2>4. \A w \in Workers : w > created => w \notin Dead
    BY <1>1 DEF Hiring
  <2>5. Hiring'
    BY <1>2, <1>6, <1>7, <2>2, <2>3, <2>4 DEF Hiring
  <2>6. \A w \in Workers : Gone(w) => Gone(w)'
    BY <1>5, <1>6, <2>2 DEF Gone
  <2>7. QED
    BY <1>2, <1>5, <1>6, <1>7, <2>2, <2>5, <2>6
<1>8. CASE Allocated = created + 1
  <2>1. Allocated > created
    BY <1>1, <1>8
  <2>2. created' = created + 1 /\ pc'[Allocated] = "starting" /\ pc[Allocated] = "none"
    BY <1>1, <1>2, <1>3, <1>4, <2>1 DEF Hiring
  <2>3. ASSUME NEW w \in Workers, w > created' PROVE pc'[w] = "none"
    <3>1. w > created /\ w # Allocated /\ ~(w <= created)
      BY <1>1, <1>8, <2>2, <2>3
    <3>2. pc[w] = "none" /\ w \notin Staff
      BY <3>1 DEF Hiring
    <3>3. QED
      BY <1>1, <1>6, <3>1, <3>2
  <2>4. ASSUME NEW w \in Staff' PROVE w <= created'
    <3>1. w \in Staff \/ w = created + 1
      BY <1>2, <1>8
    <3>2. w \in Staff => w \in Nat /\ w <= created
      BY <1>1 DEF Hiring
    <3>3. QED
      BY <1>1, <2>2, <3>1, <3>2
  <2>5. Hiring'
    BY <1>2, <2>3, <2>4 DEF Hiring
  <2>6. \A w \in Workers : Gone(w) => Gone(w)'
    BY <1>5, <1>6, <2>2 DEF Gone
  <2>7. QED
    BY <1>2, <1>5, <1>6, <1>8, <2>2, <2>5, <2>6
<1>9. QED
  BY <1>2, <1>7, <1>8

\* The steps of one worker, as far as pc goes.
LEMMA WorkerGoes ==
  ASSUME IInv, NEW w \in Workers, WorkerStep(w)
  PROVE  /\ pc[w] \in {"starting", "dequeue", "dequeued", "working", "removed", "late", "growing"}
         /\ pc'[w] \in {"exited", "dequeue", "dequeued", "working", "removed", "late", "growing"}
         /\ \A v \in Workers \ {w} : pc'[v] = pc[v]
         /\ UNCHANGED <<m_workers, m_shutdown, created, caller>>
<1>1. pc \in [Workers -> PCs]
  BY DEF IInv, Shape
<1>2. UNCHANGED <<m_workers, m_shutdown, created, caller>>
  BY DEF WorkerStep, OnWorkerStarted, Dequeue, SetWorking, RemoveWork, ClearWorking,
         OnMaxWaitTime, Increase, others
<1>3. \E from \in {"starting", "dequeue", "dequeued", "working", "removed", "late", "growing"} :
      \E to \in {"exited", "dequeue", "dequeued", "working", "removed", "late", "growing"} :
        Goto(w, from, to)
  BY DEF WorkerStep, OnWorkerStarted, Dequeue, SetWorking, RemoveWork, ClearWorking,
         OnMaxWaitTime, Increase
<1>4. QED
  BY <1>1, <1>2, <1>3 DEF Goto

\* Numbers are given out in order, and who has left does not come back.
LEMMA HiringKept ==
  ASSUME IInv, Hiring, [Next]_vars
  PROVE  Hiring' /\ \A w \in Workers : Gone(w) => Gone(w)'
<1>0. pc \in [Workers -> PCs] /\ created \in Nat
  BY DEF IInv, Shape
<1>1. CASE \E g : AllocateAndGive(g)
  BY <1>1, AllocateEffect
<1>2. CASE UNCHANGED <<m_workers, created, pc>>
  BY <1>2 DEF Hiring, Listed, Staff, Gone
<1>3. ASSUME NEW w \in Workers, WorkerStep(w)
      PROVE  Hiring' /\ \A v \in Workers : Gone(v) => Gone(v)'
  <2>1. Listed' /\ Staff' = Staff /\ created' = created
    BY <1>3, WorkerGoes DEF Hiring, Listed, Staff
  <2>2. \A v \in Workers : pc'[v] = pc[v] \/ pc[v] \notin {"none", "exited", "deleted"}
    BY <1>3, WorkerGoes
  <2>3. QED
    BY <2>1, <2>2 DEF Hiring, Gone
<1>4. ASSUME NEW t \in Threads, Reclaim(t)
      PROVE  Hiring' /\ \A v \in Workers : Gone(v) => Gone(v)'
  <2>1. UNCHANGED <<created, pc>>
    BY <1>4 DEF Reclaim, pool
  <2>2. CASE UNCHANGED m_workers
    BY <1>2, <2>1, <2>2
  <2>3. CASE \E i \in DOMAIN m_workers : m_workers' = Without(i)
    <3>1. Listed' /\ Staff' \subseteq Staff
      BY <2>3, WithoutListed DEF Hiring
    <3>2. QED
      BY <2>1, <3>1 DEF Hiring, Gone
  <2>4. QED
    BY <1>4, <2>2, <2>3 DEF Reclaim, Reclaimable
<1>5. ASSUME NEW t \in Threads, TakeFront(t)
      PROVE  Hiring' /\ \A v \in Workers : Gone(v) => Gone(v)'
  <2>1. UNCHANGED <<created, pc>>
    BY <1>5 DEF TakeFront, pool
  <2>2. Listed' /\ Staff' \subseteq Staff
    BY <1>5, TailListed DEF TakeFront, Hiring
  <2>3. QED
    BY <2>1, <2>2 DEF Hiring, Gone
<1>6. ASSUME NEW t \in Threads, DeleteWorker(t)
      PROVE  Hiring' /\ \A v \in Workers : Gone(v) => Gone(v)'
  <2>1. Listed' /\ Staff' = Staff /\ created' = created
    BY <1>6 DEF DeleteWorker, Hiring, Listed, Staff
  <2>2. \A v \in Workers : pc'[v] = pc[v] \/ (pc[v] = "exited" /\ pc'[v] = "deleted")
    BY <1>0, <1>6 DEF DeleteWorker, Terminated
  <2>3. QED
    BY <2>1, <2>2 DEF Hiring, Gone
<1>7. QED
  <2>1. ASSUME NEW t \in Threads, \/ \E count \in Counts : SetMaxWorkers(t, count)
                                  \/ Shutdown(t) \/ TestEmpty(t) \/ StopWorker(t)
        PROVE  UNCHANGED <<m_workers, created, pc>>
    BY <2>1 DEF SetMaxWorkers, Shutdown, TestEmpty, StopWorker, pool
  <2>2. ASSUME NEW g \in Groups, AddToGroup(g) PROVE UNCHANGED <<m_workers, created, pc>>
    BY <2>2 DEF AddToGroup
  <2>3. UNCHANGED vars => UNCHANGED <<m_workers, created, pc>>
    BY DEF vars, worker
  <2>4. AddUngrouped \/ (\E g \in Groups : AddFirstOfGroup(g) \/ AddToTerminatedGroup(g))
          => \E g : AllocateAndGive(g)
    BY DEF AddUngrouped, AddFirstOfGroup, AddToTerminatedGroup
  <2>5. QED
    BY <1>1, <1>2, <1>3, <1>4, <1>5, <1>6, <2>1, <2>2, <2>3, <2>4 DEF Next, Quiet, CallStep

\* A worker that has no work in its hands holds none.
Rested == \A w \in Workers : pc[w] \notin {"dequeued", "working"} => item[w] = NoWork

\* A worker holds its works in the order in which they were added.
Ascending == \A w \in Workers :
  /\ \A i, j \in DOMAIN queue[w] : i < j => queue[w][i] < queue[w][j]
  /\ \A i \in DOMAIN queue[w] : item[w] < queue[w][i]

\* The works of a group are held by one worker, except for those of workers that exit.
Together == \A w \in Workers : ~Gone(w) =>
  \A x \in HeldBy(w) : groupOf[x] # NoGroup => groupWorker[groupOf[x]] = w

\* No work is lost but by a worker that is stopped or has exited.
Accounted == \A x \in Works : x <= added =>
  \/ x \in done
  \/ /\ workerOf[x] \in Workers
     /\ x \in HeldBy(workerOf[x]) \/ m_shutdown[workerOf[x]] \/ Gone(workerOf[x])

OrderInv == Rested /\ Ascending /\ Together /\ Accounted

LEMMA OrderFollows == IInv /\ OrderInv => OrderOfGroups
<1> SUFFICES ASSUME IInv, OrderInv, NEW w \in Workers, pc[w] = "working",
                    groupOf[item[w]] # NoGroup, NEW x \in 1..(item[w] - 1),
                    groupOf[x] = groupOf[item[w]], x \notin done
             PROVE  Dropped(x)
  BY DEF OrderOfGroups
<1>1. item[w] \in Works /\ item[w] # NoWork /\ item[w] \in HeldBy(w)
  BY PoolBounds DEF IInv, Busy, HeldBy, Works, NoWork
<1>2. item[w] <= added /\ added \in Nat /\ item[w] \in Nat
  BY <1>1, HeldWasAdded DEF IInv, Shape, Works
<1>3. x \in Works /\ x <= added /\ x < item[w]
  BY <1>1, <1>2, PoolBounds DEF Works
<1>4. /\ workerOf[x] \in Workers
      /\ x \in HeldBy(workerOf[x]) \/ m_shutdown[workerOf[x]] \/ Gone(workerOf[x])
  BY <1>3 DEF OrderInv, Accounted
<1>5. workerOf[x] # NoWorker
  BY <1>4 DEF Workers, NoWorker
<1>6. CASE x \in HeldBy(workerOf[x]) /\ ~Gone(workerOf[x])
  <2>1. groupWorker[groupOf[x]] = workerOf[x]
    BY <1>4, <1>6 DEF OrderInv, Together
  <2>2. ~Gone(w)
    BY DEF Gone
  <2>3. groupWorker[groupOf[x]] = w
    BY <1>1, <2>2 DEF OrderInv, Together
  <2>4. x \in HeldBy(w) /\ x # item[w]
    BY <1>2, <1>3, <1>6, <2>1, <2>3
  <2>5. PICK i \in DOMAIN queue[w] : queue[w][i] = x
    BY <2>4 DEF HeldBy, QueuedAt
  <2>6. item[w] < x
    BY <2>5 DEF OrderInv, Ascending
  <2>7. QED
    BY <1>2, <1>3, <2>6
<1>7. CASE ~(x \in HeldBy(workerOf[x]) /\ ~Gone(workerOf[x]))
  BY <1>4, <1>5, <1>7 DEF Dropped
<1>8. QED
  BY <1>6, <1>7

\* A step that adds no work.
LEMMA OrderStep ==
  ASSUME IInv, OrderInv, UNCHANGED <<added, groupOf, groupWorker>>,
         Rested', Ascending',
         \A w \in Workers : /\ HeldBy(w)' \subseteq HeldBy(w)
                            /\ Gone(w) => Gone(w)'
                            /\ m_shutdown[w] => m_shutdown'[w]
                            /\ \A x \in HeldBy(w) : x \in HeldBy(w)' \/ m_shutdown'[w] \/ x \in done',
         \A x \in Works : x \in done' \/ (x \notin done /\ workerOf'[x] = workerOf[x])
  PROVE  OrderInv'
<1>1. Together'
  BY DEF OrderInv, Together
<1>2. Accounted'
  <2> SUFFICES ASSUME NEW x \in Works, x <= added, x \notin done'
               PROVE  /\ workerOf'[x] \in Workers
                      /\ x \in HeldBy(workerOf[x])' \/ m_shutdown'[workerOf[x]] \/ Gone(workerOf[x])'
                      /\ workerOf'[x] = workerOf[x]
    BY DEF Accounted, HeldBy, QueuedAt, Gone
  <2>1. x \notin done /\ workerOf'[x] = workerOf[x]
    OBVIOUS
  <2>2. /\ workerOf[x] \in Workers
        /\ x \in HeldBy(workerOf[x]) \/ m_shutdown[workerOf[x]] \/ Gone(workerOf[x])
    BY <2>1 DEF OrderInv, Accounted
  <2>3. QED
    BY <2>1, <2>2
<1>3. QED
  BY <1>1, <1>2 DEF OrderInv

\* What Give does to the works that are held.
LEMMA GiveEffect ==
  ASSUME IInv, NEW w \in Workers, NEW g, Give(w, g), added < MaxWorks
  PROVE  /\ added + 1 \in Works
         /\ \A v \in Workers : \A x \in HeldBy(v) : x \in Works /\ x < added + 1
         /\ \A v \in Workers : \A i \in DOMAIN queue[v] : queue[v][i] \in HeldBy(v)
         /\ \A v \in Workers : \/ queue'[v] = queue[v] /\ HeldBy(v)' = HeldBy(v)
                               \/ /\ v = w /\ queue'[v] = Append(queue[v], added + 1)
                                  /\ HeldBy(v)' = HeldBy(v) \cup {added + 1}
         /\ added + 1 \in HeldBy(w)' \/ m_shutdown[w]
<1> DEFINE new == added + 1
<1>1. /\ new \in Works /\ added \in Nat
      /\ item' = item /\ queue \in [Workers -> Seq(Works)]
      /\ queue' = [queue EXCEPT ![w] = IF m_shutdown[w] THEN @ ELSE Append(@, new)]
  BY PoolBounds DEF IInv, Shape, Works, Give
<1>2. \A v \in Workers : \A x \in HeldBy(v) : x \in Works /\ x < new
  <2>1. \A v \in Workers : \A x \in HeldBy(v) : x \in Works /\ x <= added
    BY HeldWasAdded
  <2>2. \A x \in Works : x <= added => x < new
    BY <1>1, PoolBounds DEF Works
  <2>3. QED
    BY <2>1, <2>2
<1>3. ASSUME NEW v \in Workers, queue'[v] = Append(queue[v], new)
      PROVE  HeldBy(v)' = HeldBy(v) \cup {new}
  <2>1. queue[v] \in Seq(Works)
    BY <1>1
  <2>2. /\ DOMAIN queue[v] = 1..Len(queue[v]) /\ Len(queue[v]) \in Nat
        /\ DOMAIN queue'[v] = 1..(Len(queue[v]) + 1)
        /\ queue'[v][Len(queue[v]) + 1] = new
        /\ \A i \in 1..Len(queue[v]) : queue'[v][i] = queue[v][i]
    BY <1>1, <1>3, <2>1
  <2>3. /\ \A i \in 1..(Len(queue[v]) + 1) : i \in 1..Len(queue[v]) \/ i = Len(queue[v]) + 1
        /\ \A i \in 1..Len(queue[v]) : i \in 1..(Len(queue[v]) + 1)
        /\ Len(queue[v]) + 1 \in 1..(Len(queue[v]) + 1)
    BY <2>2
  <2>4. QueuedAt(v)' \subseteq QueuedAt(v) \cup {new}
    BY <2>2, <2>3 DEF QueuedAt
  <2>5. new \in QueuedAt(v)'
    BY <2>2, <2>3 DEF QueuedAt
  <2>6. QueuedAt(v) \subseteq QueuedAt(v)'
    BY <2>2, <2>3 DEF QueuedAt
  <2>7. QED
    BY <1>1, <2>4, <2>5, <2>6 DEF HeldBy
<1>4. ASSUME NEW v \in Workers
      PROVE  \/ queue'[v] = queue[v] /\ HeldBy(v)' = HeldBy(v)
             \/ v = w /\ queue'[v] = Append(queue[v], new) /\ HeldBy(v)' = HeldBy(v) \cup {new}
  <2>1. CASE queue'[v] = queue[v]
    BY <1>1, <2>1 DEF HeldBy, QueuedAt
  <2>2. CASE v = w /\ queue'[v] = Append(queue[v], new)
    BY <1>3, <2>2
  <2>3. QED
    BY <1>1, <2>1, <2>2
<1>5. new \in HeldBy(w)' \/ m_shutdown[w]
  <2>1. ~m_shutdown[w] => queue'[w] = Append(queue[w], new)
    BY <1>1
  <2>2. QED
    BY <1>3, <2>1
<1>6. \A v \in Workers : \A i \in DOMAIN queue[v] : queue[v][i] \in HeldBy(v)
  BY DEF HeldBy, QueuedAt
<1>7. QED
  BY <1>1, <1>2, <1>4, <1>5, <1>6

\* AddWork keeps the order if a group that gets another worker has none of its works
\* with a worker that is still there.
LEMMA GiveOrder ==
  ASSUME IInv, OrderInv, NEW w \in Workers, NEW g \in Groups \cup {NoGroup}, Give(w, g),
         added < MaxWorks,
         \A v \in Workers : Gone(v) => Gone(v)',
         \A v \in Workers : pc[v] \in {"dequeued", "working"} => pc'[v] = pc[v],
         \A h \in Groups \ {g} : groupWorker'[h] = groupWorker[h],
         g \in Groups => groupWorker'[g] = w,
         g \in Groups => \A v \in Workers \ {w} : ~Gone(v) =>
                           \A x \in HeldBy(v) : groupOf[x] # g
  PROVE  OrderInv'
<1> DEFINE new == added + 1
<1>1. /\ new \in Works
      /\ \A v \in Workers : \A x \in HeldBy(v) : x \in Works /\ x < new
      /\ \A v \in Workers : \A i \in DOMAIN queue[v] : queue[v][i] \in HeldBy(v)
      /\ \A v \in Workers : \/ queue'[v] = queue[v] /\ HeldBy(v)' = HeldBy(v)
                            \/ /\ v = w /\ queue'[v] = Append(queue[v], new)
                               /\ HeldBy(v)' = HeldBy(v) \cup {new}
      /\ new \in HeldBy(w)' \/ m_shutdown[w]
  BY GiveEffect
<1>2. /\ item' = item /\ m_shutdown' = m_shutdown /\ done' = done /\ added' = new
      /\ \A x \in Works \ {new} : workerOf'[x] = workerOf[x] /\ groupOf'[x] = groupOf[x]
      /\ workerOf'[new] = w /\ groupOf'[new] = g
  BY <1>1 DEF Give, IInv, Shape
<1>3. /\ added \in Nat /\ \A x \in Works : x \in Nat
      /\ \A v \in Workers : queue[v] \in Seq(Works) /\ item[v] \in Works \cup {NoWork}
      /\ groupOf \in [Works -> Groups \cup {NoGroup}]
  BY PoolBounds DEF IInv, Shape, Works
<1> HIDE DEF new
<1>4. Rested'
  BY <1>2 DEF OrderInv, Rested
<1>5. Ascending'
  <2> SUFFICES ASSUME NEW v \in Workers
               PROVE  /\ \A i, j \in DOMAIN queue'[v] : i < j => queue'[v][i] < queue'[v][j]
                      /\ \A i \in DOMAIN queue'[v] : item[v] < queue'[v][i]
    BY <1>2 DEF Ascending
  <2>1. /\ \A i, j \in DOMAIN queue[v] : i < j => queue[v][i] < queue[v][j]
        /\ \A i \in DOMAIN queue[v] : item[v] < queue[v][i]
    BY DEF OrderInv, Ascending
  <2>2. CASE queue'[v] = queue[v]
    BY <2>1, <2>2
  <2>3. CASE queue'[v] = Append(queue[v], new)
    <3>0. queue[v] \in Seq(Works)
      BY <1>3
    <3>1. /\ DOMAIN queue[v] = 1..Len(queue[v]) /\ Len(queue[v]) \in Nat
          /\ DOMAIN queue'[v] = 1..(Len(queue[v]) + 1)
          /\ queue'[v][Len(queue[v]) + 1] = new
          /\ \A i \in 1..Len(queue[v]) : queue'[v][i] = queue[v][i]
      BY <1>1, <2>3, <3>0
    <3>2. \A i \in 1..Len(queue[v]) : queue[v][i] < new
      BY <1>1, <3>1
    <3>3. item[v] < new
      <4>1. CASE item[v] = NoWork
        BY <1>1, <4>1, PoolBounds DEF NoWork, Works
      <4>2. CASE item[v] # NoWork
        BY <1>1, <4>2 DEF HeldBy
      <4>3. QED
        BY <4>1, <4>2
    <3>4. \A i \in 1..(Len(queue[v]) + 1) : i \in 1..Len(queue[v]) \/ i = Len(queue[v]) + 1
      BY <3>1
    <3>5. ASSUME NEW i \in 1..(Len(queue[v]) + 1), NEW j \in 1..(Len(queue[v]) + 1), i < j
          PROVE  queue'[v][i] < queue'[v][j]
      <4>1. i \in 1..Len(queue[v])
        BY <3>1, <3>5
      <4>2. CASE j = Len(queue[v]) + 1
        BY <3>1, <3>2, <4>1, <4>2
      <4>3. CASE j \in 1..Len(queue[v])
        BY <2>1, <3>1, <3>5, <4>1, <4>3
      <4>4. QED
        BY <3>4, <4>2, <4>3
    <3>6. QED
      BY <2>1, <3>1, <3>3, <3>4, <3>5
  <2>4. QED
    BY <1>1, <2>2, <2>3
<1>6. Together'
  <2> SUFFICES ASSUME NEW v \in Workers, ~Gone(v)', NEW x \in HeldBy(v)', groupOf'[x] # NoGroup
               PROVE  groupWorker'[groupOf'[x]] = v
    BY DEF Together
  <2>1. ~Gone(v)
    OBVIOUS
  <2>2. CASE x \in HeldBy(v)
    <3>1. x \in Works /\ x # new
      BY <1>1, <1>3, <2>2
    <3>2. groupOf'[x] = groupOf[x] /\ groupOf[x] \in Groups
      BY <1>2, <1>3, <3>1
    <3>3. groupWorker[groupOf[x]] = v
      BY <2>1, <2>2, <3>2 DEF OrderInv, Together
    <3>4. CASE groupOf[x] = g
      BY <2>1, <2>2, <3>2, <3>4
    <3>5. CASE groupOf[x] # g
      BY <3>2, <3>3, <3>5
    <3>6. QED
      BY <3>4, <3>5
  <2>3. CASE x \notin HeldBy(v)
    <3>1. v = w /\ x = new
      BY <1>1, <2>3
    <3>2. QED
      BY <1>2, <3>1
  <2>4. QED
    BY <2>2, <2>3
<1>7. Accounted'
  <2> SUFFICES ASSUME NEW x \in Works, x <= new, x \notin done
               PROVE  \E v \in Workers : /\ workerOf'[x] = v
                                         /\ x \in HeldBy(v)' \/ m_shutdown[v] \/ Gone(v)'
    BY <1>2 DEF Accounted, HeldBy, QueuedAt, Gone
  <2>1. CASE x = new
    BY <1>1, <1>2, <2>1
  <2>2. CASE x # new
    <3>1. x <= added
      BY <1>3, <2>2 DEF new
    <3>2. PICK v \in Workers : /\ workerOf[x] = v
                               /\ x \in HeldBy(v) \/ m_shutdown[v] \/ Gone(v)
      BY <3>1 DEF OrderInv, Accounted
    <3>3. workerOf'[x] = v
      BY <1>2, <2>2, <3>2
    <3>4. HeldBy(v) \subseteq HeldBy(v)'
      BY <1>1
    <3>5. QED
      BY <3>2, <3>3, <3>4
  <2>3. QED
    BY <2>1, <2>2
<1>8. QED
  BY <1>4, <1>5, <1>6, <1>7 DEF OrderInv

LEMMA AllocateOrder ==
  ASSUME IInv, Hiring, OrderInv, NEW g \in Groups \cup {NoGroup}, AllocateAndGive(g),
         added < MaxWorks,
         \A h \in Groups \ {g} : groupWorker'[h] = groupWorker[h],
         g \in Groups => groupWorker'[g] = Allocated,
         g \in Groups => \A v \in Workers : ~Gone(v) => \A x \in HeldBy(v) : groupOf[x] # g
  PROVE  OrderInv'
<1>1. Allocated \in Workers /\ Give(Allocated, g)
  BY DEF AllocateAndGive
<1>2. \A v \in Workers : Gone(v) => Gone(v)'
  BY AllocateEffect
<1>3. \A v \in Workers : pc[v] \in {"dequeued", "working"} => pc'[v] = pc[v]
  <2> SUFFICES ASSUME NEW v \in Workers, pc[v] \in {"dequeued", "working"} PROVE pc'[v] = pc[v]
    OBVIOUS
  <2>1. v \notin Dead
    BY AllocateEffect
  <2>2. v = Allocated => pc'[v] = pc[v]
    BY AllocateEffect
  <2>3. v # Allocated => pc'[v] = pc[v]
    BY <2>1, AllocateEffect
  <2>4. QED
    BY <2>2, <2>3
<1>4. g \in Groups => \A v \in Workers \ {Allocated} : ~Gone(v) =>
                        \A x \in HeldBy(v) : groupOf[x] # g
  OBVIOUS
<1> HIDE DEF Allocated
<1>5. QED
  BY <1>1, <1>2, <1>3, <1>4, GiveOrder

\* A group without works has none with any worker.
LEMMA NoneHeld ==
  ASSUME IInv, NEW g \in Groups, groupCount[g] = 0, NEW v \in Workers, NEW x \in HeldBy(v)
  PROVE  groupOf[x] # g
<1>1. Cardinality(Members(g)) = 0
  BY DEF IInv, Counted
<1>2. Members(g) = {}
  BY <1>1, MembersFinite, FS_EmptySet
<1>3. x \in Works /\ workerOf[x] # NoWorker
  BY HeldWasAdded DEF IInv, Owned, Workers, NoWorker
<1>4. QED
  BY <1>2, <1>3 DEF Members

LEMMA AddOrder ==
  ASSUME IInv, Hiring, OrderInv,
         \/ AddUngrouped
         \/ \E g \in Groups : AddFirstOfGroup(g) \/ AddToGroup(g) \/ AddToTerminatedGroup(g)
  PROVE  OrderInv'
<1>0. groupWorker \in [Groups -> Workers \cup {NoWorker}] /\ NoGroup \notin Groups
  BY PoolAssumption DEF IInv, Shape
<1>1. CASE AddUngrouped
  BY <1>0, <1>1, AllocateOrder DEF AddUngrouped, MayAdd
<1>2. ASSUME NEW g \in Groups, AddFirstOfGroup(g) PROVE OrderInv'
  <2>1. \A v \in Workers : \A x \in HeldBy(v) : groupOf[x] # g
    BY <1>2, NoneHeld DEF AddFirstOfGroup
  <2>2. AllocateAndGive(g) /\ added < MaxWorks
    BY <1>2 DEF AddFirstOfGroup, MayAdd
  <2>3. groupWorker'[g] = Allocated /\ \A h \in Groups \ {g} : groupWorker'[h] = groupWorker[h]
    BY <1>0, <1>2 DEF AddFirstOfGroup
  <2>4. QED
    BY <2>1, <2>2, <2>3, AllocateOrder
<1>3. ASSUME NEW g \in Groups, AddToTerminatedGroup(g) PROVE OrderInv'
  <2>1. ASSUME NEW v \in Workers, ~Gone(v), NEW x \in HeldBy(v) PROVE groupOf[x] # g
    <3>1. groupOf[x] = g => groupWorker[g] = v
      BY <1>0, <2>1 DEF OrderInv, Together
    <3>2. QED
      BY <1>3, <2>1, <3>1 DEF AddToTerminatedGroup, Gone
  <2>2. AllocateAndGive(g) /\ added < MaxWorks
    BY <1>3 DEF AddToTerminatedGroup, MayAdd
  <2>3. groupWorker'[g] = Allocated /\ \A h \in Groups \ {g} : groupWorker'[h] = groupWorker[h]
    BY <1>0, <1>3 DEF AddToTerminatedGroup
  <2>4. QED
    BY <2>1, <2>2, <2>3, AllocateOrder
<1>4. ASSUME NEW g \in Groups, AddToGroup(g) PROVE OrderInv'
  <2> DEFINE w == groupWorker[g]
  <2>1. w \in Workers
    BY <1>4 DEF AddToGroup, IInv, Served
  <2>2. Give(w, g) /\ added < MaxWorks /\ UNCHANGED <<pc, groupWorker>>
    BY <1>4 DEF AddToGroup, MayAdd
  <2>3. \A v \in Workers : Gone(v) => Gone(v)'
    BY <2>2 DEF Gone
  <2>4. \A v \in Workers \ {w} : ~Gone(v) => \A x \in HeldBy(v) : groupOf[x] # g
    BY <1>0 DEF OrderInv, Together
  <2>5. /\ groupWorker'[g] = w
        /\ \A h \in Groups \ {g} : groupWorker'[h] = groupWorker[h]
        /\ \A v \in Workers : pc[v] \in {"dequeued", "working"} => pc'[v] = pc[v]
    BY <2>2
  <2> HIDE DEF w
  <2>6. QED
    BY <2>1, <2>2, <2>3, <2>4, <2>5, GiveOrder
<1>5. QED
  BY <1>1, <1>2, <1>3, <1>4

LEMMA WorkerOrder ==
  ASSUME IInv, Hiring, OrderInv, NEW w \in Workers, WorkerStep(w)
  PROVE  OrderInv'
<1>0. /\ \A v \in Workers : Gone(v) => Gone(v)'
      /\ UNCHANGED m_shutdown
      /\ pc \in [Workers -> PCs] /\ item \in [Workers -> Works \cup {NoWork}]
      /\ queue \in [Workers -> Seq(Works)]
  <2>1. \A v \in Workers : pc'[v] = pc[v] \/ pc[v] \notin {"exited", "deleted"}
    BY WorkerGoes
  <2>2. QED
    BY <2>1, WorkerGoes DEF IInv, Shape, Gone
<1>1. CASE UNCHANGED <<workerOf, queue, item, done>>
  <2>1. UNCHANGED <<added, groupOf, groupWorker>>
    BY DEF WorkerStep, OnWorkerStarted, Dequeue, SetWorking, RemoveWork, ClearWorking,
           OnMaxWaitTime, Increase, others, maps
  <2>2. \A v \in Workers : pc'[v] \notin {"dequeued", "working"} =>
                             pc[v] \notin {"dequeued", "working"} \/ v = w
    BY WorkerGoes
  <2>3. pc'[w] \notin {"dequeued", "working"} => item[w] = NoWork
    <3>1. CASE RemoveWork(w)
      BY <1>0, <1>1, <3>1 DEF RemoveWork
    <3>2. CASE ~RemoveWork(w)
      <4>1. pc'[w] \notin {"dequeued", "working"} => pc[w] \notin {"dequeued", "working"}
        BY <1>0, <3>2 DEF WorkerStep, OnWorkerStarted, Dequeue, SetWorking, ClearWorking,
                          OnMaxWaitTime, Increase, Goto
      <4>2. QED
        BY <4>1 DEF OrderInv, Rested
    <3>3. QED
      BY <3>1, <3>2
  <2>4. Rested'
    BY <1>1, <2>2, <2>3 DEF OrderInv, Rested
  <2>5. Ascending'
    BY <1>1 DEF OrderInv, Ascending
  <2>6. \A v \in Workers : HeldBy(v)' = HeldBy(v)
    BY <1>1 DEF HeldBy, QueuedAt
  <2>7. QED
    BY <1>0, <1>1, <2>1, <2>4, <2>5, <2>6, OrderStep
<1>2. CASE Dequeue(w) /\ queue[w] # <<>>
  <2>1. /\ pc[w] = "dequeue" /\ pc' = [pc EXCEPT ![w] = "dequeued"]
        /\ item' = [item EXCEPT ![w] = Head(queue[w])]
        /\ queue' = [queue EXCEPT ![w] = Tail(@)]
        /\ UNCHANGED <<added, workerOf, groupOf, groupWorker, done>>
    BY <1>2 DEF Dequeue, Goto, maps, others
  <2>2. item[w] = NoWork
    BY <2>1 DEF OrderInv, Rested
  <2>3. queue[w] \in Seq(Works)
    BY <1>0
  <2>4. /\ DOMAIN queue[w] = 1..Len(queue[w]) /\ Len(queue[w]) \in Nat /\ Len(queue[w]) > 0
        /\ Head(queue[w]) = queue[w][1] /\ queue[w][1] \in Works
        /\ DOMAIN Tail(queue[w]) = 1..(Len(queue[w]) - 1)
        /\ \A i \in 1..(Len(queue[w]) - 1) : Tail(queue[w])[i] = queue[w][i + 1]
    BY <1>2, <2>3
  <2>5. /\ \A i \in 1..(Len(queue[w]) - 1) : i + 1 \in DOMAIN queue[w] /\ i + 1 > 1 /\ i \in Nat
        /\ \A i \in DOMAIN queue[w] : i = 1 \/ (i - 1 \in 1..(Len(queue[w]) - 1) /\ (i - 1) + 1 = i)
        /\ 1 \in DOMAIN queue[w]
    BY <2>4
  <2>6. Rested'
    BY <1>0, <2>1 DEF OrderInv, Rested
  <2>7. Ascending'
    <3>1. /\ \A i, j \in DOMAIN queue[w] : i < j => queue[w][i] < queue[w][j]
      BY DEF OrderInv, Ascending
    <3>2. ASSUME NEW i \in 1..(Len(queue[w]) - 1), NEW j \in 1..(Len(queue[w]) - 1), i < j
          PROVE  Tail(queue[w])[i] < Tail(queue[w])[j]
      <4>1. i + 1 < j + 1 /\ i + 1 \in DOMAIN queue[w] /\ j + 1 \in DOMAIN queue[w]
        BY <2>5, <3>2
      <4>2. queue[w][i + 1] < queue[w][j + 1]
        BY <3>1, <4>1
      <4>3. QED
        BY <2>4, <4>2
    <3>3. ASSUME NEW i \in 1..(Len(queue[w]) - 1) PROVE Head(queue[w]) < Tail(queue[w])[i]
      <4>1. queue[w][1] < queue[w][i + 1]
        BY <2>5, <3>1
      <4>2. QED
        BY <2>4, <4>1
    <3>4. /\ \A i, j \in DOMAIN Tail(queue[w]) : i < j => Tail(queue[w])[i] < Tail(queue[w])[j]
          /\ \A i \in DOMAIN Tail(queue[w]) : Head(queue[w]) < Tail(queue[w])[i]
      BY <2>4, <3>2, <3>3
    <3>5. QED
      BY <1>0, <2>1, <3>4 DEF OrderInv, Ascending
  <2>8. ASSUME NEW v \in Workers PROVE HeldBy(v)' = HeldBy(v)
    <3>1. CASE v # w
      BY <1>0, <2>1, <3>1 DEF HeldBy, QueuedAt
    <3>2. CASE v = w
      <4>1. QueuedAt(w)' = {Tail(queue[w])[i] : i \in 1..(Len(queue[w]) - 1)}
        BY <1>0, <2>1, <2>4 DEF QueuedAt
      <4>2. HeldBy(w)' = QueuedAt(w)' \cup {queue[w][1]}
        BY <1>0, <2>1, <2>4, PoolBounds DEF HeldBy, Works, NoWork
      <4>3. HeldBy(w) = QueuedAt(w)
        BY <2>2 DEF HeldBy
      <4>4. ASSUME NEW i \in DOMAIN queue[w] PROVE queue[w][i] \in HeldBy(w)'
        <5>1. CASE i = 1
          BY <4>2, <5>1
        <5>2. CASE i # 1
          <6>1. i - 1 \in 1..(Len(queue[w]) - 1) /\ Tail(queue[w])[i - 1] = queue[w][(i - 1) + 1]
            BY <2>4, <2>5, <5>2
          <6>2. (i - 1) + 1 = i
            BY <2>5, <5>2
          <6>3. QED
            BY <4>1, <4>2, <6>1, <6>2
        <5>3. QED
          BY <5>1, <5>2
      <4>5. ASSUME NEW i \in 1..(Len(queue[w]) - 1) PROVE Tail(queue[w])[i] \in QueuedAt(w)
        BY <2>4, <2>5 DEF QueuedAt
      <4>7. queue[w][1] \in QueuedAt(w)
        BY <2>5 DEF QueuedAt
      <4>8. QueuedAt(w) \subseteq HeldBy(w)'
        BY <4>4 DEF QueuedAt
      <4>9. HeldBy(w)' \subseteq QueuedAt(w)
        BY <4>1, <4>2, <4>5, <4>7
      <4>10. QED
        BY <3>2, <4>3, <4>8, <4>9
    <3>3. QED
      BY <3>1, <3>2
  <2>9. QED
    BY <1>0, <2>1, <2>6, <2>7, <2>8, OrderStep
<1>3. CASE RemoveWork(w)
  <2>1. /\ pc[w] = "working" /\ pc' = [pc EXCEPT ![w] = "removed"]
        /\ item' = [item EXCEPT ![w] = NoWork]
        /\ workerOf' = [workerOf EXCEPT ![item[w]] = NoWorker]
        /\ done' = done \cup {item[w]}
        /\ UNCHANGED <<added, groupOf, groupWorker, queue>>
    BY <1>3 DEF RemoveWork, Goto, others
  <2>2. \A v \in Workers : QueuedAt(v)' = QueuedAt(v)
    BY <2>1 DEF QueuedAt
  <2>3. \A v \in Workers : item'[v] = IF v = w THEN NoWork ELSE item[v]
    BY <1>0, <2>1
  <2>4. Rested'
    BY <1>0, <2>1, <2>3 DEF OrderInv, Rested
  <2>5. Ascending'
    <3>1. \A v \in Workers : \A i \in DOMAIN queue[v] : NoWork < queue[v][i]
      BY <1>0, PoolBounds DEF Works, NoWork
    <3>2. QED
      BY <2>1, <2>3, <3>1 DEF OrderInv, Ascending
  <2>6. ASSUME NEW v \in Workers
        PROVE  /\ HeldBy(v)' \subseteq HeldBy(v)
               /\ \A x \in HeldBy(v) : x \in HeldBy(v)' \/ x \in done'
    BY <2>1, <2>2, <2>3 DEF HeldBy
  <2>7. \A x \in Works : x \in done' \/ (x \notin done /\ workerOf'[x] = workerOf[x])
    BY <2>1 DEF IInv, Shape
  <2>8. QED
    BY <1>0, <2>1, <2>4, <2>5, <2>6, <2>7, OrderStep
<1>4. QED
  BY <1>1, <1>2, <1>3 DEF WorkerStep, OnWorkerStarted, Dequeue, SetWorking, ClearWorking,
                          OnMaxWaitTime, Increase, maps

\* The types of the variables with which the threads command the pool.
CallShape == /\ m_shutdown \in [Workers -> BOOLEAN]
             /\ call \in [Threads -> {"none", "reclaim", "shutdown", "front", "finished"}]
             /\ stopping \in [Threads -> Workers \cup {NoWorker}]

LEMMA CallShapeKept == IInv /\ Hiring /\ CallShape /\ [Next]_vars => CallShape'
<1> SUFFICES ASSUME IInv, Hiring, CallShape, [Next]_vars PROVE CallShape'
  OBVIOUS
<1>1. CASE UNCHANGED <<m_shutdown, call, stopping>>
  BY <1>1 DEF CallShape
<1>2. ASSUME NEW t \in Threads, NEW count \in Counts, SetMaxWorkers(t, count) PROVE CallShape'
  BY <1>2 DEF SetMaxWorkers, CallShape
<1>3. ASSUME NEW t \in Threads, Shutdown(t) \/ TestEmpty(t) PROVE CallShape'
  BY <1>3 DEF Shutdown, TestEmpty, CallShape
<1>4. ASSUME NEW t \in Threads, Reclaim(t) PROVE CallShape'
  <2>1. \A i \in Reclaimable(t) : m_workers[i] \in Workers
    BY DEF Reclaimable, Hiring, Listed
  <2>2. QED
    BY <1>4, <2>1 DEF Reclaim, CallShape
<1>5. ASSUME NEW t \in Threads, TakeFront(t) PROVE CallShape'
  <2>1. Head(m_workers) \in Workers
    BY <1>5 DEF TakeFront, Hiring, Listed
  <2>2. QED
    BY <1>5, <2>1 DEF TakeFront, CallShape
<1>6. ASSUME NEW t \in Threads, StopWorker(t) \/ DeleteWorker(t) PROVE CallShape'
  BY <1>6 DEF StopWorker, DeleteWorker, CallShape, caller
<1>7. ASSUME NEW w \in Workers, WorkerStep(w) PROVE CallShape'
  BY <1>1, <1>7, WorkerGoes DEF caller
<1>8. CASE \/ AddUngrouped
           \/ \E g \in Groups : AddFirstOfGroup(g) \/ AddToGroup(g) \/ AddToTerminatedGroup(g)
  BY <1>1, <1>8 DEF AddUngrouped, AddFirstOfGroup, AddToGroup, AddToTerminatedGroup,
                    AllocateAndGive, Give, caller
<1>9. CASE UNCHANGED vars
  BY <1>1, <1>9 DEF vars, worker, caller
<1>10. QED
  BY <1>2, <1>3, <1>4, <1>5, <1>6, <1>7, <1>8, <1>9 DEF Next, Quiet, CallStep

\* The order survives whatever the workers and the threads that command the pool do.
LEMMA StepOrder == IInv /\ Hiring /\ CallShape /\ OrderInv /\ [Next]_vars => OrderInv'
<1> SUFFICES ASSUME IInv, Hiring, CallShape, OrderInv, [Next]_vars PROVE OrderInv'
  OBVIOUS
<1>0. \A w \in Workers : Gone(w) => Gone(w)'
  BY HiringKept
<1>1. ASSUME NEW w \in Workers, WorkerStep(w) PROVE OrderInv'
  BY <1>1, WorkerOrder
<1>2. CASE UNCHANGED <<maps, queue, item, done, added, m_shutdown>>
           /\ \A w \in Workers : pc'[w] \in {"dequeued", "working"} <=> pc[w] \in {"dequeued", "working"}
  <2>1. Rested' /\ Ascending'
    BY <1>2 DEF OrderInv, Rested, Ascending
  <2>2. \A w \in Workers : HeldBy(w)' = HeldBy(w)
    BY <1>2 DEF HeldBy, QueuedAt
  <2>3. QED
    BY <1>0, <1>2, <2>1, <2>2, OrderStep DEF maps
<1>3. ASSUME NEW t \in Threads, StopWorker(t) PROVE OrderInv'
  <2> DEFINE w == stopping[t]
  <2>1. UNCHANGED <<maps, item, done, added, pc>>
    BY <1>3 DEF StopWorker, pool
  <2>2. ASSUME NEW v \in Workers
        PROVE  /\ queue'[v] = queue[v] \/ (queue'[v] = <<>> /\ m_shutdown'[v])
               /\ m_shutdown[v] => m_shutdown'[v]
    BY <1>3 DEF StopWorker, CallShape, IInv, Shape
  <2>3. Rested'
    BY <2>1 DEF OrderInv, Rested
  <2>4. Ascending'
    <3>1. \A v \in Workers : queue'[v] = queue[v] \/ DOMAIN queue'[v] = {}
      BY <2>2
    <3>2. QED
      BY <2>1, <3>1 DEF OrderInv, Ascending
  <2>5. ASSUME NEW v \in Workers
        PROVE  /\ HeldBy(v)' \subseteq HeldBy(v)
               /\ HeldBy(v)' = HeldBy(v) \/ m_shutdown'[v]
    <3>1. CASE queue'[v] = queue[v]
      BY <2>1, <3>1 DEF HeldBy, QueuedAt
    <3>2. CASE queue'[v] = <<>> /\ m_shutdown'[v]
      <4>1. QueuedAt(v)' = {}
        BY <3>2 DEF QueuedAt
      <4>2. QED
        BY <2>1, <3>2, <4>1 DEF HeldBy
    <3>3. QED
      BY <2>2, <3>1, <3>2
  <2>6. QED
    BY <1>0, <2>1, <2>2, <2>3, <2>4, <2>5, OrderStep DEF maps
<1>4. ASSUME NEW t \in Threads, DeleteWorker(t) PROVE OrderInv'
  BY <1>2, <1>4 DEF DeleteWorker, Terminated, IInv, Shape
<1>5. ASSUME NEW t \in Threads,
             \/ \E count \in Counts : SetMaxWorkers(t, count)
             \/ Shutdown(t) \/ Reclaim(t) \/ TestEmpty(t) \/ TakeFront(t)
      PROVE  OrderInv'
  BY <1>2, <1>5 DEF SetMaxWorkers, Shutdown, Reclaim, TestEmpty, TakeFront, pool
<1>6. CASE UNCHANGED vars
  BY <1>2, <1>6 DEF vars, worker
<1>7. QED
  BY <1>1, <1>3, <1>4, <1>5, <1>6, AddOrder DEF Next, Quiet, CallStep

LEMMA InitOrder == Init => Hiring /\ CallShape /\ OrderInv
<1> SUFFICES ASSUME Init PROVE Hiring /\ CallShape /\ OrderInv
  OBVIOUS
<1>1. Listed /\ Staff = {}
  BY DEF Init, Listed, Staff
<1>2. Hiring
  BY <1>1 DEF Hiring, Init
<1>3. Rested
  BY DEF Init, Rested
<1>4. Ascending /\ Together
  BY DEF Init, Ascending, Together, HeldBy, QueuedAt, NoWork
<1>5. Accounted
  BY PoolBounds DEF Init, Accounted, Works
<1>6. QED
  BY <1>2, <1>3, <1>4, <1>5 DEF OrderInv, Init, CallShape

\* OrderOfGroups: the works of a group run one at a time in the order of AddWork.
THEOREM PoolOrderOfGroups == Spec => []OrderOfGroups
<1>1. Init => IInv /\ Hiring /\ CallShape /\ OrderInv
  BY InitIInv, InitOrder
<1>2. IInv /\ Hiring /\ CallShape /\ OrderInv /\ [Next]_vars
        => (IInv /\ Hiring /\ CallShape /\ OrderInv)'
  BY StepIInv, HiringKept, CallShapeKept, StepOrder
<1>3. QED
  BY <1>1, <1>2, OrderFollows, PTL DEF Spec

-----------------------------------------------------------------------------
(* Shutdown.                                                                *)

\* Who gives which command: works call SetMaxWorkers and nothing else, one controller
\* shuts the pool down, and a thread that stops a worker is at one of the two.
Roles ==
  /\ \A t \in Threads : stopping[t] # NoWorker => call[t] \in {"reclaim", "shutdown"}
  /\ \A t, u \in Threads : /\ call[t] \in {"shutdown", "front", "finished"}
                           /\ call[u] \in {"shutdown", "front", "finished"}
                           => t = u /\ t \in Controllers
  /\ \A w \in Workers : call[w] # "none" => pc[w] = "working"
  /\ \A t \in Controllers : call[t] = "reclaim" => t \in Reclaimers

\* No worker is lost sight of.
Watched == \A w \in Workers : pc[w] \in {"none", "deleted"} \/ w \in Staff
                                \/ \E t \in Threads : stopping[t] = w

\* Works that call SetMaxWorkers do not wait for each other in a circle: of any set
\* of workers there is one that none of them is stopping.
NoCircle == \A W \in SUBSET Workers : W # {} => \E w \in W : \A t \in W : stopping[t] # w

ShutdownInv == Roles /\ Watched /\ NoCircle /\ FrontExists /\ ShutdownLeavesNobody

\* When Shutdown finds the list empty nobody is left: a worker that a work is still
\* stopping would be part of a chain of such workers, and the chain would have no end.
LEMMA NobodyLeft ==
  ASSUME IInv, CallShape, ShutdownInv, Reclaimers \cap Controllers = {},
         m_workers = <<>>, NEW t \in Threads, call[t] = "shutdown", stopping[t] = NoWorker
  PROVE  \A w \in Workers : pc[w] \in {"none", "deleted"}
<1> DEFINE Left == {w \in Workers : pc[w] \notin {"none", "deleted"}}
<1>1. Staff = {}
  BY DEF Staff
<1>2. ASSUME NEW w \in Left PROVE \E u \in Left : stopping[u] = w
  <2>1. PICK u \in Threads : stopping[u] = w
    BY <1>1 DEF ShutdownInv, Watched
  <2>2. w # NoWorker
    BY DEF Workers, NoWorker
  <2>3. call[u] \in {"reclaim", "shutdown"} /\ u # t
    BY <2>1, <2>2 DEF ShutdownInv, Roles
  <2>4. call[u] = "reclaim"
    BY <2>3 DEF ShutdownInv, Roles
  <2>5. u \in Workers
    BY <2>4 DEF ShutdownInv, Roles, Threads
  <2>6. pc[u] = "working"
    BY <2>4, <2>5 DEF ShutdownInv, Roles
  <2>7. QED
    BY <2>1, <2>5, <2>6
<1>3. Left = {}
  <2>1. NoCircle
    BY DEF ShutdownInv
  <2>2. Left \in SUBSET Workers
    OBVIOUS
  <2> HIDE DEF Left
  <2>3. Left # {} => \E w \in Left : \A u \in Left : stopping[u] # w
    BY <2>1, <2>2 DEF NoCircle
  <2>4. QED
    BY <1>2, <2>3
<1>4. QED
  BY <1>3

\* A worker that ReclaimWorkers takes has no work, so that it is stopping nobody.
LEMMA ReclaimKeepsNoCircle ==
  ASSUME IInv, CallShape, Hiring, ShutdownInv, NEW t \in Threads,
         call[t] = "reclaim", stopping[t] = NoWorker, NEW i \in Reclaimable(t),
         stopping' = [stopping EXCEPT ![t] = m_workers[i]]
  PROVE  NoCircle'
<1> DEFINE w == m_workers[i]
<1>1. w \in Workers /\ GetWorkSize(w) = 0 /\ w # t
  BY DEF Reclaimable, Hiring, Listed
<1>2. pc[w] # "working"
  <2>1. Len(queue[w]) \in Nat
    BY <1>1 DEF IInv, Shape
  <2>2. pc[w] \in {"working", "removed"} => GetWorkSize(w) = Len(queue[w]) + 1
    BY DEF GetWorkSize
  <2>3. Len(queue[w]) + 1 # 0
    BY <2>1
  <2>4. QED
    BY <1>1, <2>2, <2>3
<1>3. w \in Threads
  BY <1>1 DEF Threads
<1>4. stopping[w] = NoWorker
  BY <1>1, <1>2, <1>3 DEF ShutdownInv, Roles
<1>5. stopping'[t] = w /\ \A u \in Threads \ {t} : stopping'[u] = stopping[u]
  BY DEF CallShape
<1>6. w # NoWorker /\ Workers \subseteq Threads
  BY <1>1 DEF Workers, NoWorker, Threads
<1> HIDE DEF w
<1>7. ASSUME NEW W \in SUBSET Workers, W # {}
      PROVE  \E v \in W : \A u \in W : stopping'[u] # v
  <2>1. CASE t \in W /\ w \in W
    <3>1. W \ {w} \in SUBSET Workers /\ W \ {w} # {}
      BY <1>1, <2>1
    <3>2. PICK v \in W \ {w} : \A u \in W \ {w} : stopping[u] # v
      BY <3>1 DEF ShutdownInv, NoCircle
    <3>3. v # NoWorker
      BY <3>1 DEF Workers, NoWorker
    <3>4. \A u \in W : stopping'[u] # v
      BY <1>1, <1>4, <1>5, <1>6, <3>2, <3>3
    <3>5. QED
      BY <3>4
  <2>2. CASE ~(t \in W /\ w \in W)
    <3>1. PICK v \in W : \A u \in W : stopping[u] # v
      BY <1>7 DEF ShutdownInv, NoCircle
    <3>2. \A u \in W : stopping'[u] # v
      BY <1>5, <1>6, <2>2, <3>1
    <3>3. QED
      BY <3>2
  <2>3. QED
    BY <2>1, <2>2
<1>8. QED
  BY <1>7 DEF NoCircle

\* Steps that leave the list and the commands alone.
LEMMA ShutdownKept ==
  ASSUME ShutdownInv, UNCHANGED <<m_workers, call, stopping>>,
         \A w \in Workers : pc[w] \in {"none", "deleted"} => pc'[w] = pc[w],
         \A w \in Workers : call[w] # "none" => pc'[w] = "working"
  PROVE  ShutdownInv'
<1>1. Roles' /\ NoCircle' /\ FrontExists'
  BY DEF ShutdownInv, Roles, NoCircle, FrontExists
<1>2. Watched'
  BY DEF ShutdownInv, Watched, Staff
<1>3. ShutdownLeavesNobody'
  BY DEF ShutdownInv, ShutdownLeavesNobody
<1>4. QED
  BY <1>1, <1>2, <1>3 DEF ShutdownInv

LEMMA AllocateShutdown ==
  ASSUME IInv, Hiring, CallShape, ShutdownInv, NEW g, AllocateAndGive(g), MayAdd
  PROVE  ShutdownInv'
<1>1. /\ UNCHANGED <<call, stopping>> /\ Allocated \in Workers
  BY DEF AllocateAndGive, Give, caller
<1>2. /\ Staff' = (Staff \ Dead) \cup {Allocated}
      /\ \A w \in Dead : pc[w] = "exited" /\ pc'[w] = "deleted"
      /\ pc'[Allocated] = pc[Allocated] \/ pc[Allocated] = "none"
      /\ \A w \in Workers \ (Dead \cup {Allocated}) : pc'[w] = pc[w]
  BY AllocateEffect
<1> HIDE DEF Allocated
<1>3. Roles'
  <2>1. \A w \in Workers : pc[w] = "working" => pc'[w] = "working"
    BY <1>1, <1>2
  <2>2. QED
    BY <1>1, <2>1 DEF ShutdownInv, Roles
<1>4. Watched'
  <2> SUFFICES ASSUME NEW w \in Workers
               PROVE  pc'[w] \in {"none", "deleted"} \/ w \in Staff'
                        \/ \E t \in Threads : stopping'[t] = w
    BY DEF Watched
  <2>1. CASE w \in Dead \cup {Allocated}
    BY <1>2, <2>1
  <2>2. CASE w \notin Dead \cup {Allocated}
    BY <1>1, <1>2, <2>2 DEF ShutdownInv, Watched
  <2>3. QED
    BY <2>1, <2>2
<1>5. NoCircle'
  BY <1>1 DEF ShutdownInv, NoCircle
<1>6. FrontExists'
  <2>1. Staff' # {}
    BY <1>2
  <2>2. m_workers' # <<>>
    BY <2>1 DEF Staff
  <2>3. QED
    BY <2>2 DEF FrontExists
<1>7. ShutdownLeavesNobody'
  <2>1. ~\E t \in Controllers : call[t] = "finished"
    BY DEF MayAdd, ShuttingDown, Adders, ShutdownInv, ShutdownLeavesNobody
  <2>2. QED
    BY <1>1, <2>1 DEF ShutdownLeavesNobody
<1>8. QED
  BY <1>3, <1>4, <1>5, <1>6, <1>7 DEF ShutdownInv

LEMMA CallShutdown ==
  ASSUME IInv, Hiring, CallShape, ShutdownInv, Reclaimers \cap Controllers = {},
         NEW t \in Threads,
         \/ \E count \in Counts : SetMaxWorkers(t, count)
         \/ Shutdown(t) \/ CallStep(t)
  PROVE  ShutdownInv'
<1>0. /\ \A v \in Workers : v \in Threads /\ v \notin Controllers /\ v # NoWorker
      /\ \A u \in Threads : call[u] \in {"none", "reclaim", "shutdown", "front", "finished"}
      /\ call \in [Threads -> {"none", "reclaim", "shutdown", "front", "finished"}]
      /\ stopping \in [Threads -> Workers \cup {NoWorker}]
      /\ \A u \in Controllers : u \in Threads
  BY PoolAssumption DEF Threads, Workers, NoWorker, CallShape
<1>1. ASSUME NEW count \in Counts, SetMaxWorkers(t, count) PROVE ShutdownInv'
  <2>1. /\ UNCHANGED <<m_workers, stopping, pc>> /\ call[t] = "none"
        /\ t \in Workers => pc[t] = "working"
        /\ call'[t] \in {"none", "reclaim"}
        /\ \A u \in Threads \ {t} : call'[u] = call[u]
        /\ t \in Controllers => t \in Reclaimers
    BY <1>0, <1>1 DEF SetMaxWorkers, pool, Free
  <2>2. Roles'
    BY <1>0, <2>1 DEF ShutdownInv, Roles
  <2>3. Watched' /\ NoCircle'
    BY <2>1 DEF ShutdownInv, Watched, Staff, NoCircle
  <2>4. FrontExists' /\ ShutdownLeavesNobody'
    BY <1>0, <2>1 DEF ShutdownInv, FrontExists, ShutdownLeavesNobody
  <2>5. QED
    BY <2>2, <2>3, <2>4 DEF ShutdownInv
<1>2. CASE Shutdown(t)
  <2>1. /\ UNCHANGED <<m_workers, stopping, pc>> /\ call[t] = "none" /\ t \in Controllers
        /\ call'[t] = "shutdown" /\ \A u \in Threads \ {t} : call'[u] = call[u]
        /\ \A u \in Controllers : call[u] \notin {"shutdown", "front", "finished"}
    BY <1>0, <1>2, PoolAssumption DEF Shutdown, pool, Free, ShuttingDown
  <2>2. \A u \in Threads : call[u] \notin {"shutdown", "front", "finished"}
    BY <2>1 DEF ShutdownInv, Roles
  <2>3. Roles'
    BY <1>0, <2>1, <2>2 DEF ShutdownInv, Roles
  <2>4. Watched' /\ NoCircle'
    BY <2>1 DEF ShutdownInv, Watched, Staff, NoCircle
  <2>5. FrontExists' /\ ShutdownLeavesNobody'
    BY <1>0, <2>1, <2>2 DEF FrontExists, ShutdownLeavesNobody
  <2>6. QED
    BY <2>3, <2>4, <2>5 DEF ShutdownInv
<1>3. CASE Reclaim(t)
  <2>1. UNCHANGED pc /\ call[t] = "reclaim" /\ stopping[t] = NoWorker
    BY <1>3 DEF Reclaim, pool
  <2>2. CASE MayReclaim(t)
    <3>1. PICK i \in Reclaimable(t) : /\ stopping' = [stopping EXCEPT ![t] = m_workers[i]]
                                      /\ m_workers' = Without(i) /\ UNCHANGED call
      BY <1>3, <2>2 DEF Reclaim
    <3>2. i \in DOMAIN m_workers /\ Len(m_workers) > 1
      BY <2>2 DEF Reclaimable, MayReclaim
    <3>3. /\ Listed' /\ Staff' = Staff \ {m_workers[i]}
          /\ Len(m_workers') = Len(m_workers) - 1
      BY <3>1, <3>2, WithoutListed DEF Hiring
    <3>4. /\ stopping'[t] = m_workers[i]
          /\ \A u \in Threads \ {t} : stopping'[u] = stopping[u]
      BY <1>0, <3>1
    <3>5. NoCircle'
      BY <2>1, <3>1, ReclaimKeepsNoCircle
    <3>6. Roles'
      BY <2>1, <3>1, <3>4 DEF ShutdownInv, Roles
    <3>7. Watched'
      BY <1>0, <2>1, <3>3, <3>4 DEF ShutdownInv, Watched
    <3>8. m_workers' # <<>>
      <4>1. Len(m_workers) \in Nat
        BY DEF Hiring, Listed
      <4>2. Len(m_workers') # 0
        BY <3>2, <3>3, <4>1
      <4>3. QED
        BY <4>2
    <3>9. FrontExists' /\ ShutdownLeavesNobody'
      BY <2>1, <3>1, <3>8 DEF ShutdownInv, FrontExists, ShutdownLeavesNobody
    <3>10. QED
      BY <3>5, <3>6, <3>7, <3>9 DEF ShutdownInv
  <2>3. CASE ~MayReclaim(t)
    <3>1. /\ UNCHANGED <<m_workers, stopping>> /\ call'[t] = "none"
          /\ \A u \in Threads \ {t} : call'[u] = call[u]
      BY <1>0, <1>3, <2>3 DEF Reclaim
    <3>2. Roles'
      BY <1>0, <2>1, <3>1 DEF ShutdownInv, Roles
    <3>3. Watched' /\ NoCircle'
      BY <2>1, <3>1 DEF ShutdownInv, Watched, Staff, NoCircle
    <3>4. FrontExists' /\ ShutdownLeavesNobody'
      BY <1>0, <2>1, <3>1 DEF ShutdownInv, FrontExists, ShutdownLeavesNobody
    <3>5. QED
      BY <3>2, <3>3, <3>4 DEF ShutdownInv
  <2>4. QED
    BY <2>2, <2>3
<1>4. CASE TestEmpty(t)
  <2>1. /\ UNCHANGED <<m_workers, stopping, pc>>
        /\ call[t] = "shutdown" /\ stopping[t] = NoWorker /\ t \in Controllers
        /\ call'[t] = IF m_workers = <<>> THEN "finished" ELSE "front"
        /\ \A u \in Threads \ {t} : call'[u] = call[u]
    BY <1>0, <1>4 DEF TestEmpty, pool, ShutdownInv, Roles
  <2>2. \A u \in Threads \ {t} : call[u] \notin {"shutdown", "front", "finished"}
    BY <2>1 DEF ShutdownInv, Roles
  <2>3. Roles'
    BY <1>0, <2>1, <2>2 DEF ShutdownInv, Roles
  <2>4. Watched' /\ NoCircle'
    BY <2>1 DEF ShutdownInv, Watched, Staff, NoCircle
  <2>5. FrontExists'
    BY <2>1, <2>2 DEF FrontExists
  <2>6. ShutdownLeavesNobody'
    <3>1. CASE m_workers = <<>>
      <4>1. \A w \in Workers : pc[w] \in {"none", "deleted"}
        BY <2>1, <3>1, NobodyLeft
      <4>2. QED
        BY <2>1, <4>1 DEF ShutdownLeavesNobody
    <3>2. CASE m_workers # <<>>
      BY <1>0, <2>1, <2>2, <3>2 DEF ShutdownLeavesNobody
    <3>3. QED
      BY <3>1, <3>2
  <2>7. QED
    BY <2>3, <2>4, <2>5, <2>6 DEF ShutdownInv
<1>5. CASE TakeFront(t)
  <2>1. /\ UNCHANGED pc /\ call[t] = "front" /\ m_workers # <<>> /\ m_workers' = Tail(m_workers)
        /\ stopping'[t] = Head(m_workers)
        /\ \A u \in Threads \ {t} : stopping'[u] = stopping[u]
        /\ call'[t] = "shutdown"
        /\ \A u \in Threads \ {t} : call'[u] = call[u]
    BY <1>0, <1>5 DEF TakeFront, pool
  <2>2. stopping[t] = NoWorker /\ t \in Controllers
    BY <2>1 DEF ShutdownInv, Roles
  <2>3. \A u \in Threads \ {t} : call[u] \notin {"shutdown", "front", "finished"}
    BY <2>1 DEF ShutdownInv, Roles
  <2>4. Staff' = Staff \ {Head(m_workers)} /\ Head(m_workers) \in Staff
    BY <2>1, TailListed DEF Hiring
  <2>5. Roles'
    BY <1>0, <2>1, <2>2, <2>3 DEF ShutdownInv, Roles
  <2>6. Watched'
    BY <1>0, <2>1, <2>2, <2>4 DEF ShutdownInv, Watched
  <2>7. NoCircle'
    <3>1. \A u \in Workers : stopping'[u] = stopping[u]
      BY <1>0, <2>1, <2>2
    <3>2. QED
      BY <3>1 DEF ShutdownInv, NoCircle
  <2>8. FrontExists' /\ ShutdownLeavesNobody'
    BY <1>0, <2>1, <2>3 DEF FrontExists, ShutdownLeavesNobody
  <2>9. QED
    BY <2>5, <2>6, <2>7, <2>8 DEF ShutdownInv
<1>6. CASE StopWorker(t)
  BY <1>6, ShutdownKept DEF StopWorker, pool, caller, ShutdownInv, Roles
<1>7. CASE DeleteWorker(t)
  <2> DEFINE w == stopping[t]
  <2>1. /\ UNCHANGED <<m_workers, call>> /\ w \in Workers /\ pc[w] = "exited"
        /\ pc'[w] = "deleted" /\ \A v \in Workers \ {w} : pc'[v] = pc[v]
        /\ stopping'[t] = NoWorker
        /\ \A u \in Threads \ {t} : stopping'[u] = stopping[u]
    BY <1>0, <1>7 DEF DeleteWorker, Terminated, IInv, Shape
  <2> HIDE DEF w
  <2>2. Roles'
    BY <1>0, <2>1 DEF ShutdownInv, Roles
  <2>3. Watched'
    <3> SUFFICES ASSUME NEW v \in Workers, pc'[v] \notin {"none", "deleted"}
                 PROVE  v \in Staff' \/ \E u \in Threads : stopping'[u] = v
      BY DEF Watched
    <3>1. v # w /\ pc'[v] = pc[v] /\ Staff' = Staff
      BY <2>1 DEF Staff
    <3>2. v \in Staff \/ \E u \in Threads : stopping[u] = v
      BY <3>1 DEF ShutdownInv, Watched
    <3>3. QED
      BY <2>1, <3>1, <3>2 DEF w
  <2>4. NoCircle'
    <3>1. \A u \in Workers : stopping'[u] = stopping[u] \/ stopping'[u] = NoWorker
      BY <1>0, <2>1
    <3>2. QED
      BY <1>0, <3>1 DEF ShutdownInv, NoCircle
  <2>5. FrontExists' /\ ShutdownLeavesNobody'
    BY <2>1 DEF ShutdownInv, FrontExists, ShutdownLeavesNobody
  <2>6. QED
    BY <2>2, <2>3, <2>4, <2>5 DEF ShutdownInv
<1>8. QED
  BY <1>1, <1>2, <1>3, <1>4, <1>5, <1>6, <1>7 DEF CallStep

LEMMA StepShutdown ==
  ASSUME IInv, Hiring, CallShape, ShutdownInv, Reclaimers \cap Controllers = {}, [Next]_vars
  PROVE  ShutdownInv'
<1>1. ASSUME NEW g \in Groups, AddToGroup(g) PROVE ShutdownInv'
  BY <1>1, ShutdownKept DEF AddToGroup, Give, caller, ShutdownInv, Roles
<1>2. AddUngrouped \/ (\E g \in Groups : AddFirstOfGroup(g) \/ AddToTerminatedGroup(g))
        => MayAdd /\ \E g : AllocateAndGive(g)
  BY DEF AddUngrouped, AddFirstOfGroup, AddToTerminatedGroup
<1>3. ASSUME NEW w \in Workers, WorkerStep(w) PROVE ShutdownInv'
  <2>1. \A v \in Workers : pc'[v] = pc[v] \/ (v = w /\ pc[v] \notin {"none", "deleted"})
    BY <1>3, WorkerGoes
  <2>2. UNCHANGED <<m_workers, call, stopping>>
    BY <1>3, WorkerGoes DEF caller
  <2>3. call[w] = "none"
    <3>1. CASE RemoveWork(w)
      BY <3>1 DEF RemoveWork
    <3>2. CASE ~RemoveWork(w)
      <4>1. pc[w] # "working"
        BY <1>3, <3>2 DEF WorkerStep, OnWorkerStarted, Dequeue, SetWorking, ClearWorking,
                          OnMaxWaitTime, Increase, Goto
      <4>2. QED
        BY <4>1 DEF ShutdownInv, Roles
    <3>3. QED
      BY <3>1, <3>2
  <2>4. \A v \in Workers : call[v] # "none" => pc'[v] = "working"
    BY <2>1, <2>3 DEF ShutdownInv, Roles
  <2>5. QED
    BY <2>1, <2>2, <2>4, ShutdownKept
<1>4. ASSUME NEW t \in Threads, \/ \E count \in Counts : SetMaxWorkers(t, count)
                                \/ Shutdown(t) \/ CallStep(t)
      PROVE  ShutdownInv'
  BY <1>4, CallShutdown
<1>5. CASE UNCHANGED vars
  BY <1>5, ShutdownKept DEF vars, worker, caller, ShutdownInv, Roles
<1>6. CASE MayAdd /\ \E g : AllocateAndGive(g)
  BY <1>6, AllocateShutdown
<1>7. QED
  BY <1>1, <1>2, <1>3, <1>4, <1>5, <1>6 DEF Next, Quiet

\* ShutdownIsSafe, of a pool whose maximum is changed by its own works only: when
\* Shutdown returns every worker is gone, also those that works were stopping.
THEOREM PoolShutdownIsSafe ==
  ASSUME Reclaimers \cap Controllers = {} PROVE Spec => []ShutdownIsSafe
<1>1. Init => IInv /\ Hiring /\ CallShape /\ ShutdownInv
  <2> SUFFICES ASSUME Init PROVE ShutdownInv
    BY InitIInv, InitOrder
  <2>1. Roles /\ Watched /\ FrontExists /\ ShutdownLeavesNobody
    BY DEF Init, Roles, Watched, FrontExists, ShutdownLeavesNobody, Threads
  <2>2. NoCircle
    <3>1. \A w \in Workers : w # NoWorker /\ stopping[w] = NoWorker
      BY DEF Init, Threads, Workers, NoWorker
    <3>2. QED
      BY <3>1 DEF NoCircle
  <2>3. QED
    BY <2>1, <2>2 DEF ShutdownInv
<1>2. IInv /\ Hiring /\ CallShape /\ ShutdownInv /\ [Next]_vars
        => (IInv /\ Hiring /\ CallShape /\ ShutdownInv)'
  BY StepIInv, HiringKept, CallShapeKept, StepShutdown
<1>3. ShutdownInv => ShutdownIsSafe
  BY DEF ShutdownInv, ShutdownIsSafe
<1>4. QED
  BY <1>1, <1>2, <1>3, PTL DEF Spec
-----------------------------------------------------------------------------
(* The limits on the number of workers and on the units of a worker.       *)

LimitShape == /\ m_maxWorkUnitCount \in Nat
              /\ m_workerIncreaseLimit \in Nat \ {0}
              /\ m_maxWorkerCount \in Nat
              /\ newMax \in [Workers -> Nat]

\* A worker is off the list before it is stopped.
Active == /\ \A w \in Staff : ~m_shutdown[w]
          /\ \A t \in Threads : stopping[t] # NoWorker
                                  => stopping[t] \notin Staff /\ stopping[t] <= created
          /\ \A w \in Workers : w > created => ~m_shutdown[w]

Ungrouped == \A x \in Works : x > added => groupOf[x] = NoGroup

\* What a worker read of the maximum, and will write, keeps to the limit as well.
Risen ==
  m_maxWorkUnitCount = 0 /\ (\A count \in Counts : count <= m_workerIncreaseLimit)
    => /\ m_maxWorkerCount <= m_workerIncreaseLimit
       /\ \A w \in Workers : newMax[w] <= m_workerIncreaseLimit
       /\ Len(m_workers) <= m_workerIncreaseLimit

Loaded ==
  m_maxWorkUnitCount > 0 /\ (\A x \in Works : groupOf[x] = NoGroup)
    => \A w \in Workers : /\ Len(queue[w]) <= m_maxWorkUnitCount
                          /\ w > created => queue[w] = <<>>

LimitsInv == LimitShape /\ Active /\ Ungrouped /\ Risen /\ Loaded

\* A worker that GetWorkSize counts no units of has an empty queue, and one more unit
\* than is queued is all it can count.
LEMMA WorkSize ==
  ASSUME IInv, NEW w \in Workers
  PROVE  /\ Len(queue[w]) \in Nat /\ GetWorkSize(w) \in Nat
         /\ Len(queue[w]) <= GetWorkSize(w) /\ GetWorkSize(w) <= Len(queue[w]) + 1
<1>1. Len(queue[w]) \in Nat
  BY DEF IInv, Shape
<1>2. GetWorkSize(w) = Len(queue[w]) \/ GetWorkSize(w) = Len(queue[w]) + 1
  <2>1. CASE pc[w] \in {"working", "removed"}
    BY <2>1 DEF GetWorkSize
  <2>2. CASE pc[w] \notin {"working", "removed"}
    BY <1>1, <2>2 DEF GetWorkSize
  <2>3. QED
    BY <2>1, <2>2
<1>3. QED
  BY <1>1, <1>2

LEMMA LimitsFollow == IInv /\ LimitsInv => LimitsHold
<1> SUFFICES ASSUME IInv, LimitsInv PROVE LimitsHold
  OBVIOUS
<1>1. WorkersWithinLimit
  BY DEF LimitsInv, Risen, WorkersWithinLimit
<1>2. ASSUME m_maxWorkUnitCount > 0, \A x \in Works : groupOf[x] = NoGroup, NEW w \in Workers
      PROVE  GetWorkSize(w) <= m_maxWorkUnitCount + 1
  <2>1. Len(queue[w]) <= m_maxWorkUnitCount /\ m_maxWorkUnitCount \in Nat
    BY <1>2 DEF LimitsInv, Loaded, LimitShape
  <2>2. QED
    BY <2>1, WorkSize
<1>3. UnitsExceededByOne
  BY <1>2 DEF UnitsExceededByOne
<1>4. QED
  BY <1>1, <1>3 DEF LimitsHold

\* Where no worker of the list is in use, all have terminated and are deleted.
LEMMA NoneSurvive ==
  ASSUME Hiring, Active, Usable = {}
  PROVE  Len(Survivors) = 0
<1>1. Idle = {}
  BY DEF Idle
<1>2. Met = DOMAIN m_workers
  BY <1>1 DEF Met
<1>3. \A i \in DOMAIN m_workers : Terminated(m_workers[i])
  BY DEF Active, Staff, Usable
<1>4. Staff \ Dead = {}
  BY <1>2, <1>3 DEF Staff, Dead
<1>5. Survivors \in Seq(Workers) /\ {Survivors[k] : k \in DOMAIN Survivors} = {}
  BY <1>4, SurvivorsListed DEF Hiring
<1>6. DOMAIN Survivors = {}
  BY <1>5
<1>7. QED
  BY <1>5, <1>6

\* A new worker is taken on only below the maximum.
LEMMA AllocatedBelow ==
  ASSUME IInv, Hiring, LimitsInv, Allocated \notin Staff, m_maxWorkUnitCount = 0
  PROVE  Len(Survivors) = 0 \/ Len(Survivors) < m_maxWorkerCount
<1>1. Idle = {}
  <2>1. Idle # {} => FirstIdle \in DOMAIN m_workers
    BY FirstIdleFound DEF Hiring, Idle, Usable
  <2>2. QED
    BY <2>1 DEF Allocated, Staff
<1>2. CASE Usable = {}
  BY <1>2, NoneSurvive DEF LimitsInv
<1>3. CASE Usable # {}
  <2>1. LastLeast \in DOMAIN m_workers
    BY <1>3, LastLeastFound DEF Hiring, Usable, IInv, Shape
  <2>2. MayGrow(Len(Survivors), GetWorkSize(m_workers[LastLeast]))
    BY <1>1, <1>3, <2>1 DEF Allocated, Staff
  <2>3. QED
    BY <2>2 DEF MayGrow
<1>4. QED
  BY <1>2, <1>3

\* A work is given to a worker with fewer units than the limit, unless it is new.
LEMMA AllocatedUnloaded ==
  ASSUME IInv, Hiring, LimitsInv, Allocated \in Staff, created \in Nat,
         m_maxWorkUnitCount > 0
  PROVE  Len(queue[Allocated]) < m_maxWorkUnitCount
<1>1. m_maxWorkUnitCount \in Nat
  BY DEF LimitsInv, LimitShape
<1>2. CASE Idle # {}
  <2>1. FirstIdle \in DOMAIN m_workers /\ GetWorkSize(m_workers[FirstIdle]) = 0
    BY <1>2, FirstIdleFound DEF Hiring, Idle, Usable
  <2>2. Allocated = m_workers[FirstIdle] /\ Allocated \in Workers
    BY <1>2, <2>1 DEF Allocated, Hiring, Listed
  <2>3. GetWorkSize(Allocated) = 0
    BY <2>1, <2>2
  <2>4. Len(queue[Allocated]) \in Nat /\ Len(queue[Allocated]) <= GetWorkSize(Allocated)
    BY <2>2, WorkSize
  <2>5. QED
    BY <1>1, <2>3, <2>4
<1>3. CASE Idle = {} /\ Usable # {} /\ ~MayGrow(Len(Survivors), GetWorkSize(m_workers[LastLeast]))
  <2>1. LastLeast \in DOMAIN m_workers
    BY <1>3, LastLeastFound DEF Hiring, Usable, IInv, Shape
  <2>2. Allocated = m_workers[LastLeast] /\ Allocated \in Workers
    BY <1>3, <2>1 DEF Allocated, Hiring, Listed
  <2>3. ~(GetWorkSize(m_workers[LastLeast]) >= m_maxWorkUnitCount)
    BY <1>3 DEF MayGrow
  <2>4. ~(GetWorkSize(Allocated) >= m_maxWorkUnitCount)
    BY <2>2, <2>3
  <2>5. /\ Len(queue[Allocated]) \in Nat /\ GetWorkSize(Allocated) \in Nat
        /\ Len(queue[Allocated]) <= GetWorkSize(Allocated)
    BY <2>2, WorkSize
  <2>6. QED
    BY <1>1, <2>4, <2>5
<1>4. CASE Idle = {} /\ ~(Usable # {} /\ ~MayGrow(Len(Survivors), GetWorkSize(m_workers[LastLeast])))
  <2>1. Allocated = created + 1
    BY <1>4 DEF Allocated
  <2>2. Allocated <= created
    BY DEF Hiring
  <2>3. QED
    BY <2>1, <2>2
<1>5. QED
  BY <1>2, <1>3, <1>4

\* The settings are those of the constructor.
LEMMA SettingsKept == [Next]_vars => UNCHANGED settings
<1> SUFFICES ASSUME [Next]_vars PROVE UNCHANGED settings
  OBVIOUS
<1>1. ASSUME NEW w \in Workers, WorkerStep(w) PROVE UNCHANGED settings
  BY <1>1 DEF WorkerStep, OnWorkerStarted, Dequeue, SetWorking, RemoveWork, ClearWorking,
              OnMaxWaitTime, Increase, others
<1>2. ASSUME NEW t \in Threads, \/ \E count \in Counts : SetMaxWorkers(t, count)
                                \/ Shutdown(t) \/ CallStep(t)
      PROVE  UNCHANGED settings
  BY <1>2 DEF SetMaxWorkers, Shutdown, CallStep, Reclaim, TestEmpty, TakeFront, StopWorker,
              DeleteWorker, pool
<1>3. ASSUME \/ AddUngrouped
             \/ \E g \in Groups : AddFirstOfGroup(g) \/ AddToGroup(g) \/ AddToTerminatedGroup(g)
      PROVE  UNCHANGED settings
  BY <1>3 DEF AddUngrouped, AddFirstOfGroup, AddToGroup, AddToTerminatedGroup,
              AllocateAndGive, Give
<1>4. QED
  BY <1>1, <1>2, <1>3 DEF Next, Quiet, vars

\* A pool keeps within its limits while neither its maximum nor its list grows.
LEMMA RisenKept ==
  ASSUME LimitsInv, LimitShape', UNCHANGED settings, Hiring, Hiring',
         UNCHANGED <<m_maxWorkerCount, newMax>>, Len(m_workers') <= Len(m_workers)
  PROVE  Risen'
<1>1. Len(m_workers) \in Nat /\ Len(m_workers') \in Nat
  BY DEF Hiring, Listed
<1>2. QED
  BY <1>1 DEF LimitsInv, LimitShape, Risen, settings

\* Works are given to nobody.
LEMMA LoadedKept ==
  ASSUME IInv, IInv', LimitsInv, UNCHANGED settings, UNCHANGED <<groupOf, created>>,
         \A w \in Workers : Len(queue'[w]) <= Len(queue[w])
  PROVE  Loaded'
<1> SUFFICES ASSUME m_maxWorkUnitCount > 0, \A x \in Works : groupOf[x] = NoGroup,
                    NEW w \in Workers
             PROVE  /\ Len(queue'[w]) <= m_maxWorkUnitCount
                    /\ w > created => queue'[w] = <<>>
  BY DEF Loaded, settings
<1>1. queue[w] \in Seq(Works) /\ queue'[w] \in Seq(Works) /\ m_maxWorkUnitCount \in Nat
  BY DEF IInv, Shape, LimitsInv, LimitShape
<1>2. Len(queue[w]) <= m_maxWorkUnitCount /\ (w > created => queue[w] = <<>>)
  BY DEF LimitsInv, Loaded
<1>3. w > created => Len(queue'[w]) = 0
  BY <1>1, <1>2
<1>4. QED
  BY <1>1, <1>2, <1>3

\* AddWork to a pool without a limit of units.
LEMMA AllocateRisen ==
  ASSUME IInv, Hiring, CallShape, LimitsInv, NEW g, AllocateAndGive(g)
  PROVE  Risen'
<1> SUFFICES ASSUME m_maxWorkUnitCount = 0,
                    \A count \in Counts : count <= m_workerIncreaseLimit
             PROVE  /\ m_maxWorkerCount <= m_workerIncreaseLimit
                    /\ \A w \in Workers : newMax[w] <= m_workerIncreaseLimit
                    /\ Len(m_workers') <= m_workerIncreaseLimit
  BY DEF AllocateAndGive, Give, settings, Risen
<1>1. /\ m_maxWorkerCount \in Nat /\ m_workerIncreaseLimit \in Nat \ {0}
      /\ m_maxWorkerCount <= m_workerIncreaseLimit
      /\ \A w \in Workers : newMax[w] <= m_workerIncreaseLimit
      /\ Len(m_workers) <= m_workerIncreaseLimit
  BY DEF LimitsInv, LimitShape, Risen
<1>2. created \in Nat /\ Len(m_workers) \in Nat /\ Len(Survivors) \in Nat
  <2>1. Survivors \in Seq(Workers)
    BY SurvivorsListed DEF Hiring
  <2>2. QED
    BY <2>1 DEF IInv, Shape, Hiring, Listed
<1>3. /\ Listed'
      /\ Len(m_workers') <= Len(m_workers) \/ Allocated = created + 1
      /\ Len(m_workers') <= Len(Survivors) + 1
  BY AllocatedListed DEF Hiring, IInv, Shape
<1>4. Len(m_workers') \in Nat
  BY <1>3 DEF Listed
<1>5. CASE Allocated = created + 1
  <2>1. Allocated \notin Staff
    <3>1. ~(created + 1 <= created)
      BY <1>2
    <3>2. QED
      BY <1>5, <3>1 DEF Hiring
  <2>2. Len(Survivors) = 0 \/ Len(Survivors) < m_maxWorkerCount
    BY <2>1, AllocatedBelow
  <2>3. QED
    BY <1>1, <1>2, <1>3, <1>4, <2>2
<1>6. CASE Len(m_workers') <= Len(m_workers)
  BY <1>1, <1>2, <1>4, <1>6
<1>7. QED
  BY <1>3, <1>5, <1>6

\* AddWork to a pool with one.
LEMMA AllocateLoaded ==
  ASSUME IInv, Hiring, CallShape, LimitsInv, NEW g, AllocateAndGive(g), added < MaxWorks
  PROVE  Loaded'
<1>1. /\ UNCHANGED settings
      /\ groupOf' = [groupOf EXCEPT ![added + 1] = g]
      /\ Allocated \in Workers
  BY DEF AllocateAndGive, Give
<1> SUFFICES ASSUME m_maxWorkUnitCount > 0, \A x \in Works : groupOf'[x] = NoGroup,
                    NEW w \in Workers
             PROVE  /\ Len(queue'[w]) <= m_maxWorkUnitCount
                    /\ w > created' => queue'[w] = <<>>
  BY <1>1 DEF Loaded, settings
<1>2. /\ m_maxWorkUnitCount \in Nat /\ created \in Nat /\ added \in Nat /\ w \in Nat
      /\ queue[w] \in Seq(Works) /\ added + 1 \in Works
      /\ groupOf \in [Works -> Groups \cup {NoGroup}]
  BY PoolBounds DEF LimitsInv, LimitShape, IInv, Shape, Works, Workers
<1>3. \A x \in Works : groupOf[x] = NoGroup
  <2>1. groupOf[added + 1] = NoGroup
    BY <1>2 DEF LimitsInv, Ungrouped
  <2>2. \A x \in Works : x # added + 1 => groupOf[x] = groupOf'[x]
    BY <1>1, <1>2
  <2>3. QED
    BY <2>1, <2>2
<1>4. \A v \in Workers : /\ Len(queue[v]) <= m_maxWorkUnitCount
                         /\ v > created => queue[v] = <<>>
  BY <1>3 DEF LimitsInv, Loaded
<1>5. Give(Allocated, g)
  BY DEF AllocateAndGive
<1>6. \/ Allocated \in Staff /\ created' = created
      \/ Allocated = created + 1 /\ created' = created + 1
  BY AllocateEffect
<1>7. CASE w # Allocated
  <2>1. queue'[w] = queue[w]
    BY <1>1, <1>5, <1>7, GiveEffect
  <2>2. w > created' => w > created
    BY <1>2, <1>6
  <2>3. QED
    BY <1>4, <2>1, <2>2
<1>8. CASE w = Allocated
  <2>1. ~(w > created')
    <3>1. Allocated \in Staff => Allocated <= created
      BY DEF Hiring
    <3>2. QED
      BY <1>2, <1>6, <1>8, <3>1
  <2>2. queue'[w] = queue[w] \/ queue'[w] = Append(queue[w], added + 1)
    BY <1>1, <1>5, GiveEffect
  <2>3. Len(queue[w]) \in Nat /\ Len(Append(queue[w], added + 1)) = Len(queue[w]) + 1
    BY <1>2
  <2>4. Len(queue[w]) < m_maxWorkUnitCount
    <3>1. CASE Allocated \in Staff
      BY <1>2, <1>8, <3>1, AllocatedUnloaded
    <3>2. CASE Allocated = created + 1
      <4>1. queue[w] = <<>>
        BY <1>2, <1>4, <1>8, <3>2
      <4>2. QED
        BY <1>2, <4>1
    <3>3. QED
      BY <1>6, <3>1, <3>2
  <2>5. QED
    BY <1>2, <2>1, <2>2, <2>3, <2>4
<1>9. QED
  BY <1>7, <1>8

\* AddWork: the worker it returns is on the list or new, so that nobody stops it.
LEMMA AllocateActive ==
  ASSUME IInv, Hiring, CallShape, LimitsInv, NEW g, AllocateAndGive(g), added < MaxWorks
  PROVE  LimitShape' /\ Active' /\ Ungrouped'
<1>1. /\ UNCHANGED <<settings, m_maxWorkerCount, newMax, m_shutdown, stopping>>
      /\ groupOf' = [groupOf EXCEPT ![added + 1] = g] /\ added' = added + 1
  BY DEF AllocateAndGive, Give, caller
<1>2. LimitShape'
  BY <1>1 DEF LimitsInv, LimitShape, settings
<1>3. /\ created \in Nat /\ \A w \in Workers : w \in Nat
      /\ Staff \subseteq Workers /\ \A w \in Staff : w <= created
      /\ \A w \in Workers : w > created => ~m_shutdown[w]
      /\ Allocated \in Workers
  <2>1. Staff \subseteq Workers
    BY DEF Hiring, Listed, Staff
  <2>2. \A w \in Workers : w \in Nat
    BY DEF Workers
  <2>3. QED
    BY <2>1, <2>2 DEF IInv, Shape, Hiring, LimitsInv, Active, AllocateAndGive
<1>4. /\ Staff' = (Staff \ Dead) \cup {Allocated}
      /\ \/ Allocated \in Staff /\ created' = created
         \/ Allocated = created + 1 /\ created' = created + 1
  BY AllocateEffect
<1> HIDE DEF Allocated
<1>5. ~m_shutdown[Allocated] /\ created' \in Nat /\ created <= created'
  <2>1. CASE Allocated \in Staff /\ created' = created
    BY <1>3, <2>1 DEF LimitsInv, Active
  <2>2. CASE Allocated = created + 1 /\ created' = created + 1
    BY <1>3, <2>2
  <2>3. QED
    BY <1>4, <2>1, <2>2
<1>6. Active'
  <2>1. \A w \in Staff' : ~m_shutdown[w]
    BY <1>4, <1>5 DEF LimitsInv, Active
  <2>2. ASSUME NEW t \in Threads, stopping[t] # NoWorker
        PROVE  stopping[t] \notin Staff' /\ stopping[t] <= created'
    <3>1. stopping[t] \notin Staff /\ stopping[t] <= created /\ stopping[t] \in Workers
      BY <2>2 DEF LimitsInv, Active, CallShape
    <3>2. stopping[t] \in Nat /\ stopping[t] # created + 1
      BY <1>3, <3>1
    <3>3. QED
      BY <1>3, <1>4, <1>5, <3>1, <3>2
  <2>3. \A w \in Workers : w > created' => ~m_shutdown[w]
    BY <1>3, <1>5
  <2>4. QED
    BY <1>1, <2>1, <2>2, <2>3 DEF Active
<1>7. Ungrouped'
  <2>1. added \in Nat /\ groupOf \in [Works -> Groups \cup {NoGroup}] /\ \A x \in Works : x \in Nat
    BY PoolBounds DEF IInv, Shape, Works
  <2>2. QED
    BY <1>1, <2>1 DEF LimitsInv, Ungrouped
<1>8. QED
  BY <1>2, <1>6, <1>7

\* AddWork to the worker of a known group: the pool has works of groups then.
LEMMA AddToGroupLimits ==
  ASSUME IInv, Hiring, LimitsInv, NEW g \in Groups, AddToGroup(g)
  PROVE  LimitsInv'
<1>1. /\ UNCHANGED <<settings, m_maxWorkerCount, newMax, m_shutdown, stopping, m_workers, created>>
      /\ groupOf' = [groupOf EXCEPT ![added + 1] = g] /\ added' = added + 1
      /\ added < MaxWorks
  BY DEF AddToGroup, Give, caller, MayAdd
<1>2. LimitShape' /\ Active' /\ Risen'
  BY <1>1 DEF LimitsInv, LimitShape, Active, Staff, Risen, settings
<1>3. /\ added \in Nat /\ added + 1 \in Works
      /\ groupOf \in [Works -> Groups \cup {NoGroup}] /\ \A x \in Works : x \in Nat
  BY <1>1, PoolBounds DEF IInv, Shape, Works
<1>4. Ungrouped'
  BY <1>1, <1>3 DEF LimitsInv, Ungrouped
<1>5. groupOf'[added + 1] # NoGroup
  BY <1>1, <1>3, PoolAssumption
<1>6. Loaded'
  BY <1>3, <1>5 DEF Loaded
<1>7. QED
  BY <1>2, <1>4, <1>6 DEF LimitsInv

\* A worker raises the maximum up to the limit and takes works off its queue.
LEMMA WorkerLimits ==
  ASSUME IInv, IInv', Hiring, Hiring', LimitsInv, NEW w \in Workers, WorkerStep(w)
  PROVE  LimitsInv'
<1>1. UNCHANGED <<m_workers, m_shutdown, created, stopping, settings, added, groupOf>>
  BY WorkerGoes, SettingsKept DEF WorkerStep, OnWorkerStarted, Dequeue, SetWorking, RemoveWork,
          ClearWorking, OnMaxWaitTime, Increase, others, maps, caller
<1>2. Active' /\ Ungrouped'
  BY <1>1 DEF LimitsInv, Active, Staff, Ungrouped
<1>3. Loaded'
  <2>1. ASSUME NEW v \in Workers PROVE Len(queue'[v]) <= Len(queue[v])
    <3>1. queue[v] \in Seq(Works) /\ queue \in [Workers -> Seq(Works)]
      BY DEF IInv, Shape
    <3>2. CASE UNCHANGED queue
      BY <3>1, <3>2
    <3>3. CASE queue[w] # <<>> /\ queue' = [queue EXCEPT ![w] = Tail(@)]
      BY <3>1, <3>3
    <3>4. QED
      BY <3>2, <3>3 DEF WorkerStep, OnWorkerStarted, Dequeue, SetWorking, RemoveWork,
                        ClearWorking, OnMaxWaitTime, Increase
  <2>2. QED
    BY <1>1, <2>1, LoadedKept
<1>4. LimitShape' /\ Risen'
  <2>0. /\ m_maxWorkerCount \in Nat /\ m_workerIncreaseLimit \in Nat
        /\ newMax \in [Workers -> Nat]
    BY DEF LimitsInv, LimitShape
  <2>1. CASE UNCHANGED <<m_maxWorkerCount, newMax>>
    BY <1>1, <2>1 DEF LimitsInv, LimitShape, Risen, settings
  <2>2. CASE OnMaxWaitTime(w) /\ ~UNCHANGED newMax
    <3>1. NewMaxWorkers \in Nat /\ NewMaxWorkers <= m_workerIncreaseLimit
      <4>1. (m_maxWorkerCount * 11 + 9) \div 10 \in Nat
        BY <2>0
      <4>2. QED
        BY <2>0, <4>1 DEF NewMaxWorkers, Least
    <3>2. newMax' = [newMax EXCEPT ![w] = NewMaxWorkers] /\ UNCHANGED m_maxWorkerCount
      BY <2>2 DEF OnMaxWaitTime
    <3>3. newMax' \in [Workers -> Nat]
          /\ \A v \in Workers : newMax'[v] = NewMaxWorkers \/ newMax'[v] = newMax[v]
      BY <2>0, <3>1, <3>2
    <3>4. QED
      BY <1>1, <3>1, <3>2, <3>3 DEF LimitsInv, LimitShape, Risen, settings
  <2>3. CASE Increase(w)
    <3>1. m_maxWorkerCount' = newMax[w] /\ newMax' = [newMax EXCEPT ![w] = 0]
      BY <2>3 DEF Increase
    <3>2. /\ newMax' \in [Workers -> Nat] /\ newMax[w] \in Nat
          /\ \A v \in Workers : newMax'[v] = 0 \/ newMax'[v] = newMax[v]
      BY <2>0, <3>1
    <3>3. 0 <= m_workerIncreaseLimit
      BY <2>0
    <3>4. QED
      BY <1>1, <3>1, <3>2, <3>3 DEF LimitsInv, LimitShape, Risen, settings
  <2>4. QED
    BY <2>1, <2>2, <2>3 DEF WorkerStep, OnWorkerStarted, Dequeue, SetWorking, RemoveWork,
                            ClearWorking, OnMaxWaitTime
<1>5. QED
  BY <1>2, <1>3, <1>4 DEF LimitsInv

\* SetMaxWorkers, ReclaimWorkers and Shutdown: a worker they stop has left the list.
LEMMA CallLimits ==
  ASSUME IInv, IInv', Hiring, Hiring', CallShape, LimitsInv, UNCHANGED settings,
         NEW t \in Threads,
         \/ \E count \in Counts : SetMaxWorkers(t, count)
         \/ Shutdown(t) \/ CallStep(t)
  PROVE  LimitsInv'
<1>0. /\ \A w \in Workers : w # NoWorker /\ w \in Nat
      /\ stopping \in [Threads -> Workers \cup {NoWorker}]
      /\ m_shutdown \in [Workers -> BOOLEAN]
      /\ Staff \subseteq Workers /\ \A w \in Staff : w <= created
  <2>1. Staff \subseteq Workers
    BY DEF Hiring, Listed, Staff
  <2>2. \A w \in Workers : w # NoWorker /\ w \in Nat
    BY DEF Workers, NoWorker
  <2>3. QED
    BY <2>1, <2>2 DEF CallShape, Hiring
<1>1. /\ UNCHANGED <<added, created, groupOf, newMax>>
      /\ \A w \in Workers : Len(queue'[w]) <= Len(queue[w])
  <2>1. UNCHANGED <<added, created, groupOf, newMax>>
    BY DEF SetMaxWorkers, Shutdown, CallStep, Reclaim, TestEmpty, TakeFront, StopWorker,
           DeleteWorker, pool, maps
  <2>2. ASSUME NEW w \in Workers PROVE Len(queue'[w]) <= Len(queue[w])
    <3>1. queue[w] \in Seq(Works) /\ queue \in [Workers -> Seq(Works)]
      BY DEF IInv, Shape
    <3>2. CASE UNCHANGED queue
      BY <3>1, <3>2
    <3>3. CASE queue' = [queue EXCEPT ![stopping[t]] = <<>>]
      BY <3>1, <3>3
    <3>4. QED
      BY <3>2, <3>3 DEF SetMaxWorkers, Shutdown, CallStep, Reclaim, TestEmpty, TakeFront,
                        StopWorker, DeleteWorker
  <2>3. QED
    BY <2>1, <2>2
<1>2. Ungrouped' /\ Loaded'
  BY <1>1, LoadedKept DEF LimitsInv, Ungrouped
<1>3. ASSUME UNCHANGED m_maxWorkerCount, Len(m_workers') <= Len(m_workers)
      PROVE  LimitShape' /\ Risen'
  <2>1. LimitShape'
    BY <1>1, <1>3 DEF LimitsInv, LimitShape, settings
  <2>2. QED
    BY <1>1, <1>3, <2>1, RisenKept
<1>4. ASSUME UNCHANGED <<m_shutdown, stopping>>, Staff' \subseteq Staff
      PROVE  Active'
  BY <1>1, <1>4 DEF LimitsInv, Active
<1>5. Len(m_workers) \in Nat
  BY DEF Hiring, Listed
<1>6. ASSUME NEW count \in Counts, SetMaxWorkers(t, count) PROVE LimitsInv'
  <2>1. UNCHANGED <<m_workers, m_shutdown, stopping>> /\ m_maxWorkerCount' = count /\ count \in Nat
    BY <1>6, PoolAssumption DEF SetMaxWorkers
  <2>2. Active'
    BY <1>4, <2>1 DEF Staff
  <2>3. LimitShape' /\ Risen'
    BY <1>1, <2>1 DEF LimitsInv, LimitShape, Risen, settings
  <2>4. QED
    BY <1>2, <2>2, <2>3 DEF LimitsInv
<1>7. CASE Shutdown(t) \/ TestEmpty(t)
  <2>1. UNCHANGED <<m_workers, m_shutdown, stopping, m_maxWorkerCount>>
    BY <1>7 DEF Shutdown, TestEmpty
  <2>2. Active'
    BY <1>4, <2>1 DEF Staff
  <2>3. LimitShape' /\ Risen'
    BY <1>3, <1>5, <2>1
  <2>4. QED
    BY <1>2, <2>2, <2>3 DEF LimitsInv
<1>8. ASSUME NEW w \in Staff, Staff' = Staff \ {w}, Len(m_workers') = Len(m_workers) - 1,
             stopping' = [stopping EXCEPT ![t] = w], UNCHANGED <<m_shutdown, m_maxWorkerCount>>
      PROVE  LimitsInv'
  <2>1. \A u \in Threads : stopping'[u] = w \/ stopping'[u] = stopping[u]
    BY <1>0, <1>8
  <2>2. Active'
    BY <1>0, <1>1, <1>8, <2>1 DEF LimitsInv, Active
  <2>3. LimitShape' /\ Risen'
    BY <1>3, <1>5, <1>8
  <2>4. QED
    BY <1>2, <2>2, <2>3 DEF LimitsInv
<1>9. CASE Reclaim(t)
  <2>1. UNCHANGED <<m_shutdown, m_maxWorkerCount>>
    BY <1>9 DEF Reclaim
  <2>2. CASE MayReclaim(t)
    <3>1. PICK i \in Reclaimable(t) : /\ stopping' = [stopping EXCEPT ![t] = m_workers[i]]
                                      /\ m_workers' = Without(i)
      BY <1>9, <2>2 DEF Reclaim
    <3>2. i \in DOMAIN m_workers /\ m_workers[i] \in Staff
      BY DEF Reclaimable, Staff
    <3>3. Staff' = Staff \ {m_workers[i]} /\ Len(m_workers') = Len(m_workers) - 1
      BY <3>1, <3>2, WithoutListed DEF Hiring
    <3>4. QED
      BY <1>8, <2>1, <3>1, <3>2, <3>3
  <2>3. CASE ~MayReclaim(t)
    <3>1. UNCHANGED <<m_workers, stopping>>
      BY <1>9, <2>3 DEF Reclaim
    <3>2. Active'
      BY <1>4, <2>1, <3>1 DEF Staff
    <3>3. LimitShape' /\ Risen'
      BY <1>3, <1>5, <2>1, <3>1
    <3>4. QED
      BY <1>2, <3>2, <3>3 DEF LimitsInv
  <2>4. QED
    BY <2>2, <2>3
<1>10. CASE TakeFront(t)
  <2>1. /\ m_workers # <<>> /\ m_workers' = Tail(m_workers)
        /\ stopping' = [stopping EXCEPT ![t] = Head(m_workers)]
        /\ UNCHANGED <<m_shutdown, m_maxWorkerCount>>
    BY <1>10 DEF TakeFront
  <2>2. /\ Staff' = Staff \ {Head(m_workers)} /\ Head(m_workers) \in Staff
        /\ Len(m_workers') = Len(m_workers) - 1
    BY <2>1, TailListed DEF Hiring
  <2>3. QED
    BY <1>8, <2>1, <2>2
<1>11. CASE StopWorker(t)
  <2>1. /\ UNCHANGED <<m_workers, stopping, m_maxWorkerCount>> /\ stopping[t] # NoWorker
        /\ m_shutdown' = [m_shutdown EXCEPT ![stopping[t]] = TRUE]
    BY <1>11 DEF StopWorker, caller
  <2>2. /\ stopping[t] \in Workers /\ stopping[t] \notin Staff /\ stopping[t] <= created
    BY <1>0, <2>1 DEF LimitsInv, Active
  <2>3. \A w \in Workers : w = stopping[t] \/ m_shutdown'[w] = m_shutdown[w]
    BY <1>0, <2>1
  <2>4. ~(stopping[t] > created)
    BY <1>0, <2>2 DEF IInv, Shape
  <2>5. Active'
    BY <1>0, <1>1, <2>1, <2>2, <2>3, <2>4 DEF LimitsInv, Active, Staff
  <2>6. LimitShape' /\ Risen'
    BY <1>3, <1>5, <2>1
  <2>7. QED
    BY <1>2, <2>5, <2>6 DEF LimitsInv
<1>12. CASE DeleteWorker(t)
  <2>1. /\ UNCHANGED <<m_workers, m_shutdown, m_maxWorkerCount>>
        /\ stopping' = [stopping EXCEPT ![t] = NoWorker]
    BY <1>12 DEF DeleteWorker
  <2>2. \A u \in Threads : stopping'[u] = NoWorker \/ stopping'[u] = stopping[u]
    BY <1>0, <2>1
  <2>3. Active'
    BY <1>1, <2>1, <2>2 DEF LimitsInv, Active, Staff
  <2>4. LimitShape' /\ Risen'
    BY <1>3, <1>5, <2>1
  <2>5. QED
    BY <1>2, <2>3, <2>4 DEF LimitsInv
<1>13. QED
  BY <1>6, <1>7, <1>9, <1>10, <1>11, <1>12 DEF CallStep

LEMMA StepLimits ==
  ASSUME IInv, IInv', Hiring, Hiring', CallShape, LimitsInv, [Next]_vars
  PROVE  LimitsInv'
<1>1. ASSUME NEW g \in Groups, AddToGroup(g) PROVE LimitsInv'
  BY <1>1, AddToGroupLimits
<1>2. ASSUME NEW g, AllocateAndGive(g), added < MaxWorks PROVE LimitsInv'
  BY <1>2, AllocateActive, AllocateRisen, AllocateLoaded DEF LimitsInv
<1>3. AddUngrouped \/ (\E g \in Groups : AddFirstOfGroup(g) \/ AddToTerminatedGroup(g))
        => added < MaxWorks /\ \E g : AllocateAndGive(g)
  BY DEF AddUngrouped, AddFirstOfGroup, AddToTerminatedGroup, MayAdd
<1>4. ASSUME NEW w \in Workers, WorkerStep(w) PROVE LimitsInv'
  BY <1>4, WorkerLimits
<1>5. ASSUME NEW t \in Threads, \/ \E count \in Counts : SetMaxWorkers(t, count)
                                \/ Shutdown(t) \/ CallStep(t)
      PROVE  LimitsInv'
  BY <1>5, CallLimits, SettingsKept
<1>6. CASE UNCHANGED vars
  BY <1>6 DEF vars, worker, caller, maps, settings, LimitsInv, LimitShape, Active, Staff,
              Ungrouped, Risen, Loaded
<1>7. QED
  BY <1>1, <1>2, <1>3, <1>4, <1>5, <1>6 DEF Next, Quiet

\* The constructor takes the larger of two numbers for the limit.
LEMMA InitLimits == Init => LimitsInv
<1> SUFFICES ASSUME Init PROVE LimitsInv
  OBVIOUS
<1>1. PICK limit \in IncreaseLimits : m_workerIncreaseLimit = Largest(m_maxWorkerCount, limit)
  BY DEF Init
<1>2. /\ m_maxWorkerCount \in Nat \ {0} /\ limit \in Nat
      /\ m_maxWorkUnitCount \in Nat
  BY PoolAssumption DEF Init
<1>3. /\ m_workerIncreaseLimit \in Nat \ {0}
      /\ m_maxWorkerCount <= m_workerIncreaseLimit
  BY <1>1, <1>2 DEF Largest
<1>4. /\ m_workers = <<>> /\ Staff = {} /\ Len(m_workers) = 0
      /\ queue = [w \in Workers |-> <<>>] /\ newMax = [w \in Workers |-> 0]
  BY DEF Init, Staff
<1>5. LimitShape
  BY <1>2, <1>3, <1>4 DEF LimitShape
<1>6. Active /\ Ungrouped
  BY <1>4 DEF Init, Active, Ungrouped
<1>7. Risen
  BY <1>2, <1>3, <1>4 DEF Risen
<1>8. Loaded
  BY <1>2, <1>4 DEF Loaded
<1>9. QED
  BY <1>5, <1>6, <1>7, <1>8 DEF LimitsInv

\* LimitsHold: the pool exceeds neither the limit its workers may raise the maximum to
\* nor, by more than one, the limit of units per worker.
THEOREM PoolLimitsHold == Spec => []LimitsHold
<1>1. Init => IInv /\ Hiring /\ CallShape /\ LimitsInv
  BY InitIInv, InitOrder, InitLimits
<1>2. IInv /\ Hiring /\ CallShape /\ LimitsInv /\ [Next]_vars
        => (IInv /\ Hiring /\ CallShape /\ LimitsInv)'
  BY StepIInv, HiringKept, CallShapeKept, StepLimits
<1>3. QED
  BY <1>1, <1>2, LimitsFollow, PTL DEF Spec
-----------------------------------------------------------------------------
(* No work without a group is lost before Shutdown.                         *)

\* UngroupedKept, for a pool that is not being shut down.
NoneLost == \A x \in 1..added : groupOf[x] = NoGroup
                                  => x \in done \/ \E w \in Workers : x \in HeldBy(w)

\* A worker that is being stopped had an empty queue when it left the list, and works
\* without a group go to workers of the list.
FollowersOnly == \A t \in Threads : \A w \in Workers : stopping[t] = w
                   => \A x \in QueuedAt(w) : groupOf[x] # NoGroup

WorksReclaim == \A w \in Workers : call[w] \in {"none", "reclaim"}

KeptInv == WorksReclaim /\ (~ShuttingDown => NoneLost /\ FollowersOnly)

\* Works that stay where they are, or are done.
LEMMA NoneLostKept ==
  ASSUME NoneLost, UNCHANGED <<added, groupOf>>, done \subseteq done',
         \A w \in Workers : \A x \in HeldBy(w) :
           groupOf[x] = NoGroup => x \in done' \/ x \in HeldBy(w)'
  PROVE  NoneLost'
BY DEF NoneLost

LEMMA FollowersKept ==
  ASSUME FollowersOnly, UNCHANGED groupOf,
         \A w \in Workers : QueuedAt(w)' \subseteq QueuedAt(w),
         \A t \in Threads : \A w \in Workers :
           stopping'[t] = w => stopping[t] = w \/ QueuedAt(w)' = {}
  PROVE  FollowersOnly'
BY DEF FollowersOnly

\* AddWork: the new work is in the queue of a worker that nobody stops, or has a group.
LEMMA GiveKept ==
  ASSUME IInv, CallShape, NoneLost, FollowersOnly, NEW w \in Workers, NEW g, Give(w, g),
         added < MaxWorks,
         g = NoGroup => ~m_shutdown[w] /\ \A t \in Threads : stopping[t] # w
  PROVE  NoneLost' /\ FollowersOnly'
<1> DEFINE new == added + 1
<1>1. /\ new \in Works /\ added \in Nat
      /\ \A v \in Workers : HeldBy(v) \subseteq HeldBy(v)'
      /\ new \in HeldBy(w)' \/ m_shutdown[w]
      /\ \A v \in Workers : QueuedAt(v)' \subseteq QueuedAt(v) \cup (IF v = w THEN {new} ELSE {})
  <2>1. /\ new \in Works
        /\ new \in HeldBy(w)' \/ m_shutdown[w]
        /\ \A v \in Workers : HeldBy(v) \subseteq HeldBy(v)'
    BY GiveEffect
  <2>2. ASSUME NEW v \in Workers
        PROVE  QueuedAt(v)' \subseteq QueuedAt(v) \cup (IF v = w THEN {new} ELSE {})
    <3>1. queue'[v] = queue[v] \/ (v = w /\ queue'[v] = Append(queue[v], new))
      BY GiveEffect
    <3>2. queue[v] \in Seq(Works)
      BY DEF IInv, Shape
    <3>3. CASE queue'[v] = Append(queue[v], new)
      <4>1. \A i \in DOMAIN queue'[v] : \/ i \in DOMAIN queue[v] /\ queue'[v][i] = queue[v][i]
                                        \/ queue'[v][i] = new
        BY <2>1, <3>2, <3>3
      <4>2. QED
        BY <3>1, <4>1, <2>2 DEF QueuedAt
    <3>4. QED
      BY <2>2, <3>1, <3>3 DEF QueuedAt
  <2>3. added \in Nat
    BY DEF IInv, Shape
  <2>4. QED
    BY <2>1, <2>2, <2>3
<1>2. /\ added' = new /\ UNCHANGED <<stopping, done>>
      /\ groupOf' = [groupOf EXCEPT ![new] = g]
      /\ groupOf \in [Works -> Groups \cup {NoGroup}]
  BY DEF Give, caller, IInv, Shape
<1>3. groupOf'[new] = g /\ \A x \in Works : x # new => groupOf'[x] = groupOf[x]
  BY <1>1, <1>2
<1>4. ASSUME NEW x \in 1..new, groupOf'[x] = NoGroup
      PROVE  x \in done \/ \E v \in Workers : x \in HeldBy(v)'
  <2>1. CASE x = new
    BY <1>1, <1>3, <1>4, <2>1
  <2>2. CASE x # new
    <3>1. x \in 1..added /\ x \in Works
      BY <1>1, <2>2, PoolBounds DEF Works
    <3>2. groupOf[x] = NoGroup
      BY <1>3, <1>4, <2>2, <3>1
    <3>3. QED
      BY <1>1, <3>1, <3>2 DEF NoneLost
  <2>3. QED
    BY <2>1, <2>2
<1>5. NoneLost'
  BY <1>2, <1>4 DEF NoneLost
<1>6. ASSUME NEW t \in Threads, NEW v \in Workers, stopping[t] = v, NEW x \in QueuedAt(v)'
      PROVE  groupOf'[x] # NoGroup
  <2>1. CASE x = new /\ v = w
    BY <1>3, <1>6, <2>1
  <2>2. CASE x \in QueuedAt(v)
    <3>1. x \in Works /\ x # new
      <4>1. x \in HeldBy(v)
        BY <2>2 DEF HeldBy
      <4>2. x \in Works /\ x <= added
        BY <4>1, HeldWasAdded
      <4>3. QED
        BY <1>1, <4>2
    <3>2. groupOf[x] # NoGroup
      BY <1>6, <2>2 DEF FollowersOnly
    <3>3. QED
      BY <1>3, <3>1, <3>2
  <2>3. QED
    BY <1>1, <1>6, <2>1, <2>2
<1>7. FollowersOnly'
  BY <1>2, <1>6 DEF FollowersOnly
<1>8. QED
  BY <1>5, <1>7

\* A worker holds a work until it is done.
LEMMA WorkerKept ==
  ASSUME IInv, OrderInv, CallShape, NoneLost, FollowersOnly, NEW w \in Workers, WorkerStep(w)
  PROVE  NoneLost' /\ FollowersOnly'
<1>1. /\ UNCHANGED <<added, stopping, groupOf>>
      /\ queue \in [Workers -> Seq(Works)] /\ item \in [Workers -> Works \cup {NoWork}]
  BY DEF WorkerStep, OnWorkerStarted, Dequeue, SetWorking, RemoveWork, ClearWorking,
         OnMaxWaitTime, Increase, others, maps, caller, IInv, Shape
<1>2. ASSUME done \subseteq done', \A v \in Workers : QueuedAt(v)' \subseteq QueuedAt(v),
             \A v \in Workers : \A x \in HeldBy(v) : x \in done' \/ x \in HeldBy(v)'
      PROVE  NoneLost' /\ FollowersOnly'
  <2>1. NoneLost'
    BY <1>1, <1>2, NoneLostKept
  <2>2. FollowersOnly'
    BY <1>1, <1>2, FollowersKept
  <2>3. QED
    BY <2>1, <2>2
<1>3. CASE UNCHANGED <<queue, item, done>>
  BY <1>2, <1>3 DEF HeldBy, QueuedAt
<1>4. CASE RemoveWork(w)
  <2>1. /\ done' = done \cup {item[w]} /\ UNCHANGED queue
        /\ \A v \in Workers : v = w \/ item'[v] = item[v]
    BY <1>1, <1>4 DEF RemoveWork
  <2>2. QED
    BY <1>2, <2>1 DEF HeldBy, QueuedAt
<1>5. CASE Dequeue(w) /\ ~UNCHANGED <<queue, item>>
  <2>1. /\ queue[w] # <<>> /\ queue'[w] = Tail(queue[w]) /\ item'[w] = Head(queue[w])
        /\ \A v \in Workers : v = w \/ (queue'[v] = queue[v] /\ item'[v] = item[v])
        /\ UNCHANGED done /\ pc[w] = "dequeue"
    BY <1>1, <1>5 DEF Dequeue, Goto
  <2>2. item[w] = NoWork
    BY <2>1 DEF OrderInv, Rested
  <2>3. queue[w] \in Seq(Works) /\ queue[w] # <<>>
    BY <1>1, <2>1
  <2>4. \A i \in DOMAIN queue[w] :
          i = 1 \/ (i - 1 \in DOMAIN Tail(queue[w]) /\ Tail(queue[w])[i - 1] = queue[w][i])
    BY <2>3
  <2>5. \A i \in DOMAIN Tail(queue[w]) :
          i + 1 \in DOMAIN queue[w] /\ Tail(queue[w])[i] = queue[w][i + 1]
    BY <2>3
  <2>6. Head(queue[w]) = queue[w][1] /\ Head(queue[w]) \in Works /\ NoWork \notin Works
    BY <2>3, PoolBounds DEF Works, NoWork
  <2>7. QueuedAt(w)' \subseteq QueuedAt(w)
    BY <2>1, <2>5 DEF QueuedAt
  <2>8. \A x \in HeldBy(w) : x \in HeldBy(w)'
    <3>1. ASSUME NEW x \in QueuedAt(w) PROVE x = item'[w] \/ x \in QueuedAt(w)'
      BY <2>1, <2>4, <2>6 DEF QueuedAt
    <3>2. ASSUME NEW x \in QueuedAt(w) PROVE x # NoWork
      BY <2>3, <2>6 DEF QueuedAt
    <3>3. QED
      BY <2>2, <3>1, <3>2 DEF HeldBy
  <2>9. ASSUME NEW v \in Workers, v # w
        PROVE  QueuedAt(v)' = QueuedAt(v) /\ HeldBy(v)' = HeldBy(v)
    BY <2>1, <2>9 DEF HeldBy, QueuedAt
  <2>10. \A v \in Workers : QueuedAt(v)' \subseteq QueuedAt(v)
    BY <2>7, <2>9
  <2>11. \A v \in Workers : \A x \in HeldBy(v) : x \in done' \/ x \in HeldBy(v)'
    BY <2>8, <2>9
  <2>12. QED
    BY <1>2, <2>1, <2>10, <2>11
<1>6. QED
  BY <1>3, <1>4, <1>5 DEF WorkerStep, OnWorkerStarted, Dequeue, SetWorking, ClearWorking,
                          OnMaxWaitTime, Increase

\* ReclaimWorkers takes a worker with an empty queue, and StopWorker drops works that
\* have followed their group.
LEMMA CallKept ==
  ASSUME IInv, Hiring, CallShape, NoneLost, FollowersOnly, ~ShuttingDown, WorksReclaim,
         NEW t \in Threads, (\E count \in Counts : SetMaxWorkers(t, count)) \/ CallStep(t)
  PROVE  NoneLost' /\ FollowersOnly'
<1>0. /\ UNCHANGED <<added, groupOf, item, done>>
      /\ queue \in [Workers -> Seq(Works)]
      /\ stopping \in [Threads -> Workers \cup {NoWorker}]
  BY DEF SetMaxWorkers, CallStep, Reclaim, TestEmpty, TakeFront, StopWorker, DeleteWorker,
         pool, maps, IInv, Shape, CallShape
<1>1. ASSUME UNCHANGED queue,
             \A u \in Threads : \A v \in Workers :
               stopping'[u] = v => stopping[u] = v \/ queue[v] = <<>>
      PROVE  NoneLost' /\ FollowersOnly'
  <2>1. \A w \in Workers : QueuedAt(w)' = QueuedAt(w) /\ HeldBy(w)' = HeldBy(w)
    BY <1>0, <1>1 DEF HeldBy, QueuedAt
  <2>2. NoneLost'
    BY <1>0, <2>1, NoneLostKept
  <2>3. \A v \in Workers : queue[v] = <<>> => QueuedAt(v)' = {}
    BY <1>1 DEF QueuedAt
  <2>4. FollowersOnly'
    BY <1>0, <1>1, <2>1, <2>3, FollowersKept
  <2>5. QED
    BY <2>2, <2>4
<1>2. CASE \E count \in Counts : SetMaxWorkers(t, count)
  BY <1>1, <1>2 DEF SetMaxWorkers
<1>3. CASE Reclaim(t)
  <2>1. UNCHANGED queue
    BY <1>3 DEF Reclaim
  <2>2. CASE UNCHANGED stopping
    BY <1>1, <2>1, <2>2
  <2>3. CASE \E i \in Reclaimable(t) : stopping' = [stopping EXCEPT ![t] = m_workers[i]]
    <3>1. PICK i \in Reclaimable(t) : stopping' = [stopping EXCEPT ![t] = m_workers[i]]
      BY <2>3
    <3>2. m_workers[i] \in Workers /\ GetWorkSize(m_workers[i]) = 0
      BY DEF Reclaimable, Hiring, Listed
    <3>3. queue[m_workers[i]] = <<>>
      <4>1. Len(queue[m_workers[i]]) = 0
        BY <3>2, WorkSize
      <4>2. QED
        BY <1>0, <3>2, <4>1
    <3>4. \A u \in Threads : stopping'[u] = stopping[u] \/ stopping'[u] = m_workers[i]
      BY <1>0, <3>1
    <3>5. QED
      BY <1>1, <2>1, <3>3, <3>4
  <2>4. QED
    BY <1>3, <2>2, <2>3 DEF Reclaim
<1>4. CASE TestEmpty(t) \/ TakeFront(t)
  <2>1. call[t] \in {"shutdown", "front"}
    BY <1>4 DEF TestEmpty, TakeFront
  <2>2. t \in Controllers
    BY <2>1 DEF Threads, WorksReclaim
  <2>3. QED
    BY <2>1, <2>2 DEF ShuttingDown
<1>5. CASE StopWorker(t)
  <2>1. PICK w \in Workers : /\ stopping[t] = w /\ UNCHANGED stopping
                             /\ queue' = [queue EXCEPT ![w] = <<>>]
    BY <1>0, <1>5 DEF StopWorker, caller
  <2>2. QueuedAt(w)' = {}
    BY <1>0, <2>1 DEF QueuedAt
  <2>3. ASSUME NEW v \in Workers, v # w
        PROVE  QueuedAt(v)' = QueuedAt(v) /\ HeldBy(v)' = HeldBy(v)
    <3>1. queue'[v] = queue[v]
      BY <1>0, <2>1, <2>3
    <3>2. QED
      BY <1>0, <3>1 DEF HeldBy, QueuedAt
  <2>4. \A x \in HeldBy(w) : groupOf[x] = NoGroup => x \in HeldBy(w)'
    <3>1. \A x \in QueuedAt(w) : groupOf[x] # NoGroup
      BY <2>1 DEF FollowersOnly
    <3>2. QED
      BY <1>0, <3>1 DEF HeldBy
  <2>5. NoneLost'
    BY <1>0, <2>3, <2>4, NoneLostKept
  <2>6. \A v \in Workers : QueuedAt(v)' \subseteq QueuedAt(v)
    BY <2>2, <2>3
  <2>7. FollowersOnly'
    BY <1>0, <2>1, <2>6, FollowersKept
  <2>8. QED
    BY <2>5, <2>7
<1>6. CASE DeleteWorker(t)
  <2>1. UNCHANGED queue /\ stopping' = [stopping EXCEPT ![t] = NoWorker]
    BY <1>6 DEF DeleteWorker
  <2>2. /\ \A u \in Threads : stopping'[u] \in {stopping[u], NoWorker}
        /\ NoWorker \notin Workers
    BY <1>0, <2>1 DEF Workers, NoWorker
  <2>3. QED
    BY <1>1, <2>1, <2>2
<1>7. QED
  BY <1>2, <1>3, <1>4, <1>5, <1>6 DEF CallStep

\* Works never call Shutdown, and once it has been called it stays so.
LEMMA CallsKept ==
  ASSUME CallShape, WorksReclaim, [Next]_vars
  PROVE  WorksReclaim' /\ (ShuttingDown => ShuttingDown')
<1>0. /\ call \in [Threads -> {"none", "reclaim", "shutdown", "front", "finished"}]
      /\ Workers \subseteq Threads /\ Controllers \subseteq Threads
      /\ Controllers \cap Workers = {}
  BY PoolAssumption DEF CallShape, Threads, Workers
<1>1. CASE UNCHANGED call
  BY <1>1 DEF WorksReclaim, ShuttingDown
<1>2. ASSUME NEW t \in Threads, NEW c, call' = [call EXCEPT ![t] = c],
             \/ call[t] \notin {"shutdown", "front", "finished"} /\ c \in {"none", "reclaim"}
             \/ t \in Controllers /\ c \in {"shutdown", "front", "finished"}
      PROVE  WorksReclaim' /\ (ShuttingDown => ShuttingDown')
  <2>1. \A u \in Threads : u # t => call'[u] = call[u]
    BY <1>0, <1>2
  <2>2. call'[t] = c
    BY <1>0, <1>2
  <2>3. QED
    BY <1>0, <1>2, <2>1, <2>2 DEF WorksReclaim, ShuttingDown
<1>3. ASSUME NEW t \in Threads, NEW count \in Counts, SetMaxWorkers(t, count)
      PROVE  WorksReclaim' /\ (ShuttingDown => ShuttingDown')
  <2>1. call[t] = "none"
    BY <1>3 DEF SetMaxWorkers, Free
  <2>2. \E c \in {"none", "reclaim"} : call' = [call EXCEPT ![t] = c]
    BY <1>3 DEF SetMaxWorkers
  <2>3. QED
    BY <1>2, <2>1, <2>2
<1>4. ASSUME NEW t \in Threads, Shutdown(t)
      PROVE  WorksReclaim' /\ (ShuttingDown => ShuttingDown')
  <2>1. t \in Controllers /\ call' = [call EXCEPT ![t] = "shutdown"]
    BY <1>4, PoolAssumption DEF Shutdown
  <2>2. QED
    BY <1>2, <2>1
<1>5. ASSUME NEW t \in Threads, Reclaim(t)
      PROVE  WorksReclaim' /\ (ShuttingDown => ShuttingDown')
  <2>1. call[t] = "reclaim"
    BY <1>5 DEF Reclaim
  <2>2. UNCHANGED call \/ call' = [call EXCEPT ![t] = "none"]
    BY <1>5 DEF Reclaim
  <2>3. QED
    BY <1>1, <1>2, <2>1, <2>2
<1>6. ASSUME NEW t \in Threads, TestEmpty(t) \/ TakeFront(t)
      PROVE  WorksReclaim' /\ (ShuttingDown => ShuttingDown')
  <2>1. call[t] \in {"shutdown", "front"}
    BY <1>6 DEF TestEmpty, TakeFront
  <2>2. t \in Controllers
    BY <2>1 DEF WorksReclaim, Threads
  <2>3. \E c \in {"shutdown", "front", "finished"} : call' = [call EXCEPT ![t] = c]
    BY <1>6 DEF TestEmpty, TakeFront
  <2>4. QED
    BY <1>2, <2>2, <2>3
<1>7. ASSUME NEW t \in Threads, StopWorker(t) \/ DeleteWorker(t) PROVE UNCHANGED call
  BY <1>7 DEF StopWorker, DeleteWorker, caller
<1>8. ASSUME NEW w \in Workers, WorkerStep(w) PROVE UNCHANGED call
  BY <1>8 DEF WorkerStep, OnWorkerStarted, Dequeue, SetWorking, RemoveWork, ClearWorking,
         OnMaxWaitTime, Increase, others, caller
<1>9. CASE \/ AddUngrouped
           \/ \E g \in Groups : AddFirstOfGroup(g) \/ AddToGroup(g) \/ AddToTerminatedGroup(g)
  BY <1>1, <1>9 DEF AddUngrouped, AddFirstOfGroup, AddToGroup, AddToTerminatedGroup,
                    AllocateAndGive, Give, caller
<1>10. UNCHANGED vars => UNCHANGED call
  BY DEF vars, caller
<1>11. QED
  BY <1>1, <1>3, <1>4, <1>5, <1>6, <1>7, <1>8, <1>9, <1>10 DEF Next, Quiet, CallStep

LEMMA StepKept ==
  ASSUME IInv, Hiring, CallShape, OrderInv, LimitsInv, KeptInv, [Next]_vars
  PROVE  KeptInv'
<1>1. WorksReclaim' /\ (ShuttingDown => ShuttingDown')
  BY CallsKept DEF KeptInv
<1> SUFFICES ASSUME ~ShuttingDown, ~ShuttingDown' PROVE NoneLost' /\ FollowersOnly'
  BY <1>1 DEF KeptInv
<1>2. NoneLost /\ FollowersOnly /\ WorksReclaim
  BY DEF KeptInv
<1>3. ASSUME NEW g, AllocateAndGive(g), added < MaxWorks PROVE NoneLost' /\ FollowersOnly'
  <2>1. Allocated \in Workers /\ Give(Allocated, g)
    BY <1>3 DEF AllocateAndGive
  <2>2. Allocated \in Staff \/ Allocated = created + 1
    BY <1>3, AllocateEffect
  <2> HIDE DEF Allocated
  <2>3. created \in Nat /\ Allocated \in Nat
    BY <2>1 DEF IInv, Shape, Workers
  <2>4. ~m_shutdown[Allocated] /\ \A t \in Threads : stopping[t] # Allocated
    <3>1. CASE Allocated \in Staff
      <4>1. Allocated # NoWorker
        BY <2>1 DEF Workers, NoWorker
      <4>2. QED
        BY <3>1, <4>1 DEF LimitsInv, Active
    <3>2. CASE Allocated = created + 1
      <4>1. Allocated > created /\ ~(Allocated <= created) /\ Allocated # NoWorker
        BY <2>3, <3>2 DEF NoWorker
      <4>2. QED
        BY <2>1, <4>1 DEF LimitsInv, Active
    <3>3. QED
      BY <2>2, <3>1, <3>2
  <2>5. QED
    BY <1>2, <1>3, <2>1, <2>4, GiveKept
<1>4. ASSUME NEW g \in Groups, AddToGroup(g) PROVE NoneLost' /\ FollowersOnly'
  <2>1. groupWorker[g] \in Workers /\ Give(groupWorker[g], g) /\ added < MaxWorks /\ g # NoGroup
    BY <1>4, PoolAssumption DEF AddToGroup, MayAdd, IInv, Shape, Served
  <2>2. QED
    BY <1>2, <2>1, GiveKept
<1>5. AddUngrouped \/ (\E g \in Groups : AddFirstOfGroup(g) \/ AddToTerminatedGroup(g))
        => added < MaxWorks /\ \E g : AllocateAndGive(g)
  BY DEF AddUngrouped, AddFirstOfGroup, AddToTerminatedGroup, MayAdd
<1>6. ASSUME NEW w \in Workers, WorkerStep(w) PROVE NoneLost' /\ FollowersOnly'
  BY <1>2, <1>6, WorkerKept
<1>7. ASSUME NEW t \in Threads, (\E count \in Counts : SetMaxWorkers(t, count)) \/ CallStep(t)
      PROVE  NoneLost' /\ FollowersOnly'
  BY <1>2, <1>7, CallKept
<1>8. ASSUME NEW t \in Threads, Shutdown(t) PROVE FALSE
  <2>1. t \in Controllers /\ call'[t] = "shutdown"
    BY <1>8, PoolAssumption DEF Shutdown, CallShape
  <2>2. QED
    BY <2>1 DEF ShuttingDown
<1>9. CASE UNCHANGED vars
  BY <1>2, <1>9 DEF vars, worker, caller, maps, NoneLost, FollowersOnly, HeldBy, QueuedAt
<1>10. QED
  BY <1>3, <1>4, <1>5, <1>6, <1>7, <1>8, <1>9 DEF Next, Quiet

\* WorksAccountedFor: the maps agree with each other and with the workers, so neither
\* assertion of RemoveWork fires; and whatever is reclaimed while works are added, a
\* pool that is not shut down loses no work that has no group.
THEOREM PoolAccountsForWorks == Spec => []WorksAccountedFor
<1>1. Init => IInv /\ Hiring /\ CallShape /\ OrderInv /\ LimitsInv /\ KeptInv
  <2> SUFFICES ASSUME Init PROVE KeptInv
    BY InitIInv, InitOrder, InitLimits
  <2>1. WorksReclaim
    BY DEF Init, WorksReclaim, Threads
  <2>2. added = 0 /\ \A x \in 1..0 : FALSE
    BY DEF Init
  <2>3. NoneLost
    BY <2>2 DEF NoneLost
  <2>4. FollowersOnly
    BY DEF Init, FollowersOnly, Workers, NoWorker
  <2>5. QED
    BY <2>1, <2>3, <2>4 DEF KeptInv
<1>2. IInv /\ Hiring /\ CallShape /\ OrderInv /\ LimitsInv /\ KeptInv /\ [Next]_vars
        => (IInv /\ Hiring /\ CallShape /\ OrderInv /\ LimitsInv /\ KeptInv)'
  BY StepIInv, HiringKept, CallShapeKept, StepOrder, StepLimits, StepKept
<1>3. IInv /\ KeptInv => WorksAccountedFor
  BY DEF IInv, MapsAgree, Owned, Counted, Members, KeptInv, NoneLost, UngroupedKept,
         WorksAccountedFor
<1>4. QED
  BY <1>1, <1>2, <1>3, PTL DEF Spec
=============================================================================
