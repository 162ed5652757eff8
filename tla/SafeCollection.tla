--------------------------- MODULE SafeCollection ---------------------------
(***************************************************************************)
(* PSafeObject, PSafeCollection and PSafePtr of include/ptlib/safecoll.h   *)
(* and src/ptlib/common/safecoll.cxx: a collection that owns its objects,  *)
(* users with one PSafePtr each, managers that add and remove objects and  *)
(* destroy the collection, and the timer thread that deletes what has been *)
(* removed.                                                                *)
(*                                                                         *)
(* A PSafePtr made from a collection works on a clone of it, which holds a *)
(* reference to every object and never deletes removed objects itself.     *)
(* Objects are numbered in the order they are added.  A step is what is    *)
(* done under one hold of the m_safetyMutex of an object; the lock of an   *)
(* object is the one ReadWriteMutex implements.                            *)
(***************************************************************************)
EXTENDS Naturals, FiniteSets

Modes == {"PSafeReference", "PSafeReadOnly", "PSafeReadWrite"}

CONSTANTS Users, Managers,
          Collector,        \* the thread of m_deleteObjectsTimer
          MaxObjects,       \* bound on the objects added
          LockModes,        \* the modes users ask for, of Modes
          MaxCalls,         \* bound on the calls of the users on PSafePtr
          MaxRemoveAlls     \* bound on the calls of RemoveAll

NoThread == "none"

ASSUME SafeAssumption == /\ IsFiniteSet(Users) /\ IsFiniteSet(Managers)
                         /\ Users \cap Managers = {} /\ NoThread \notin Managers
                         /\ Collector \notin Users \cup Managers
                         /\ MaxObjects \in Nat /\ MaxCalls \in Nat /\ MaxRemoveAlls \in Nat
                         /\ LockModes \subseteq Modes

VARIABLES collection, m_toBeRemoved,    \* sets of objects
          m_collectionMutex,            \* the thread that holds it
          m_safeReferenceCount, m_safelyBeingRemoved,
          added, deleted,               \* the objects that exist and existed
          life,                         \* of the collection
          pc, object,                   \* of all threads
          clone, m_lockMode,            \* of the users: the rest of their PSafePtr
          calls, removeAlls,            \* the calls so far that are bounded
          task,                         \* the call a manager is in
          awaited                       \* what RemoveAll(true) is to see deleted

Objects  == 1..MaxObjects
Cleaners == Managers \cup {Collector}
Threads  == Users \cup Cleaners
NoObject == 0

owned  == <<collection, m_toBeRemoved, m_collectionMutex, life>>
counts == <<m_safeReferenceCount, m_safelyBeingRemoved>>
memory == <<added, deleted>>
jobs   == <<task, awaited, removeAlls>>
vars   == <<owned, counts, memory, pc, object, clone, m_lockMode, calls, jobs>>

Tasks == {"none", "Remove", "RemoveAll", "RemoveAllSynchronous", "Destroy"}

Init == /\ collection = {} /\ m_toBeRemoved = {}
        /\ m_collectionMutex = NoThread
        /\ m_safeReferenceCount = [o \in Objects |-> 0]
        /\ m_safelyBeingRemoved = [o \in Objects |-> FALSE]
        /\ added = 0 /\ deleted = {}
        /\ life = "alive"
        /\ pc = [t \in Threads |-> "idle"]
        /\ object = [t \in Threads |-> NoObject]
        /\ clone = [u \in Users |-> {}]
        /\ m_lockMode = [u \in Users |-> "PSafeReference"]
        /\ calls = 0 /\ removeAlls = 0
        /\ task = [m \in Managers |-> "none"]
        /\ awaited = [m \in Managers |-> {}]

Goto(t, from, to) == pc[t] = from /\ pc' = [pc EXCEPT ![t] = to]
Hold(t, o) == object' = [object EXCEPT ![t] = o]

-----------------------------------------------------------------------------
(* PSafeObject.                                                            *)

\* SafeReference of the objects in S, which have not been removed.
SafeReference(S) ==
  m_safeReferenceCount' = [o \in Objects |-> m_safeReferenceCount[o] + IF o \in S THEN 1 ELSE 0]

SafeDereference(o) ==
  m_safeReferenceCount' = [m_safeReferenceCount EXCEPT ![o] = @ - 1]

\* What SafeDereference returns.
MayBeDeleted(o) == m_safeReferenceCount[o] = 1 /\ ~m_safelyBeingRemoved[o]

SafelyCanBeDeleted(o) == m_safelyBeingRemoved[o] /\ m_safeReferenceCount[o] = 0

-----------------------------------------------------------------------------
(* PSafePtr.                                                               *)

Call(u, to) == /\ calls < MaxCalls
               /\ calls' = calls + 1
               /\ pc' = [pc EXCEPT ![u] = to]
               /\ UNCHANGED <<owned, m_safelyBeingRemoved, memory, jobs>>

\* A step of a call of u that leaves all but the references alone.
Within(u, from, to) == /\ Goto(u, from, to)
                       /\ UNCHANGED <<owned, m_safelyBeingRemoved, memory, m_lockMode, calls, jobs>>

\* EnterSafetyMode has something to do unless the pointer only refers.
Entering(mode) == IF mode = "PSafeReference" THEN "using" ELSE "enter"

\* PSafePtr(collection, mode, idx): the collection is cloned with m_collectionMutex.
Clone(u, mode) ==
  /\ pc[u] = "idle" /\ life = "alive" /\ m_collectionMutex = NoThread
  /\ Call(u, "assign")
  /\ clone' = [clone EXCEPT ![u] = collection]
  /\ m_lockMode' = [m_lockMode EXCEPT ![u] = mode]
  /\ SafeReference(collection)
  /\ UNCHANGED object

\* Mutant: the copy does not count as a reference.
MutCopy(u, v, mode) ==
  /\ pc[u] = "idle" /\ pc[v] = "using"
  /\ ~m_safelyBeingRemoved[object[v]]
  /\ Call(u, Entering(mode))
  /\ Hold(u, object[v])
  /\ m_lockMode' = [m_lockMode EXCEPT ![u] = mode]
  /\ UNCHANGED <<clone, m_safeReferenceCount>>

\* Mutant: a pointer to an object that is being removed is copied all the same.
MutCopyRemoved(u, v, mode) ==
  /\ pc[u] = "idle" /\ pc[v] = "using"
  /\ Call(u, Entering(mode))
  /\ Hold(u, object[v])
  /\ m_lockMode' = [m_lockMode EXCEPT ![u] = mode]
  /\ SafeReference({object[v]})
  /\ UNCHANGED clone

\* PSafePtr(object) of one that another user points to, which is NULL when it
\* is being removed.
Copy(u, v, mode) ==
  /\ pc[u] = "idle" /\ pc[v] = "using"
  /\ ~m_safelyBeingRemoved[object[v]]
  /\ Call(u, Entering(mode))
  /\ Hold(u, object[v])
  /\ m_lockMode' = [m_lockMode EXCEPT ![u] = mode]
  /\ SafeReference({object[v]})
  /\ UNCHANGED clone

\* The first object of the clone after "from" that may be referenced, or none.
PointAfter(u, from) ==
  LET Found == {o \in clone[u] : o > from /\ ~m_safelyBeingRemoved[o]}
  IN  IF Found = {} THEN NoObject ELSE CHOOSE o \in Found : \A n \in Found : o <= n

\* Assign(idx), for the first object.
Assign(u) ==
  LET o == PointAfter(u, NoObject) IN
  /\ Within(u, "assign", IF o = NoObject THEN "null" ELSE Entering(m_lockMode[u]))
  /\ Hold(u, o)
  /\ SafeReference({o})
  /\ UNCHANGED clone

\* LockReadOnly and LockReadWrite, up to the wait for the lock.
Enter(u) ==
  /\ Within(u, "enter", IF m_safelyBeingRemoved[object[u]] THEN "refused" ELSE "lock")
  /\ UNCHANGED <<m_safeReferenceCount, object, clone>>

\* The pointer of which the lock was refused becomes NULL; the result of
\* SafeDereference is not looked at.
EnterFails(u) ==
  /\ Within(u, "refused", "null")
  /\ SafeDereference(object[u])
  /\ Hold(u, NoObject)
  /\ UNCHANGED clone

Locked(u) == pc[u] = "using" /\ m_lockMode[u] # "PSafeReference"

Lock(u) ==
  /\ \A v \in Users : Locked(v) /\ object[v] = object[u]
                        => m_lockMode[u] = "PSafeReadOnly" /\ m_lockMode[v] = "PSafeReadOnly"
  /\ Within(u, "lock", "using")
  /\ UNCHANGED <<m_safeReferenceCount, object, clone>>

\* The old lock is released and the new one entered.
SetSafetyMode(u, mode) ==
  /\ pc[u] = "using" /\ m_lockMode[u] # mode
  /\ Call(u, Entering(mode))
  /\ m_lockMode' = [m_lockMode EXCEPT ![u] = mode]
  /\ UNCHANGED <<m_safeReferenceCount, object, clone>>

\* Next() releases the lock and the reference of the object it leaves; that
\* stays in the clone, and the result of its SafeDereference is not looked at.
NextObject(u) ==
  LET o == PointAfter(u, object[u]) IN
  /\ pc[u] = "using" /\ clone[u] # {}
  /\ Call(u, IF o = NoObject THEN "null" ELSE Entering(m_lockMode[u]))
  /\ m_safeReferenceCount' =
       [n \in Objects |-> CASE n = object[u] -> m_safeReferenceCount[n] - 1
                            [] n = o         -> m_safeReferenceCount[n] + 1
                            [] OTHER         -> m_safeReferenceCount[n]]
  /\ Hold(u, o)
  /\ UNCHANGED <<clone, m_lockMode>>

\* Mutant: the object is deleted whenever its last reference goes.
MutRelease(u) ==
  LET Last == m_safeReferenceCount[object[u]] = 1 IN
  /\ Within(u, "using", IF Last THEN "delete" ELSE "null")
  /\ SafeDereference(object[u])
  /\ IF Last THEN UNCHANGED object ELSE Hold(u, NoObject)
  /\ UNCHANGED clone

\* SetNULL() and the destructor: ExitSafetyMode releases the lock and the reference.
Release(u) ==
  LET Last == MayBeDeleted(object[u]) IN
  /\ Within(u, "using", IF Last THEN "delete" ELSE "null")
  /\ SafeDereference(object[u])
  /\ IF Last THEN UNCHANGED object ELSE Hold(u, NoObject)
  /\ UNCHANGED clone

\* The destructor of the clone, one object after the other.
DropClone(u) ==
  \E o \in clone[u] :
    /\ \A n \in clone[u] : o <= n
    /\ Within(u, "null", IF MayBeDeleted(o) THEN "delete" ELSE "null")
    /\ SafeDereference(o)
    /\ IF MayBeDeleted(o) THEN Hold(u, o) ELSE UNCHANGED object
    /\ clone' = [clone EXCEPT ![u] = @ \ {o}]

Null(u) ==
  /\ clone[u] = {}
  /\ Goto(u, "null", "idle")
  /\ m_lockMode' = [m_lockMode EXCEPT ![u] = "PSafeReference"]
  /\ UNCHANGED <<owned, counts, memory, object, clone, calls, jobs>>

Delete(t, next) ==
  /\ Goto(t, "delete", next)
  /\ deleted' = deleted \cup {object[t]}
  /\ Hold(t, NoObject)
  /\ UNCHANGED <<owned, counts, added, clone, m_lockMode, calls, jobs>>

PtrStep(u) == \/ Assign(u) \/ Enter(u) \/ EnterFails(u) \/ Lock(u)
              \/ Release(u) \/ DropClone(u) \/ Null(u) \/ Delete(u, "null")

PtrCall(u) == \/ \E mode \in LockModes : \/ Clone(u, mode) \/ SetSafetyMode(u, mode)
                                         \/ \E v \in Users \ {u} : Copy(u, v, mode)
              \/ NextObject(u)

-----------------------------------------------------------------------------
(* PSafeCollection.                                                        *)

users == <<clone, m_lockMode, calls>>

Append(m) ==
  /\ pc[m] = "idle" /\ life = "alive" /\ m_collectionMutex = NoThread
  /\ added < MaxObjects
  /\ added' = added + 1
  /\ collection' = collection \cup {added + 1}
  /\ SafeReference({added + 1})
  /\ UNCHANGED <<m_toBeRemoved, m_collectionMutex, life, m_safelyBeingRemoved, deleted,
                 pc, object, users, jobs>>

\* SafeRemove(obj) takes the object out of the collection.
Remove(m, o) ==
  /\ life = "alive" /\ m_collectionMutex = NoThread
  /\ o \in collection
  /\ m_collectionMutex' = m
  /\ collection' = collection \ {o}
  /\ Goto(m, "idle", "mark") /\ Hold(m, o)
  /\ task' = [task EXCEPT ![m] = "Remove"]
  /\ UNCHANGED <<m_toBeRemoved, life, counts, memory, users, awaited, removeAlls>>

RemoveAll(m, synchronous) ==
  /\ life = "alive" /\ m_collectionMutex = NoThread
  /\ m_collectionMutex' = m
  /\ Goto(m, "idle", "take")
  /\ task' = [task EXCEPT ![m] = IF synchronous THEN "RemoveAllSynchronous" ELSE "RemoveAll"]
  /\ awaited' = [awaited EXCEPT ![m] = IF synchronous THEN collection \cup m_toBeRemoved ELSE {}]
  /\ removeAlls < MaxRemoveAlls
  /\ removeAlls' = removeAlls + 1
  /\ UNCHANGED <<collection, m_toBeRemoved, life, counts, memory, object, users>>

\* The destructor, which nobody calls while a function of the collection runs.
\* It stops the timer, which waits for its callback, and calls RemoveAll().
Destroy(m) ==
  /\ life = "alive"
  /\ \A c \in Cleaners : pc[c] = "idle"
  /\ life' = "destroying"
  /\ m_collectionMutex' = m
  /\ Goto(m, "idle", "take")
  /\ task' = [task EXCEPT ![m] = "Destroy"]
  /\ UNCHANGED <<collection, m_toBeRemoved, counts, memory, object, users, awaited, removeAlls>>

\* The loop of RemoveAll.
TakeNext(m) ==
  /\ \E o \in collection :
       /\ \A n \in collection : o <= n
       /\ collection' = collection \ {o}
       /\ Goto(m, "take", "mark") /\ Hold(m, o)
  /\ UNCHANGED <<m_toBeRemoved, m_collectionMutex, life, counts, memory, users, jobs>>

AllTaken(m) ==
  /\ collection = {}
  /\ Goto(m, "take", CASE task[m] = "RemoveAll" -> "idle"
                       [] task[m] = "RemoveAllSynchronous" -> "collect"
                       [] task[m] = "Destroy" -> "detach")
  /\ m_collectionMutex' = NoThread
  /\ task' = [task EXCEPT ![m] = "none"]
  /\ UNCHANGED <<collection, m_toBeRemoved, life, counts, memory, object, users, awaited, removeAlls>>

\* SafeRemoveObject: SafeRemove, then m_toBeRemoved, then SafeDereference, "to
\* avoid race condition".
Mark(m) ==
  /\ Goto(m, "mark", "append")
  /\ m_safelyBeingRemoved' = [m_safelyBeingRemoved EXCEPT ![object[m]] = TRUE]
  /\ UNCHANGED <<owned, m_safeReferenceCount, memory, object, users, jobs>>

AppendToBeRemoved(m) ==
  /\ Goto(m, "append", "dereference")
  /\ m_toBeRemoved' = m_toBeRemoved \cup {object[m]}
  /\ UNCHANGED <<collection, m_collectionMutex, life, counts, memory, object, users, jobs>>

Removed(m) ==
  /\ Hold(m, NoObject)
  /\ IF task[m] = "Remove"
     THEN /\ Goto(m, "dereference", "idle")
          /\ m_collectionMutex' = NoThread
          /\ task' = [task EXCEPT ![m] = "none"]
     ELSE Goto(m, "dereference", "take") /\ UNCHANGED <<m_collectionMutex, task>>
  /\ UNCHANGED <<collection, m_toBeRemoved, life, m_safelyBeingRemoved, memory, users,
                 awaited, removeAlls>>

\* Mutant: SafeDereference is forgotten.
MutDereference(m) == Removed(m) /\ UNCHANGED m_safeReferenceCount

Dereference(m) == Removed(m) /\ SafeDereference(object[m])

-----------------------------------------------------------------------------
(* DeleteObjectsToBeRemoved, by the timer thread and by RemoveAll(true).   *)

DeleteObjectsTimeout ==
  /\ life = "alive"
  /\ Goto(Collector, "idle", "collect")
  /\ UNCHANGED <<owned, counts, memory, object, users, jobs>>

\* With m_removalMutex an object is taken off the list; it is deleted without it.
Collect(c) ==
  /\ \E o \in m_toBeRemoved :
       /\ SafelyCanBeDeleted(o)
       /\ m_toBeRemoved' = m_toBeRemoved \ {o}
       /\ Goto(c, "collect", "delete") /\ Hold(c, o)
  /\ UNCHANGED <<collection, m_collectionMutex, life, counts, memory, users, jobs>>

\* Mutant: RemoveAll(true) calls DeleteObjectsToBeRemoved once.
MutCollected(c) ==
  /\ \A o \in m_toBeRemoved : ~SafelyCanBeDeleted(o)
  /\ Goto(c, "collect", "test")
  /\ UNCHANGED <<owned, counts, memory, object, users, jobs>>

\* What is left on the list is referenced.  RemoveAll(true) tries again.
Collected(c) ==
  /\ \A o \in m_toBeRemoved : ~SafelyCanBeDeleted(o)
  /\ IF m_toBeRemoved = {} THEN Goto(c, "collect", "test")
                           ELSE c = Collector /\ Goto(c, "collect", "idle")
  /\ UNCHANGED <<owned, counts, memory, object, users, jobs>>

\* The result is whether the collection is empty as well.
TestCollection(c) ==
  /\ m_collectionMutex = NoThread
  /\ Goto(c, "test", IF c = Collector THEN "idle"
                     ELSE IF collection = {} THEN "removed" ELSE "collect")
  /\ UNCHANGED <<owned, counts, memory, object, users, jobs>>

RemoveAllReturns(m) ==
  /\ Goto(m, "removed", "idle")
  /\ awaited' = [awaited EXCEPT ![m] = {}]
  /\ UNCHANGED <<owned, counts, memory, object, users, task, removeAlls>>

-----------------------------------------------------------------------------
(* The loop of the destructor over m_toBeRemoved.                          *)

DestroyNext(m) ==
  \E o \in m_toBeRemoved :
    /\ \A n \in m_toBeRemoved : o <= n
    /\ m_toBeRemoved' = m_toBeRemoved \ {o}
    /\ Goto(m, "detach", IF SafelyCanBeDeleted(o) THEN "delete" ELSE "forget")
    /\ Hold(m, o)
    /\ UNCHANGED <<collection, m_collectionMutex, life, counts, memory, users, jobs>>

\* The object is left to its last PSafePtr, without m_safetyMutex.
Detach(m) ==
  /\ Goto(m, "forget", "detach")
  /\ m_safelyBeingRemoved' = [m_safelyBeingRemoved EXCEPT ![object[m]] = FALSE]
  /\ Hold(m, NoObject)
  /\ UNCHANGED <<owned, m_safeReferenceCount, memory, users, jobs>>

Destroyed(m) ==
  /\ m_toBeRemoved = {}
  /\ Goto(m, "detach", "idle")
  /\ life' = "destroyed"
  /\ UNCHANGED <<collection, m_toBeRemoved, m_collectionMutex, counts, memory, object, users, jobs>>

ManagerCall(m) == \/ Append(m) \/ Destroy(m)
                  \/ \E o \in Objects : Remove(m, o)
                  \/ \E synchronous \in BOOLEAN : RemoveAll(m, synchronous)

CollectStep(c) == Collect(c) \/ Collected(c) \/ TestCollection(c)

ManagerStep(m) == \/ TakeNext(m) \/ AllTaken(m)
                  \/ Mark(m) \/ AppendToBeRemoved(m) \/ Dereference(m)
                  \/ CollectStep(m) \/ RemoveAllReturns(m)
                  \/ DestroyNext(m) \/ Detach(m) \/ Destroyed(m)
                  \/ Delete(m, IF life = "alive" THEN "collect" ELSE "detach")

CollectorStep == DeleteObjectsTimeout \/ CollectStep(Collector) \/ Delete(Collector, "collect")

Next == \/ \E u \in Users : PtrCall(u) \/ PtrStep(u)
        \/ \E m \in Managers : ManagerCall(m) \/ ManagerStep(m)
        \/ CollectorStep

Spec == Init /\ [][Next]_vars

\* The threads run, the timer keeps firing and a PSafePtr goes out of scope.
FairSpec == /\ Spec
            /\ \A u \in Users : WF_vars(PtrStep(u))
            /\ \A m \in Managers : WF_vars(ManagerStep(m))
            /\ WF_vars(CollectorStep)

-----------------------------------------------------------------------------
TypeOK ==
  /\ collection \subseteq Objects /\ m_toBeRemoved \subseteq Objects
  /\ m_collectionMutex \in Managers \cup {NoThread}
  /\ m_safeReferenceCount \in [Objects -> Nat]
  /\ m_safelyBeingRemoved \in [Objects -> BOOLEAN]
  /\ added \in 0..MaxObjects /\ deleted \subseteq 1..added
  /\ life \in {"alive", "destroying", "destroyed"}
  /\ pc \in [Threads -> {"idle", "assign", "enter", "refused", "lock", "using",
                         "null", "delete", "take", "mark", "append",
                         "dereference", "collect", "test", "removed", "detach", "forget"}]
  /\ object \in [Threads -> Objects \cup {NoObject}]
  /\ clone \in [Users -> SUBSET Objects] /\ m_lockMode \in [Users -> Modes]
  /\ calls \in 0..MaxCalls /\ removeAlls \in 0..MaxRemoveAlls
  /\ task \in [Managers -> Tasks] /\ awaited \in [Managers -> SUBSET Objects]

Deleting(o) == {t \in Threads : pc[t] = "delete" /\ object[t] = o}

\* The references to an object: the collection's, until SafeRemoveObject has
\* given it up, those of the clones and those of the pointers.
Holders(o) ==
  {u \in Users : object[u] = o /\ pc[u] \in {"enter", "refused", "lock", "using"}}
Clones(o) == {u \in Users : o \in clone[u]}
Owners(o) == {m \in Managers : object[m] = o /\ pc[m] \in {"mark", "append", "dereference"}}

\* m_safeReferenceCount of an object is the number of references to it that
\* exist, whatever the order in which pointers, clones and removals come and go.
CountsMatch ==
  \A o \in Objects : m_safeReferenceCount[o] =
     Cardinality(Holders(o)) + Cardinality(Clones(o)) + Cardinality(Owners(o))
       + (IF o \in collection THEN 1 ELSE 0)

\* An object is deleted once, by one thread, and when nothing refers to it any
\* more: no pointer, no clone, not the collection and not its list of removals.
DeletedOnceUnreferenced ==
  \A o \in Objects : o \in deleted \/ Deleting(o) # {} =>
     /\ Cardinality(Deleting(o)) = IF o \in deleted THEN 0 ELSE 1
     /\ o \notin collection \cup m_toBeRemoved \cup UNION {clone[u] : u \in Users}
     /\ \A t \in Threads \ Deleting(o) : object[t] # o

\* RemoveAll(true), "wait till objects are deleted before returning": when it
\* returns what was in the collection is deleted, except what another thread
\* is just deleting.
RemovalAwaited ==
  \A m \in Managers : pc[m] = "removed"
     => \A o \in awaited[m] : o \in deleted \/ Deleting(o) # {}

\* An object that has been removed is deleted in the end, or the collection is
\* destroyed.
RemovedIsDeleted ==
  \A o \in Objects : o \in m_toBeRemoved ~> o \in deleted \/ life # "alive"

\* From when SafeRemove has marked an object its references only go: whatever is
\* copied, cloned, locked again or stepped through with Next() in between, nobody gets
\* one anew, and so nobody can keep the object for ever with calls that go on.
NotTakenAnew ==
  [][\A o \in Objects : m_safelyBeingRemoved[o] /\ m_safelyBeingRemoved'[o]
                           => m_safeReferenceCount'[o] <= m_safeReferenceCount[o]]_vars

\* What RemoveAll(true) and the timer count on, however long they have to try.
RemovedGoesForGood == RemovedIsDeleted /\ NotTakenAnew

\* "If anything still has a PSafePtr, detach it from the collection so will be
\* deleted when that PSafePtr finally goes out of scope": what the destructor
\* leaves is referenced or being deleted.
DetachedIsDeleted ==
  life = "destroyed" => \A o \in 1..added \ deleted :
                           m_safeReferenceCount[o] > 0 \/ Deleting(o) # {}
=============================================================================
