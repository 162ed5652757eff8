------------------------ MODULE SafeCollectionProofs ------------------------
(***************************************************************************)
(* Objects of a PSafeCollection are deleted once and only when nothing     *)
(* refers to them, for any number of users, managers and objects.          *)
(*                                                                         *)
(* m_safeReferenceCount is the number of references there are (CountsMatch). *)
(* So whoever sees the last one go knows that no other pointer, clone or   *)
(* removal has the object. That it is not on the list of removals either is *)
(* what m_safelyBeingRemoved says of it, because an object is in the       *)
(* collection, in the hands of one manager or on the list (Custody). The   *)
(* flag is taken back by the destructor alone, from objects that are in no *)
(* hands but its own, since whoever destroys the collection is the last to *)
(* use it (Alone).                                                         *)
(*                                                                         *)
(* For RemoveAll(true), AwaitInv follows what it has to see removed from   *)
(* place to place: in the collection, whose mutex the caller holds or      *)
(* waits for, in its hands, on the list of removals, at last deleted or    *)
(* with the thread that deletes it.                                        *)
(*                                                                         *)
(* That nobody takes a removed object anew rests on MarkedIsOut: a marked  *)
(* object has left the collection, so that no clone made later has it, and *)
(* all other ways to a reference look at the mark first.                   *)
(***************************************************************************)
EXTENDS SafeCollection, FiniteSetTheorems, WellFoundedInduction, TLAPS

Holding  == {"enter", "refused", "lock", "using"}
Removing == {"mark", "append", "dereference"}
PCs == {"idle", "assign", "null", "delete", "take", "collect", "test", "removed", "detach",
        "forget"} \cup Holding \cup Removing
Taking == {"RemoveAll", "RemoveAllSynchronous", "Destroy"}

Tables == /\ added \in Nat /\ added <= MaxObjects
          /\ collection \subseteq 1..added /\ m_toBeRemoved \subseteq 1..added
          /\ m_safeReferenceCount \in [Objects -> Int]
          /\ m_safelyBeingRemoved \in [Objects -> BOOLEAN]
          /\ deleted \subseteq 1..added
          /\ clone \in [Users -> SUBSET (1..added)]
Places == /\ pc \in [Threads -> PCs]
          /\ object \in [Threads -> 0..added]
          /\ task \in [Managers -> Tasks]
          /\ life \in {"alive", "destroying", "destroyed"}
Shape  == Tables /\ Places

\* A user without a PSafePtr has no clone of the collection.
IdleHasNoClone == \A u \in Users : pc[u] = "idle" => clone[u] = {}

\* Who has an object in hand, and what for.
InHand == /\ \A u \in Users : object[u] # NoObject <=> pc[u] \in Holding \cup {"delete"}
          /\ \A c \in Cleaners : object[c] # NoObject
               <=> pc[c] \in Removing \cup {"forget", "delete"}
          /\ pc[Collector] \in {"idle", "collect", "test", "delete"}

Holds(u, o) == object[u] = o /\ pc[u] \in Holding
Owns(m, o)  == object[m] = o /\ pc[m] \in Removing

\* A manager that takes an object from the collection, or forgets it, is the only
\* one to have it, and nobody clears its flag while it is on the list.
Hands(o) == {m \in Managers : object[m] = o /\ pc[m] \in Removing \cup {"forget"}}
Custody == \A o \in Objects :
  /\ o \in collection => o \notin m_toBeRemoved
  /\ o \in m_toBeRemoved => m_safelyBeingRemoved[o]
  /\ \A m \in Hands(o) : /\ o \notin collection
                         /\ o \in m_toBeRemoved => pc[m] = "dereference"
                         /\ pc[m] # "mark" => m_safelyBeingRemoved[o]
                         /\ \A n \in Hands(o) : n = m

\* From the destructor on no other thread is in a function of the collection.
InTask == \A m \in Managers :
  /\ pc[m] = "take" => task[m] \in Taking
  /\ pc[m] \in Removing => task[m] # "none"
  /\ task[m] = "Destroy" => life # "alive"
  /\ pc[m] \in {"detach", "forget"} => life # "alive"
Alone == life # "alive" => \E m \in Managers : \A c \in Cleaners \ {m} : pc[c] = "idle"

Dead(o) == o \in deleted \/ Deleting(o) # {}
Once == \A o \in Objects :
  /\ o \in deleted => Deleting(o) = {}
  /\ \A s, t \in Deleting(o) : s = t
  /\ Dead(o) => /\ o \notin collection /\ o \notin m_toBeRemoved
                /\ \A u \in Users : o \notin clone[u]
                /\ \A t \in Threads : object[t] = o => pc[t] = "delete"

IInv == /\ Shape /\ IdleHasNoClone /\ InHand /\ CountsMatch /\ Custody
        /\ InTask /\ Alone /\ Once

USE DEF Holding, Removing, PCs, Taking, NoObject, Objects

UserStep(u) == PtrCall(u) \/ PtrStep(u)
CleanerStep(c) == IF c = Collector THEN CollectorStep
                  ELSE ManagerCall(c) \/ ManagerStep(c)

\* A step changes the place and the object of one thread.
OnlyMoves(t) == \A s \in Threads \ {t} : pc'[s] = pc[s] /\ object'[s] = object[s]

\* Users, managers and the timer thread are different threads.
LEMMA ThreadsDiffer == /\ Users \cap Cleaners = {} /\ Collector \in Cleaners \ Managers
                       /\ Threads = Users \cup Cleaners /\ Managers \subseteq Cleaners
BY SafeAssumption DEF Threads, Cleaners

\* Every step of the system is a step of a user or of a cleaner.
LEMMA NextIsAStep ==
  ASSUME [Next]_vars
  PROVE  \/ \E u \in Users : UserStep(u)
         \/ \E c \in Cleaners : CleanerStep(c)
         \/ UNCHANGED vars
BY ThreadsDiffer DEF Next, UserStep, CleanerStep

\* The invariant holds of the empty collection.
LEMMA InitIInv == Init => IInv
<1> SUFFICES ASSUME Init PROVE IInv
  OBVIOUS
<1>1. Shape
  BY SafeAssumption DEF Init, Shape, Tables, Places, Tasks
<1>2. \A o \in Objects : Holders(o) = {} /\ Clones(o) = {} /\ Owners(o) = {} /\ Deleting(o) = {} /\ Hands(o) = {}
  BY ThreadsDiffer DEF Init, Holders, Clones, Owners, Deleting, Hands
<1>3. CountsMatch
  <2>1. ASSUME NEW o \in Objects
        PROVE  /\ Cardinality(Holders(o)) = 0 /\ Cardinality(Clones(o)) = 0
               /\ Cardinality(Owners(o)) = 0
    BY <1>2, FS_EmptySet
  <2>2. QED
    BY <2>1 DEF Init, CountsMatch
<1>4. IdleHasNoClone /\ InHand
  BY ThreadsDiffer DEF Init, IdleHasNoClone, InHand
<1>5. Custody /\ Once
  BY <1>2 DEF Init, Custody, Once, Dead
<1>6. InTask /\ Alone
  BY ThreadsDiffer DEF Init, InTask, Alone
<1>7. QED
  BY <1>1, <1>3, <1>4, <1>5, <1>6 DEF IInv

\* A step of a user leaves the places of all other threads alone.
LEMMA UserMoves == ASSUME Shape, NEW u \in Users, UserStep(u) PROVE OnlyMoves(u)
<1> USE DEF Shape, Places, OnlyMoves, Hold, Goto, Within, Call
<1>1. CASE PtrCall(u)
  BY <1>1 DEF PtrCall, Clone, Copy, SetSafetyMode, NextObject
<1>2. CASE PtrStep(u)
  BY <1>2 DEF PtrStep, Assign, Enter, EnterFails, Lock, Release, DropClone, Null, Delete
<1>3. QED
  BY <1>1, <1>2 DEF UserStep

\* A step of a manager or of the timer thread leaves the places of all others alone.
LEMMA CleanerMoves == ASSUME Shape, NEW c \in Cleaners, CleanerStep(c) PROVE OnlyMoves(c)
<1> USE DEF Shape, Places, OnlyMoves, Hold, Goto
<1>1. CASE c = Collector /\ CollectorStep
  BY <1>1 DEF CollectorStep, DeleteObjectsTimeout, CollectStep, Collect, Collected,
              TestCollection, Delete
<1>2. CASE ManagerCall(c)
  BY <1>2 DEF ManagerCall, Append, Destroy, Remove, RemoveAll
<1>3. CASE ManagerStep(c)
  BY <1>3 DEF ManagerStep, TakeNext, AllTaken, Mark, AppendToBeRemoved, Dereference, Removed,
              CollectStep, Collect, Collected, TestCollection, RemoveAllReturns, DestroyNext,
              Detach, Destroyed, Delete
<1>4. QED
  BY <1>1, <1>2, <1>3 DEF CleanerStep

-----------------------------------------------------------------------------
\* A set of natural numbers that is not empty has a least element.
LEMMA LeastExists == ASSUME NEW S \in SUBSET Nat, S # {} PROVE \E x \in S : \A y \in S : x <= y
<1>1. \E x \in S : \A y \in S : ~(<<y, x>> \in OpToRel(<, Nat))
  BY NatLessThanWellFounded, WFMin
<1>2. \A x, y \in Nat : <<y, x>> \in OpToRel(<, Nat) <=> y < x
  BY DEF OpToRel
<1>3. PICK x \in S : \A y \in S : ~(<<y, x>> \in OpToRel(<, Nat))
  BY <1>1
<1>4. \A y \in S : ~(y < x)
  BY <1>2, <1>3
<1>5. QED
  BY <1>4

\* PSafePtrBase::Next ends on an object of the clone, or on none.
LEMMA PointAfterFound ==
  ASSUME IInv, NEW u \in Users, NEW from \in Int
  PROVE  \/ PointAfter(u, from) = NoObject
         \/ PointAfter(u, from) \in clone[u] /\ PointAfter(u, from) > from
<1> DEFINE Found == {o \in clone[u] : o > from /\ ~m_safelyBeingRemoved[o]}
<1>1. CASE Found = {}
  BY <1>1 DEF PointAfter
<1>2. CASE Found # {}
  <2>1. Found \in SUBSET Nat
    BY DEF IInv, Shape, Tables
  <2>2. \E x \in Found : \A y \in Found : x <= y
    BY <1>2, <2>1, LeastExists
  <2>3. QED
    BY <1>2, <2>2 DEF PointAfter
<1>3. QED
  BY <1>1, <1>2

\* Steps of users keep the types.
LEMMA UserShape ==
  ASSUME IInv, NEW u \in Users, UserStep(u)
  PROVE  Shape'
<1>1. added \in Nat /\ added <= MaxObjects
  BY DEF IInv, Shape, Tables, Places
<1>2. collection \subseteq 1..added /\ m_toBeRemoved \subseteq 1..added
  BY DEF IInv, Shape, Tables, Places
<1>3. m_safeReferenceCount \in [Objects -> Int]
  BY DEF IInv, Shape, Tables, Places
<1>4. m_safelyBeingRemoved \in [Objects -> BOOLEAN]
  BY DEF IInv, Shape, Tables, Places
<1>5. deleted \subseteq 1..added
  BY DEF IInv, Shape, Tables, Places
<1>6. clone \in [Users -> SUBSET (1..added)]
  BY DEF IInv, Shape, Tables, Places
<1>7. pc \in [Threads -> PCs]
  BY DEF IInv, Shape, Tables, Places
<1>8. object \in [Threads -> 0..added]
  BY DEF IInv, Shape, Tables, Places
<1>9. task \in [Managers -> Tasks] /\ life \in {"alive", "destroying", "destroyed"}
  BY DEF IInv, Shape, Tables, Places
<1> USE DEF Goto, Hold, Within, Call, owned, counts, memory, jobs, users, Tasks,
           SafeReference, SafeDereference, Entering, UserStep
<1>10. ASSUME NEW from \in Int PROVE PointAfter(u, from) \in clone[u] \cup {0}
  BY PointAfterFound
<1>21. pc[u] = "delete" => object[u] # 0
  BY DEF IInv, InHand
<1>11. added' \in Nat /\ added' <= MaxObjects
  BY <1>1, SafeAssumption, ThreadsDiffer
     DEF PtrCall, PtrStep, Clone, Copy, SetSafetyMode, NextObject, Assign, Enter,
         EnterFails, Lock, Release, DropClone, Null, Delete
<1>12. collection' \subseteq 1..added' /\ m_toBeRemoved' \subseteq 1..added'
  BY <1>1, <1>2, <1>8, ThreadsDiffer
     DEF PtrCall, PtrStep, Clone, Copy, SetSafetyMode, NextObject, Assign, Enter,
         EnterFails, Lock, Release, DropClone, Null, Delete
<1>13. m_safeReferenceCount' \in [Objects -> Int]
  BY <1>3, ThreadsDiffer
     DEF PtrCall, PtrStep, Clone, Copy, SetSafetyMode, NextObject, Assign, Enter,
         EnterFails, Lock, Release, DropClone, Null, Delete
<1>14. m_safelyBeingRemoved' \in [Objects -> BOOLEAN]
  BY <1>4, ThreadsDiffer
     DEF PtrCall, PtrStep, Clone, Copy, SetSafetyMode, NextObject, Assign, Enter,
         EnterFails, Lock, Release, DropClone, Null, Delete
<1>15. deleted' \subseteq 1..added'
  BY <1>1, <1>5, <1>8, ThreadsDiffer, <1>21
     DEF PtrCall, PtrStep, Clone, Copy, SetSafetyMode, NextObject, Assign, Enter,
         EnterFails, Lock, Release, DropClone, Null, Delete
<1>16. clone' \in [Users -> SUBSET (1..added')]
  BY <1>1, <1>2, <1>6, ThreadsDiffer
     DEF PtrCall, PtrStep, Clone, Copy, SetSafetyMode, NextObject, Assign, Enter,
         EnterFails, Lock, Release, DropClone, Null, Delete
<1>17. pc' \in [Threads -> PCs]
  BY <1>7, <1>9, ThreadsDiffer
     DEF PtrCall, PtrStep, Clone, Copy, SetSafetyMode, NextObject, Assign, Enter,
         EnterFails, Lock, Release, DropClone, Null, Delete
<1>18. object' \in [Threads -> 0..added']
  BY <1>1, <1>2, <1>6, <1>8, <1>10, ThreadsDiffer
     DEF PtrCall, PtrStep, Clone, Copy, SetSafetyMode, NextObject, Assign, Enter,
         EnterFails, Lock, Release, DropClone, Null, Delete
<1>19. task' \in [Managers -> Tasks] /\ life' \in {"alive", "destroying", "destroyed"}
  BY <1>9, ThreadsDiffer
     DEF PtrCall, PtrStep, Clone, Copy, SetSafetyMode, NextObject, Assign, Enter,
         EnterFails, Lock, Release, DropClone, Null, Delete
<1>20. QED
  BY <1>11, <1>12, <1>13, <1>14, <1>15, <1>16, <1>17, <1>18, <1>19
     DEF Shape, Tables, Places

\* Steps of managers and of the timer thread keep the types.
LEMMA CleanerShape ==
  ASSUME IInv, NEW c \in Cleaners, CleanerStep(c)
  PROVE  Shape'
<1>1. added \in Nat /\ added <= MaxObjects
  BY DEF IInv, Shape, Tables, Places
<1>2. collection \subseteq 1..added /\ m_toBeRemoved \subseteq 1..added
  BY DEF IInv, Shape, Tables, Places
<1>3. m_safeReferenceCount \in [Objects -> Int]
  BY DEF IInv, Shape, Tables, Places
<1>4. m_safelyBeingRemoved \in [Objects -> BOOLEAN]
  BY DEF IInv, Shape, Tables, Places
<1>5. deleted \subseteq 1..added
  BY DEF IInv, Shape, Tables, Places
<1>6. clone \in [Users -> SUBSET (1..added)]
  BY DEF IInv, Shape, Tables, Places
<1>7. pc \in [Threads -> PCs]
  BY DEF IInv, Shape, Tables, Places
<1>8. object \in [Threads -> 0..added]
  BY DEF IInv, Shape, Tables, Places
<1>9. task \in [Managers -> Tasks] /\ life \in {"alive", "destroying", "destroyed"}
  BY DEF IInv, Shape, Tables, Places
<1> USE DEF Goto, Hold, Within, Call, owned, counts, memory, jobs, users, Tasks,
           SafeReference, SafeDereference, Entering, CleanerStep
<1>10. /\ pc[c] = "take" /\ c \in Managers => task[c] \in Taking
       /\ c # Collector => c \in Managers
       /\ pc[c] \in {"append", "delete"} => object[c] # 0
  BY DEF IInv, InTask, InHand, Cleaners
<1>11. added' \in Nat /\ added' <= MaxObjects
  BY <1>1, SafeAssumption, ThreadsDiffer
     DEF CollectorStep, DeleteObjectsTimeout, CollectStep, Collect, Collected,
         TestCollection, Delete, ManagerCall, Append, Destroy, Remove, RemoveAll,
         ManagerStep, TakeNext, AllTaken, Mark, AppendToBeRemoved, Dereference, Removed,
         RemoveAllReturns, DestroyNext, Detach, Destroyed
<1>12. collection' \subseteq 1..added' /\ m_toBeRemoved' \subseteq 1..added'
  <2>1. CASE c \in Managers /\ Append(c)
    BY <2>1, <1>1, <1>2, <1>8, ThreadsDiffer DEF Append
  <2>2. CASE Destroy(c) \/ \E synchronous \in BOOLEAN : RemoveAll(c, synchronous)
    BY <2>2, <1>1, <1>2, <1>8, ThreadsDiffer DEF Destroy, RemoveAll
  <2>3. CASE \E o \in Objects : Remove(c, o)
    BY <2>3, <1>1, <1>2, <1>8, ThreadsDiffer DEF Remove
  <2>4. CASE TakeNext(c) \/ AllTaken(c)
    BY <2>4, <1>1, <1>2, <1>8, ThreadsDiffer DEF TakeNext, AllTaken
  <2>5. CASE AppendToBeRemoved(c)
    <3>1. object[c] \in 1..added
      BY <2>5, <1>1, <1>8, <1>10, ThreadsDiffer DEF AppendToBeRemoved
    <3>2. QED
      BY <2>5, <3>1, <1>2 DEF AppendToBeRemoved
  <2>6. CASE Mark(c) \/ Dereference(c) \/ RemoveAllReturns(c)
    BY <2>6, <1>1, <1>2, <1>8, ThreadsDiffer
       DEF Mark, Dereference, Removed, RemoveAllReturns
  <2>7. CASE DestroyNext(c) \/ Detach(c) \/ Destroyed(c)
    BY <2>7, <1>1, <1>2, <1>8, ThreadsDiffer DEF DestroyNext, Detach, Destroyed
  <2>8. CASE \E next \in PCs : Delete(c, next)
    BY <2>8, <1>1, <1>2, <1>8, ThreadsDiffer DEF Delete
  <2>9. CASE CollectStep(c) \/ CollectorStep
    BY <2>9, <1>1, <1>2, <1>8, ThreadsDiffer
       DEF CollectorStep, DeleteObjectsTimeout, CollectStep, Collect, Collected,
           TestCollection, Delete
  <2>10. QED
    BY <2>1, <2>2, <2>3, <2>4, <2>5, <2>6, <2>7, <2>8, <2>9, <1>10
       DEF ManagerCall, ManagerStep
<1>13. m_safeReferenceCount' \in [Objects -> Int]
  BY <1>3, ThreadsDiffer
     DEF CollectorStep, DeleteObjectsTimeout, CollectStep, Collect, Collected,
         TestCollection, Delete, ManagerCall, Append, Destroy, Remove, RemoveAll,
         ManagerStep, TakeNext, AllTaken, Mark, AppendToBeRemoved, Dereference, Removed,
         RemoveAllReturns, DestroyNext, Detach, Destroyed
<1>14. m_safelyBeingRemoved' \in [Objects -> BOOLEAN]
  BY <1>4, ThreadsDiffer
     DEF CollectorStep, DeleteObjectsTimeout, CollectStep, Collect, Collected,
         TestCollection, Delete, ManagerCall, Append, Destroy, Remove, RemoveAll,
         ManagerStep, TakeNext, AllTaken, Mark, AppendToBeRemoved, Dereference, Removed,
         RemoveAllReturns, DestroyNext, Detach, Destroyed
<1>15. deleted' \subseteq 1..added'
  BY <1>1, <1>5, <1>8, ThreadsDiffer, <1>10
     DEF CollectorStep, DeleteObjectsTimeout, CollectStep, Collect, Collected,
         TestCollection, Delete, ManagerCall, Append, Destroy, Remove, RemoveAll,
         ManagerStep, TakeNext, AllTaken, Mark, AppendToBeRemoved, Dereference, Removed,
         RemoveAllReturns, DestroyNext, Detach, Destroyed
<1>16. clone' \in [Users -> SUBSET (1..added')]
  BY <1>1, <1>2, <1>6, ThreadsDiffer
     DEF CollectorStep, DeleteObjectsTimeout, CollectStep, Collect, Collected,
         TestCollection, Delete, ManagerCall, Append, Destroy, Remove, RemoveAll,
         ManagerStep, TakeNext, AllTaken, Mark, AppendToBeRemoved, Dereference, Removed,
         RemoveAllReturns, DestroyNext, Detach, Destroyed
<1>17. pc' \in [Threads -> PCs]
  BY <1>7, <1>9, <1>10, ThreadsDiffer
     DEF CollectorStep, DeleteObjectsTimeout, CollectStep, Collect, Collected,
         TestCollection, Delete, ManagerCall, Append, Destroy, Remove, RemoveAll,
         ManagerStep, TakeNext, AllTaken, Mark, AppendToBeRemoved, Dereference, Removed,
         RemoveAllReturns, DestroyNext, Detach, Destroyed
<1>18. object' \in [Threads -> 0..added']
  BY <1>1, <1>2, <1>6, <1>8, ThreadsDiffer
     DEF CollectorStep, DeleteObjectsTimeout, CollectStep, Collect, Collected,
         TestCollection, Delete, ManagerCall, Append, Destroy, Remove, RemoveAll,
         ManagerStep, TakeNext, AllTaken, Mark, AppendToBeRemoved, Dereference, Removed,
         RemoveAllReturns, DestroyNext, Detach, Destroyed
<1>19. task' \in [Managers -> Tasks] /\ life' \in {"alive", "destroying", "destroyed"}
  BY <1>9, ThreadsDiffer
     DEF CollectorStep, DeleteObjectsTimeout, CollectStep, Collect, Collected,
         TestCollection, Delete, ManagerCall, Append, Destroy, Remove, RemoveAll,
         ManagerStep, TakeNext, AllTaken, Mark, AppendToBeRemoved, Dereference, Removed,
         RemoveAllReturns, DestroyNext, Detach, Destroyed
<1>20. QED
  BY <1>11, <1>12, <1>13, <1>14, <1>15, <1>16, <1>17, <1>18, <1>19
     DEF Shape, Tables, Places

\* A user has an object in hand exactly in the places that deal with one.
LEMMA UserInHand ==
  ASSUME IInv, NEW u \in Users, UserStep(u)
  PROVE  InHand' /\ IdleHasNoClone'
<1>1. /\ pc \in [Threads -> PCs] /\ object \in [Threads -> 0..added] /\ added \in Nat
      /\ clone \in [Users -> SUBSET (1..added)]
      /\ u \in Threads /\ u \notin Cleaners
  BY ThreadsDiffer DEF IInv, Shape, Tables, Places
<1>2. OnlyMoves(u)
  BY UserMoves DEF IInv
<1>3. /\ object[u] # NoObject <=> pc[u] \in Holding \cup {"delete"}
      /\ pc[u] = "idle" => clone[u] = {}
      /\ \A v \in Users : object[v] # NoObject <=> pc[v] \in Holding \cup {"delete"}
  BY DEF IInv, InHand, IdleHasNoClone
<1> USE DEF Goto, Hold, Within, Call, Entering
<1>4. \A v \in Users \ {u} : clone'[v] = clone[v]
  BY <1>1 DEF UserStep, PtrCall, PtrStep, Clone, Copy, SetSafetyMode, NextObject, Assign,
     Enter, EnterFails, Lock, Release, DropClone, Null, Delete
<1>5. /\ object'[u] # NoObject <=> pc'[u] \in Holding \cup {"delete"}
      /\ pc'[u] = "idle" => clone'[u] = {}
  <2>1. CASE \E mode \in LockModes : Clone(u, mode) \/ SetSafetyMode(u, mode)
    BY <2>1, <1>1, <1>3 DEF Clone, SetSafetyMode
  <2>2. CASE \E mode \in LockModes : \E v \in Users \ {u} : Copy(u, v, mode)
    BY <2>2, <1>1, <1>3, ThreadsDiffer DEF Copy
  <2>3. CASE NextObject(u)
    BY <2>3, <1>1, <1>3 DEF NextObject
  <2>4. CASE Assign(u)
    BY <2>4, <1>1, <1>3 DEF Assign
  <2>5. CASE Enter(u) \/ EnterFails(u) \/ Lock(u) \/ Release(u)
    BY <2>5, <1>1, <1>3 DEF Enter, EnterFails, Lock, Release
  <2>6. CASE DropClone(u)
    BY <2>6, <1>1, <1>3 DEF DropClone
  <2>7. CASE Null(u) \/ Delete(u, "null")
    BY <2>7, <1>1, <1>3 DEF Null, Delete
  <2>8. QED
    BY <2>1, <2>2, <2>3, <2>4, <2>5, <2>6, <2>7 DEF UserStep, PtrCall, PtrStep
<1>6. IdleHasNoClone'
  BY <1>2, <1>4, <1>5, ThreadsDiffer DEF IInv, IdleHasNoClone, OnlyMoves
<1>7. InHand'
  BY <1>2, <1>5, ThreadsDiffer DEF IInv, InHand, OnlyMoves
<1>8. QED
  BY <1>6, <1>7

\* So has a manager or the timer thread, and a task goes with its places.
LEMMA CleanerInHand ==
  ASSUME IInv, NEW c \in Cleaners, CleanerStep(c)
  PROVE  InHand' /\ IdleHasNoClone' /\ InTask'
<1>1. /\ pc \in [Threads -> PCs] /\ object \in [Threads -> 0..added] /\ added \in Nat
      /\ task \in [Managers -> Tasks] /\ collection \subseteq 1..added
      /\ m_toBeRemoved \subseteq 1..added
      /\ c \in Threads /\ c \notin Users /\ (c # Collector => c \in Managers)
  BY ThreadsDiffer DEF IInv, Shape, Tables, Places, Cleaners
<1>2. OnlyMoves(c)
  BY CleanerMoves DEF IInv
<1>3. /\ object[c] # NoObject <=> pc[c] \in Removing \cup {"forget", "delete"}
      /\ pc[Collector] \in {"idle", "collect", "test", "delete"}
  BY DEF IInv, InHand
<1>4. c # Collector => /\ pc[c] = "take" => task[c] \in Taking
                       /\ pc[c] \in Removing => task[c] # "none"
                       /\ task[c] = "Destroy" => life # "alive"
                       /\ pc[c] \in {"detach", "forget"} => life # "alive"
  BY <1>1 DEF IInv, InTask
<1> USE DEF Goto, Hold, Tasks
<1>5. /\ clone' = clone
      /\ life # "alive" => life' # "alive"
      /\ \A m \in Managers \ {c} : task'[m] = task[m]
  BY <1>1 DEF CleanerStep, CollectorStep, DeleteObjectsTimeout, CollectStep, Collect, Collected,
     TestCollection, Delete, ManagerCall, Append, Destroy, Remove, RemoveAll, ManagerStep,
     TakeNext, AllTaken, Mark, AppendToBeRemoved, Dereference, Removed, RemoveAllReturns,
     DestroyNext, Detach, Destroyed, users, owned, jobs
<1> USE DEF owned, jobs
<1>6. CASE c = Collector /\ CollectorStep
  <2>1. /\ object'[c] # NoObject <=> pc'[c] = "delete"
        /\ pc'[c] \in {"idle", "collect", "test", "delete"}
    BY <1>1, <1>3, <1>6 DEF CollectorStep, DeleteObjectsTimeout, CollectStep, Collect, Collected,
       TestCollection, Delete
  <2>2. InHand'
    BY <1>2, <1>6, <2>1, ThreadsDiffer DEF IInv, InHand, OnlyMoves
  <2>3. IdleHasNoClone' /\ InTask'
    BY <1>2, <1>5, <1>6, ThreadsDiffer DEF IInv, IdleHasNoClone, InTask, OnlyMoves
  <2>4. QED
    BY <2>2, <2>3
<1>7. CASE c \in Managers /\ (ManagerCall(c) \/ ManagerStep(c))
  <2>1. /\ object'[c] # NoObject <=> pc'[c] \in Removing \cup {"forget", "delete"}
        /\ pc'[c] = "take" => task'[c] \in Taking
        /\ pc'[c] \in Removing => task'[c] # "none"
        /\ task'[c] = "Destroy" => life' # "alive"
        /\ pc'[c] \in {"detach", "forget"} => life' # "alive"
    <3> USE <1>1, <1>3, <1>4, <1>7, ThreadsDiffer
    <3>1. CASE Append(c) \/ Destroy(c)
      BY <3>1 DEF Append, Destroy
    <3>2. CASE \E o \in Objects : Remove(c, o)
      BY <3>2 DEF Remove
    <3>3. CASE \E synchronous \in BOOLEAN : RemoveAll(c, synchronous)
      BY <3>3 DEF RemoveAll
    <3>4. CASE TakeNext(c)
      BY <3>4 DEF TakeNext
    <3>5. CASE AllTaken(c)
      BY <3>5 DEF AllTaken
    <3>6. CASE Mark(c) \/ AppendToBeRemoved(c)
      BY <3>6 DEF Mark, AppendToBeRemoved
    <3>7. CASE Dereference(c)
      BY <3>7 DEF Dereference, Removed
    <3>8. CASE CollectStep(c) \/ RemoveAllReturns(c)
      BY <3>8 DEF CollectStep, Collect, Collected, TestCollection, RemoveAllReturns
    <3>9. CASE DestroyNext(c)
      BY <3>9 DEF DestroyNext
    <3>10. CASE Detach(c) \/ Destroyed(c)
      BY <3>10 DEF Detach, Destroyed
    <3>11. CASE Delete(c, IF life = "alive" THEN "collect" ELSE "detach")
      BY <3>11 DEF Delete
    <3>12. QED
      BY <3>1, <3>2, <3>3, <3>4, <3>5, <3>6, <3>7, <3>8, <3>9, <3>10, <3>11
         DEF ManagerCall, ManagerStep
  <2>2. InHand'
    BY <1>2, <1>7, <2>1, ThreadsDiffer DEF IInv, InHand, OnlyMoves
  <2>3. InTask'
    BY <1>2, <1>5, <1>7, <2>1, ThreadsDiffer DEF IInv, InTask, OnlyMoves
  <2>4. IdleHasNoClone'
    BY <1>2, <1>5, <1>7, ThreadsDiffer DEF IInv, IdleHasNoClone, OnlyMoves
  <2>5. QED
    BY <2>2, <2>3, <2>4
<1>8. QED
  BY <1>1, <1>6, <1>7 DEF CleanerStep

\* A thread that is idle in the life of the destructor has nothing to call.
LEMMA StepAlone == ASSUME IInv, NEW c \in Cleaners, CleanerStep(c) PROVE Alone'
<1>1. /\ pc \in [Threads -> PCs] /\ c \in Threads /\ (c # Collector => c \in Managers)
  BY ThreadsDiffer DEF IInv, Shape, Places, Cleaners
<1>2. OnlyMoves(c)
  BY CleanerMoves DEF IInv
<1>3. CASE life = "alive" /\ life' = "alive"
  BY <1>3 DEF Alone
<1>4. CASE life = "alive" /\ life' # "alive"
  <2>1. c \in Managers /\ \A d \in Cleaners : pc[d] = "idle"
    <3>1. c \in Managers /\ (Destroy(c) \/ Destroyed(c))
      BY <1>1, <1>4 DEF CleanerStep, CollectorStep, DeleteObjectsTimeout, CollectStep, Collect,
         Collected, TestCollection, Delete, ManagerCall, Append, Remove, RemoveAll, ManagerStep,
         TakeNext, AllTaken, Mark, AppendToBeRemoved, Dereference, Removed, RemoveAllReturns,
         DestroyNext, Detach, owned
    <3>2. ~Destroyed(c)
      BY <1>4, <3>1 DEF IInv, InTask, Destroyed, Goto
    <3>3. QED
      BY <3>1, <3>2 DEF Destroy
  <2>2. QED
    BY <1>2, <2>1, ThreadsDiffer DEF Alone, OnlyMoves
<1>5. CASE life # "alive"
  <2>1. pc[c] # "idle"
    <3>1. CASE c = Collector
      BY <1>5, <3>1 DEF CleanerStep, CollectorStep, DeleteObjectsTimeout, CollectStep, Collect,
         Collected, TestCollection, Delete, Goto
    <3>2. CASE c # Collector
      BY <1>5, <3>2 DEF CleanerStep, ManagerCall, Append, Destroy, Remove, RemoveAll, ManagerStep,
         TakeNext, AllTaken, Mark, AppendToBeRemoved, Dereference, Removed, CollectStep, Collect,
         Collected, TestCollection, RemoveAllReturns, DestroyNext, Detach, Destroyed, Delete, Goto
    <3>3. QED
      BY <3>1, <3>2
  <2>2. PICK m \in Managers : \A d \in Cleaners \ {m} : pc[d] = "idle"
    BY <1>5 DEF IInv, Alone
  <2>3. m = c
    BY <2>1, <2>2
  <2>4. QED
    BY <1>2, <2>2, <2>3, ThreadsDiffer DEF Alone, OnlyMoves
<1>6. QED
  BY <1>3, <1>4, <1>5

-----------------------------------------------------------------------------
One(b) == IF b THEN 1 ELSE 0

\* What refers to an object is finite in number.
LEMMA ReferencesFinite ==
  ASSUME NEW o
  PROVE  /\ IsFiniteSet(Holders(o)) /\ IsFiniteSet(Clones(o)) /\ IsFiniteSet(Owners(o))
         /\ IsFiniteSet(Holders(o)') /\ IsFiniteSet(Clones(o)') /\ IsFiniteSet(Owners(o)')
<1>1. /\ Holders(o) \in SUBSET Users /\ Clones(o) \in SUBSET Users
      /\ Holders(o)' \in SUBSET Users /\ Clones(o)' \in SUBSET Users
      /\ Owners(o) \in SUBSET Managers /\ Owners(o)' \in SUBSET Managers
  BY DEF Holders, Clones, Owners
<1>2. QED
  BY <1>1, SafeAssumption, FS_Subset

\* A set that changes in one element changes its cardinality by that element.
LEMMA OneElement ==
  ASSUME NEW S, IsFiniteSet(S), NEW T, NEW x, \A y : y # x => (y \in S <=> y \in T)
  PROVE  /\ Cardinality(S) \in Nat /\ Cardinality(T) \in Nat
         /\ Cardinality(T) = Cardinality(S) + One(x \in T) - One(x \in S)
<1>1. Cardinality(S) \in Nat
  BY FS_CardinalityType
<1>2. CASE x \in T
  <2>1. T = S \cup {x}
    BY <1>2
  <2>2. Cardinality(T) = IF x \in S THEN Cardinality(S) ELSE Cardinality(S) + 1
    BY <2>1, FS_AddElement
  <2>3. QED
    BY <1>1, <1>2, <2>2 DEF One
<1>3. CASE x \notin T
  <2>1. T = S \ {x} /\ IsFiniteSet(T)
    BY <1>3, FS_RemoveElement
  <2>2. Cardinality(T) \in Nat
    BY <2>1, FS_CardinalityType
  <2>3. QED
    BY <1>1, <1>3, <2>1, <2>2, FS_RemoveElement DEF One
<1>4. QED
  BY <1>2, <1>3

\* The count follows what a step of one user or one manager does to its references.
LEMMA UserCounts ==
  ASSUME IInv, NEW u \in Users, UserStep(u),
         \A v \in Users \ {u} : clone'[v] = clone[v], collection' = collection,
         \A o \in Objects : m_safeReferenceCount'[o] =
            m_safeReferenceCount[o] + One(Holds(u, o)') - One(Holds(u, o))
              + One(o \in clone'[u]) - One(o \in clone[u])
  PROVE  CountsMatch'
<1> SUFFICES ASSUME NEW o \in Objects
             PROVE  m_safeReferenceCount'[o] =
                      Cardinality(Holders(o)') + Cardinality(Clones(o)') + Cardinality(Owners(o)')
                        + (IF o \in collection' THEN 1 ELSE 0)
  BY DEF CountsMatch
<1>1. OnlyMoves(u)
  BY UserMoves DEF IInv
<1>2. Owners(o)' = Owners(o)
  BY <1>1, ThreadsDiffer DEF OnlyMoves, Owners
<1>3. /\ Cardinality(Holders(o)) \in Nat /\ Cardinality(Holders(o)') \in Nat
      /\ Cardinality(Holders(o)') = Cardinality(Holders(o)) + One(u \in Holders(o)') - One(u \in Holders(o))
  <2>1. \A y : y # u => (y \in Holders(o) <=> y \in Holders(o)')
    BY <1>1, ThreadsDiffer DEF OnlyMoves, Holders
  <2>2. QED
    BY <2>1, ReferencesFinite, OneElement
<1>4. /\ Cardinality(Clones(o)) \in Nat /\ Cardinality(Clones(o)') \in Nat
      /\ Cardinality(Clones(o)') = Cardinality(Clones(o)) + One(u \in Clones(o)') - One(u \in Clones(o))
  <2>1. \A y : y # u => (y \in Clones(o) <=> y \in Clones(o)')
    BY DEF Clones
  <2>2. QED
    BY <2>1, ReferencesFinite, OneElement
<1>5. /\ u \in Holders(o) <=> Holds(u, o)
      /\ u \in Holders(o)' <=> Holds(u, o)'
      /\ u \in Clones(o) <=> o \in clone[u]
      /\ u \in Clones(o)' <=> o \in clone'[u]
  BY DEF Holders, Holds, Clones
<1>6. Cardinality(Owners(o)) \in Nat
  BY ReferencesFinite, FS_CardinalityType
<1>7. m_safeReferenceCount[o] =
        Cardinality(Holders(o)) + Cardinality(Clones(o)) + Cardinality(Owners(o))
          + (IF o \in collection THEN 1 ELSE 0)
  BY DEF IInv, CountsMatch
<1>8. QED
  BY <1>2, <1>3, <1>4, <1>5, <1>6, <1>7 DEF One

\* The count follows what a step of a manager or the timer thread does.
LEMMA CleanerCounts ==
  ASSUME IInv, NEW c \in Cleaners, CleanerStep(c), clone' = clone,
         \A o \in Objects : m_safeReferenceCount'[o] =
            m_safeReferenceCount[o] + One((c \in Managers /\ Owns(c, o))')
              - One(c \in Managers /\ Owns(c, o))
              + One(o \in collection') - One(o \in collection)
  PROVE  CountsMatch'
<1> SUFFICES ASSUME NEW o \in Objects
             PROVE  m_safeReferenceCount'[o] =
                      Cardinality(Holders(o)') + Cardinality(Clones(o)') + Cardinality(Owners(o)')
                        + (IF o \in collection' THEN 1 ELSE 0)
  BY DEF CountsMatch
<1>1. OnlyMoves(c)
  BY CleanerMoves DEF IInv
<1>2. Holders(o)' = Holders(o) /\ Clones(o)' = Clones(o)
  BY <1>1, ThreadsDiffer DEF OnlyMoves, Holders, Clones
<1>3. /\ Cardinality(Owners(o)) \in Nat /\ Cardinality(Owners(o)') \in Nat
      /\ Cardinality(Owners(o)') = Cardinality(Owners(o)) + One(c \in Owners(o)') - One(c \in Owners(o))
  <2>1. \A y : y # c => (y \in Owners(o) <=> y \in Owners(o)')
    BY <1>1, ThreadsDiffer DEF OnlyMoves, Owners
  <2>2. QED
    BY <2>1, ReferencesFinite, OneElement
<1>4. /\ c \in Owners(o) <=> c \in Managers /\ Owns(c, o)
      /\ c \in Owners(o)' <=> (c \in Managers /\ Owns(c, o))'
  BY DEF Owners, Owns
<1>5. Cardinality(Holders(o)) \in Nat /\ Cardinality(Clones(o)) \in Nat
  BY ReferencesFinite, FS_CardinalityType
<1>6. m_safeReferenceCount[o] =
        Cardinality(Holders(o)) + Cardinality(Clones(o)) + Cardinality(Owners(o))
          + (IF o \in collection THEN 1 ELSE 0)
  BY DEF IInv, CountsMatch
<1>7. QED
  BY <1>2, <1>3, <1>4, <1>5, <1>6 DEF One

\* Steps of users keep the counts and the references equal.
LEMMA UserCountsMatch == ASSUME IInv, NEW u \in Users, UserStep(u) PROVE CountsMatch'
<1>1. /\ pc \in [Threads -> PCs] /\ object \in [Threads -> 0..added] /\ added \in Nat
      /\ clone \in [Users -> SUBSET (1..added)] /\ added <= MaxObjects
      /\ collection \subseteq 1..added
      /\ m_safeReferenceCount \in [Objects -> Int]
      /\ u \in Threads /\ MaxObjects \in Nat
  BY ThreadsDiffer, SafeAssumption DEF IInv, Shape, Tables, Places
<1>2. pc[u] = "idle" => clone[u] = {}
  BY DEF IInv, IdleHasNoClone
<1> USE DEF Goto, Hold, Within, Call, Entering, owned, Holds, One, SafeReference, SafeDereference
<1>3. /\ \A v \in Users \ {u} : clone'[v] = clone[v]
      /\ collection' = collection
  BY <1>1 DEF UserStep, PtrCall, PtrStep, Clone, Copy, SetSafetyMode, NextObject, Assign,
     Enter, EnterFails, Lock, Release, DropClone, Null, Delete
<1>4. ASSUME NEW o \in Objects
      PROVE  m_safeReferenceCount'[o] =
               m_safeReferenceCount[o] + One(Holds(u, o)') - One(Holds(u, o))
                 + One(o \in clone'[u]) - One(o \in clone[u])
  <2>1. CASE \E mode \in LockModes : Clone(u, mode)
    BY <2>1, <1>1, <1>2 DEF Clone
  <2>2. CASE \E mode \in LockModes : SetSafetyMode(u, mode)
    BY <2>2, <1>1 DEF SetSafetyMode, counts
  <2>3. CASE \E mode \in LockModes : \E v \in Users \ {u} : Copy(u, v, mode)
    BY <2>3, <1>1 DEF Copy
  <2>4. CASE NextObject(u)
    <3>1. PointAfter(u, object[u]) = 0 \/ PointAfter(u, object[u]) > object[u]
      BY <1>1, PointAfterFound
    <3>2. PointAfter(u, object[u]) \in 0..added
      BY <1>1, PointAfterFound
    <3>3. QED
      BY <2>4, <1>1, <3>1, <3>2 DEF NextObject
  <2>5. CASE Assign(u)
    BY <2>5, <1>1 DEF Assign
  <2>6. CASE Enter(u) \/ Lock(u)
    BY <2>6, <1>1 DEF Enter, Lock
  <2>7. CASE EnterFails(u)
    BY <2>7, <1>1 DEF EnterFails
  <2>8. CASE Release(u)
    BY <2>8, <1>1 DEF Release
  <2>9. CASE DropClone(u)
    BY <2>9, <1>1 DEF DropClone
  <2>10. CASE Null(u) \/ Delete(u, "null")
    <3>1. CASE Null(u)
      BY <3>1, <1>1 DEF Null, counts
    <3>2. CASE Delete(u, "null")
      <4>1. /\ pc[u] = "delete" /\ pc' = [pc EXCEPT ![u] = "null"]
            /\ m_safeReferenceCount' = m_safeReferenceCount /\ clone' = clone
        BY <3>2 DEF Delete, counts
      <4>2. QED
        BY <4>1, <1>1
    <3>3. QED
      BY <2>10, <3>1, <3>2
  <2>11. QED
    BY <2>1, <2>2, <2>3, <2>4, <2>5, <2>6, <2>7, <2>8, <2>9, <2>10 DEF UserStep, PtrCall, PtrStep
<1>5. QED
  BY <1>3, <1>4, UserCounts

\* Steps of managers and of the timer thread keep them equal.
LEMMA CleanerCountsMatch == ASSUME IInv, NEW c \in Cleaners, CleanerStep(c) PROVE CountsMatch'
<1>1. /\ pc \in [Threads -> PCs] /\ object \in [Threads -> 0..added] /\ added \in Nat
      /\ added <= MaxObjects /\ MaxObjects \in Nat
      /\ collection \subseteq 1..added /\ m_toBeRemoved \subseteq 1..added
      /\ m_safeReferenceCount \in [Objects -> Int]
      /\ c \in Threads /\ (c # Collector => c \in Managers)
  BY ThreadsDiffer, SafeAssumption DEF IInv, Shape, Tables, Places, Cleaners
<1> USE DEF Goto, Hold, owned, counts, users, Owns, One, SafeReference, SafeDereference
<1>2. clone' = clone
  BY <1>1 DEF CleanerStep, CollectorStep, DeleteObjectsTimeout, CollectStep, Collect, Collected,
     TestCollection, Delete, ManagerCall, Append, Destroy, Remove, RemoveAll, ManagerStep,
     TakeNext, AllTaken, Mark, AppendToBeRemoved, Dereference, Removed, RemoveAllReturns,
     DestroyNext, Detach, Destroyed
<1>3. ASSUME NEW o \in Objects
      PROVE  m_safeReferenceCount'[o] =
               m_safeReferenceCount[o] + One((c \in Managers /\ Owns(c, o))')
                 - One(c \in Managers /\ Owns(c, o))
                 + One(o \in collection') - One(o \in collection)
  <2>1. CASE c = Collector /\ CollectorStep
    BY <2>1, <1>1, ThreadsDiffer DEF CollectorStep, DeleteObjectsTimeout, CollectStep, Collect,
       Collected, TestCollection, Delete
  <2>2. CASE c \in Managers /\ Append(c)
    BY <2>2, <1>1 DEF Append
  <2>3. CASE c \in Managers /\ \E n \in Objects : Remove(c, n)
    BY <2>3, <1>1 DEF Remove
  <2>4. CASE c \in Managers /\ (Destroy(c) \/ \E synchronous \in BOOLEAN : RemoveAll(c, synchronous))
    <3>1. CASE c \in Managers /\ Destroy(c)
      BY <3>1, <1>1 DEF Destroy
    <3>2. CASE c \in Managers /\ \E synchronous \in BOOLEAN : RemoveAll(c, synchronous)
      BY <3>2, <1>1 DEF RemoveAll
    <3>3. QED
      BY <2>4, <3>1, <3>2
  <2>5. CASE c \in Managers /\ TakeNext(c)
    BY <2>5, <1>1 DEF TakeNext
  <2>6. CASE c \in Managers /\ AllTaken(c)
    BY <2>6, <1>1 DEF AllTaken, IInv, InTask
  <2>7. CASE c \in Managers /\ (Mark(c) \/ AppendToBeRemoved(c))
    BY <2>7, <1>1 DEF Mark, AppendToBeRemoved
  <2>8. CASE c \in Managers /\ Dereference(c)
    BY <2>8, <1>1 DEF Dereference, Removed
  <2>9. CASE c \in Managers /\ (CollectStep(c) \/ RemoveAllReturns(c))
    <3>1. CASE CollectStep(c)
      <4>1. CASE Collect(c)
        BY <2>9, <4>1, <1>1 DEF Collect
      <4>2. CASE Collected(c)
        BY <2>9, <4>2, <1>1 DEF Collected
      <4>3. CASE TestCollection(c)
        BY <2>9, <4>3, <1>1 DEF TestCollection
      <4>4. QED
        BY <3>1, <4>1, <4>2, <4>3 DEF CollectStep
    <3>2. CASE RemoveAllReturns(c)
      BY <2>9, <3>2, <1>1 DEF RemoveAllReturns
    <3>3. QED
      BY <2>9, <3>1, <3>2
  <2>10. CASE c \in Managers /\ (DestroyNext(c) \/ Detach(c) \/ Destroyed(c))
    <3>1. CASE DestroyNext(c)
      BY <2>10, <3>1, <1>1 DEF DestroyNext
    <3>2. CASE Detach(c)
      BY <2>10, <3>2, <1>1 DEF Detach
    <3>3. CASE Destroyed(c)
      BY <2>10, <3>3, <1>1 DEF Destroyed
    <3>4. QED
      BY <2>10, <3>1, <3>2, <3>3
  <2>11. CASE c \in Managers /\ Delete(c, IF life = "alive" THEN "collect" ELSE "detach")
    BY <2>11, <1>1 DEF Delete
  <2>12. QED
    BY <1>1, <2>1, <2>2, <2>3, <2>4, <2>5, <2>6, <2>7, <2>8, <2>9, <2>10, <2>11
       DEF CleanerStep, ManagerCall, ManagerStep
<1>4. QED
  BY <1>2, <1>3, CleanerCounts

-----------------------------------------------------------------------------
\* Users change nothing of what the collection and its managers hold.
LEMMA UserLeaves ==
  ASSUME IInv, NEW u \in Users, UserStep(u)
  PROVE  Custody' /\ InTask' /\ Alone'
<1>1. OnlyMoves(u)
  BY UserMoves DEF IInv
<1>2. UNCHANGED <<collection, m_toBeRemoved, m_safelyBeingRemoved, life, task>>
  BY DEF UserStep, PtrCall, PtrStep, Clone, Copy, SetSafetyMode, NextObject, Assign, Enter,
     EnterFails, Lock, Release, DropClone, Null, Delete, Within, Call, owned, counts, jobs
<1>3. \A c \in Cleaners : pc'[c] = pc[c] /\ object'[c] = object[c]
  BY <1>1, ThreadsDiffer DEF OnlyMoves
<1>4. \A o : Hands(o)' = Hands(o)
  BY <1>3, ThreadsDiffer DEF Hands
<1>5. \A o : \A m \in Hands(o) : m \in Cleaners
  BY ThreadsDiffer DEF Hands
<1>6. Custody'
  BY <1>2, <1>3, <1>4, <1>5 DEF IInv, Custody
<1>7. InTask' /\ Alone'
  BY <1>2, <1>3, ThreadsDiffer DEF IInv, InTask, Alone
<1>8. QED
  BY <1>6, <1>7

\* A manager passes an object on from the collection to the list in its own hands.
LEMMA CleanerCustody == ASSUME IInv, NEW c \in Cleaners, CleanerStep(c) PROVE Custody'
<1>1. /\ pc \in [Threads -> PCs] /\ object \in [Threads -> 0..added] /\ added \in Nat
      /\ collection \subseteq 1..added /\ m_toBeRemoved \subseteq 1..added
      /\ m_safelyBeingRemoved \in [Objects -> BOOLEAN]
      /\ c \in Threads /\ (c # Collector => c \in Managers) /\ Managers \subseteq Threads
  BY ThreadsDiffer DEF IInv, Shape, Tables, Places, Cleaners
<1>2. OnlyMoves(c)
  BY CleanerMoves DEF IInv
<1>3. object[c] # NoObject <=> pc[c] \in Removing \cup {"forget", "delete"}
  BY DEF IInv, InHand
<1> SUFFICES ASSUME NEW o \in Objects
             PROVE  /\ o \in collection' => o \notin m_toBeRemoved'
                    /\ o \in m_toBeRemoved' => m_safelyBeingRemoved'[o]
                    /\ \A m \in Hands(o)' :
                         /\ o \notin collection'
                         /\ o \in m_toBeRemoved' => pc'[m] = "dereference"
                         /\ pc'[m] # "mark" => m_safelyBeingRemoved'[o]
                         /\ \A n \in Hands(o)' : n = m
  BY DEF Custody
<1>4. /\ o \in collection => o \notin m_toBeRemoved
      /\ o \in m_toBeRemoved => m_safelyBeingRemoved[o]
      /\ \A m \in Hands(o) : /\ o \notin collection
                             /\ o \in m_toBeRemoved => pc[m] = "dereference"
                             /\ pc[m] # "mark" => m_safelyBeingRemoved[o]
                             /\ \A n \in Hands(o) : n = m
  BY DEF IInv, Custody
<1>5. \A m : m # c => (m \in Hands(o)' <=> m \in Hands(o)) /\ (m \in Hands(o) => pc'[m] = pc[m])
  BY <1>1, <1>2 DEF OnlyMoves, Hands
<1>6. /\ c \in Hands(o) <=> c \in Managers /\ object[c] = o /\ pc[c] \in Removing \cup {"forget"}
      /\ c \in Hands(o)' <=> c \in Managers /\ object'[c] = o /\ pc'[c] \in Removing \cup {"forget"}
  BY DEF Hands
<1>7. o # NoObject
  OBVIOUS
<1> USE DEF Goto, Hold, owned, counts
<1>8. CASE /\ UNCHANGED <<collection, m_toBeRemoved, m_safelyBeingRemoved>>
           /\ c \notin Hands(o) /\ c \notin Hands(o)'
  BY <1>4, <1>5, <1>8
<1>9. CASE \/ CollectStep(c) \/ RemoveAllReturns(c) \/ Destroyed(c)
           \/ c = Collector /\ DeleteObjectsTimeout
  <2>1. /\ UNCHANGED <<collection, m_safelyBeingRemoved>> /\ m_toBeRemoved' \subseteq m_toBeRemoved
        /\ c \notin Hands(o) /\ c \notin Hands(o)'
    <3>1. c \notin Hands(o)
      BY <1>6, <1>9 DEF CollectStep, Collect, Collected, TestCollection, DeleteObjectsTimeout,
         RemoveAllReturns, Destroyed
    <3>2. CASE Collect(c)
      BY <1>1, <1>6, <3>1, <3>2 DEF Collect
    <3>3. CASE \/ Collected(c) \/ TestCollection(c)
               \/ c = Collector /\ DeleteObjectsTimeout
      BY <1>1, <1>6, <3>1, <3>3, ThreadsDiffer DEF Collected, TestCollection, DeleteObjectsTimeout
    <3>4. CASE RemoveAllReturns(c) \/ Destroyed(c)
      BY <1>1, <1>6, <3>1, <3>4 DEF RemoveAllReturns, Destroyed
    <3>5. QED
      BY <1>9, <3>2, <3>3, <3>4 DEF CollectStep
  <2>2. QED
    BY <1>4, <1>5, <2>1
<1>10. CASE \E next \in {"collect", "detach"} : Delete(c, next)
  <2>1. /\ UNCHANGED <<collection, m_toBeRemoved, m_safelyBeingRemoved>>
        /\ c \notin Hands(o) /\ c \notin Hands(o)'
    BY <1>1, <1>6, <1>10 DEF Delete
  <2>2. QED
    BY <1>8, <2>1
<1>11. CASE Destroy(c) \/ (\E synchronous \in BOOLEAN : RemoveAll(c, synchronous)) \/ AllTaken(c)
  <2>1. /\ UNCHANGED <<collection, m_toBeRemoved, m_safelyBeingRemoved>>
        /\ c \notin Hands(o) /\ c \notin Hands(o)'
    BY <1>1, <1>3, <1>6, <1>7, <1>11 DEF Destroy, RemoveAll, AllTaken
  <2>2. QED
    BY <1>8, <2>1
<1>12. CASE Append(c)
  <2>1. /\ UNCHANGED <<m_toBeRemoved, m_safelyBeingRemoved, pc, object>>
        /\ collection' = collection \cup {added + 1}
    BY <1>12 DEF Append
  <2>2. o = added + 1 => o \notin m_toBeRemoved /\ Hands(o) = {}
    BY <1>1 DEF Hands
  <2>3. Hands(o)' = Hands(o)
    BY <2>1 DEF Hands
  <2>4. QED
    BY <1>4, <2>1, <2>2, <2>3
<1>13. CASE TakeNext(c) \/ \E n \in Objects : Remove(c, n)
  <2>1. PICK n \in collection : /\ collection' = collection \ {n}
                                /\ pc' = [pc EXCEPT ![c] = "mark"]
                                /\ object' = [object EXCEPT ![c] = n]
                                /\ UNCHANGED <<m_toBeRemoved, m_safelyBeingRemoved>>
    BY <1>13 DEF TakeNext, Remove
  <2>2. c \notin Hands(o)
    BY <1>3, <1>6, <1>7, <1>13 DEF TakeNext, Remove
  <2>3. object'[c] = n /\ pc'[c] = "mark"
    BY <1>1, <2>1
  <2>4. CASE o = n
    BY <1>4, <1>5, <2>1, <2>3, <2>4
  <2>5. CASE o # n
    BY <1>4, <1>5, <1>6, <2>1, <2>2, <2>3, <2>5
  <2>6. QED
    BY <2>4, <2>5
<1>14. CASE Mark(c)
  <2>1. /\ UNCHANGED <<collection, m_toBeRemoved, object>>
        /\ pc[c] = "mark" /\ pc' = [pc EXCEPT ![c] = "append"]
        /\ m_safelyBeingRemoved' = [m_safelyBeingRemoved EXCEPT ![object[c]] = TRUE]
    BY <1>14 DEF Mark
  <2>2. pc'[c] = "append" /\ (c \in Hands(o)' <=> c \in Hands(o))
    BY <1>1, <1>6, <2>1
  <2>3. m_safelyBeingRemoved'[o] = (m_safelyBeingRemoved[o] \/ o = object[c])
    BY <1>1, <2>1
  <2>4. QED
    BY <1>4, <1>5, <1>6, <2>1, <2>2, <2>3
<1>15. CASE c \in Managers /\ AppendToBeRemoved(c)
  <2>1. /\ UNCHANGED <<collection, m_safelyBeingRemoved, object>>
        /\ m_toBeRemoved' = m_toBeRemoved \cup {object[c]}
        /\ pc[c] = "append" /\ pc' = [pc EXCEPT ![c] = "dereference"]
    BY <1>15 DEF AppendToBeRemoved
  <2>2. pc'[c] = "dereference" /\ (c \in Hands(o)' <=> c \in Hands(o))
    BY <1>1, <1>6, <2>1
  <2>3. o = object[c] => c \in Hands(o)
    BY <1>6, <1>15, <2>1
  <2>4. QED
    BY <1>4, <1>5, <2>1, <2>2, <2>3
<1>16. CASE Dereference(c)
  <2>1. /\ UNCHANGED <<collection, m_toBeRemoved, m_safelyBeingRemoved>>
        /\ c \notin Hands(o)'
    BY <1>1, <1>6, <1>7, <1>16 DEF Dereference, Removed
  <2>2. QED
    BY <1>4, <1>5, <2>1
<1>17. CASE c \in Managers /\ DestroyNext(c)
  <2>1. PICK n \in m_toBeRemoved :
          /\ m_toBeRemoved' = m_toBeRemoved \ {n}
          /\ pc[c] = "detach" /\ pc' = [pc EXCEPT ![c] = IF SafelyCanBeDeleted(n) THEN "delete" ELSE "forget"]
          /\ object' = [object EXCEPT ![c] = n]
          /\ UNCHANGED <<collection, m_safelyBeingRemoved>>
    BY <1>17 DEF DestroyNext
  <2>2. c \notin Hands(o) /\ object'[c] = n /\ pc'[c] \in {"delete", "forget"}
    BY <1>1, <1>6, <2>1
  <2>3. CASE o = n
    \* No other manager is still in a removal.
    <3>1. life # "alive"
      BY <1>17, <2>1 DEF IInv, InTask
    <3>2. \A m \in Managers \ {c} : pc[m] = "idle"
      BY <2>1, <3>1, ThreadsDiffer DEF IInv, Alone
    <3>3. Hands(o) = {}
      BY <2>2, <3>2 DEF Hands
    <3>4. QED
      BY <1>4, <1>5, <2>1, <2>2, <2>3, <3>3
  <2>4. CASE o # n
    BY <1>4, <1>5, <1>6, <2>1, <2>2, <2>4
  <2>5. QED
    BY <2>3, <2>4
<1>18. CASE c \in Managers /\ Detach(c)
  <2>1. /\ UNCHANGED <<collection, m_toBeRemoved>>
        /\ pc[c] = "forget"
        /\ m_safelyBeingRemoved' = [m_safelyBeingRemoved EXCEPT ![object[c]] = FALSE]
        /\ c \notin Hands(o)'
    BY <1>1, <1>6, <1>7, <1>18 DEF Detach
  <2>2. CASE o = object[c]
    <3>1. c \in Hands(o)
      BY <1>6, <1>18, <2>1, <2>2
    <3>2. QED
      BY <1>4, <1>5, <2>1, <3>1
  <2>3. CASE o # object[c]
    <3>1. m_safelyBeingRemoved'[o] = m_safelyBeingRemoved[o]
      BY <1>1, <2>1, <2>3
    <3>2. QED
      BY <1>4, <1>5, <2>1, <3>1
  <2>4. QED
    BY <2>2, <2>3
<1>19. QED
  BY <1>1, <1>9, <1>10, <1>11, <1>12, <1>13, <1>14, <1>15, <1>16, <1>17, <1>18
     DEF CleanerStep, CollectorStep, ManagerCall, ManagerStep

-----------------------------------------------------------------------------
\* What an object is to whoever sees its last reference go.
LEMMA NoReference ==
  ASSUME IInv, NEW o \in m_toBeRemoved, SafelyCanBeDeleted(o)
  PROVE  /\ ~Dead(o) /\ o \notin collection
         /\ \A u \in Users : o \notin clone[u]
         /\ \A t \in Threads : object[t] # o
<1>1. o \in Objects /\ o # NoObject /\ m_safeReferenceCount[o] = 0
  BY SafeAssumption DEF IInv, Shape, Tables, SafelyCanBeDeleted
<1>2. /\ Cardinality(Holders(o)) \in Nat /\ Cardinality(Clones(o)) \in Nat
      /\ Cardinality(Owners(o)) \in Nat
  BY ReferencesFinite, FS_CardinalityType
<1>3. 0 = Cardinality(Holders(o)) + Cardinality(Clones(o)) + Cardinality(Owners(o))
            + (IF o \in collection THEN 1 ELSE 0)
  BY <1>1 DEF IInv, CountsMatch
<1>4. o \notin collection /\ Holders(o) = {} /\ Clones(o) = {} /\ Owners(o) = {}
  BY <1>2, <1>3, ReferencesFinite, FS_EmptySet
<1>5. ~Dead(o)
  BY <1>1 DEF IInv, Once
<1>6. \A u \in Users : o \notin clone[u]
  BY <1>4 DEF Clones
<1>7. \A t \in Threads : ~(object[t] = o /\ pc[t] = "delete")
  BY <1>5 DEF Dead, Deleting
<1>8. \A u \in Users : object[u] # o
  BY <1>1, <1>4, <1>7, ThreadsDiffer DEF IInv, InHand, Holders
<1>9. ASSUME NEW c \in Cleaners, object[c] = o PROVE FALSE
  <2>1. pc[c] \in Removing \cup {"forget"} /\ c \in Managers
    BY <1>1, <1>7, <1>9, ThreadsDiffer DEF IInv, InHand, Cleaners
  <2>2. c \in Hands(o)
    BY <1>9, <2>1 DEF Hands
  <2>3. pc[c] = "dereference"
    BY <1>1, <2>2 DEF IInv, Custody
  <2>4. QED
    BY <1>4, <1>9, <2>1, <2>3 DEF Owners
<1>10. QED
  BY <1>4, <1>5, <1>6, <1>8, <1>9, ThreadsDiffer

\* The pointer or the clone of a user that releases the last reference to an object
\* which is not being removed is all that refers to it.
LEMMA LastReference ==
  ASSUME IInv, NEW u \in Users, NEW o \in Objects, MayBeDeleted(o),
         Holds(u, o) \/ o \in clone[u], pc[u] # "delete"
  PROVE  /\ ~Dead(o) /\ o \notin collection /\ o \notin m_toBeRemoved
         /\ \A v \in Users : o \in clone[v] => v = u /\ ~Holds(u, o)
         /\ \A t \in Threads : object[t] = o => t = u /\ o \notin clone[u]
<1>1. o # NoObject /\ m_safeReferenceCount[o] = 1 /\ ~m_safelyBeingRemoved[o]
  BY SafeAssumption DEF MayBeDeleted
<1>2. /\ Cardinality(Holders(o)) \in Nat /\ Cardinality(Clones(o)) \in Nat
      /\ Cardinality(Owners(o)) \in Nat
  BY ReferencesFinite, FS_CardinalityType
<1>3. 1 = Cardinality(Holders(o)) + Cardinality(Clones(o)) + Cardinality(Owners(o))
            + (IF o \in collection THEN 1 ELSE 0)
  BY <1>1 DEF IInv, CountsMatch
<1>4. /\ Cardinality(Holders(o)) = 0 <=> Holders(o) = {}
      /\ Cardinality(Clones(o)) = 0 <=> Clones(o) = {}
      /\ Cardinality(Owners(o)) = 0 <=> Owners(o) = {}
  BY ReferencesFinite, FS_EmptySet
<1>5. /\ Cardinality(Holders(o)) = 1 => \E x : Holders(o) = {x}
      /\ Cardinality(Clones(o)) = 1 => \E x : Clones(o) = {x}
  BY ReferencesFinite, FS_Singleton
<1>6. u \in Holders(o) \/ u \in Clones(o)
  BY DEF Holders, Holds, Clones
<1>7. \/ Holders(o) = {u} /\ Clones(o) = {}
      \/ Holders(o) = {} /\ Clones(o) = {u}
  BY <1>2, <1>3, <1>4, <1>5, <1>6
<1>8. Owners(o) = {} /\ o \notin collection
  BY <1>2, <1>3, <1>4, <1>6
<1>9. ~Dead(o)
  BY <1>7 DEF IInv, Once, Holders, Clones, Threads
<1>10. o \notin m_toBeRemoved
  BY <1>1 DEF IInv, Custody
<1>11. \A v \in Users : o \in clone[v] => v = u /\ ~Holds(u, o)
  BY <1>7 DEF Clones, Holders, Holds
<1>12. \A t \in Threads : ~(object[t] = o /\ pc[t] = "delete")
  BY <1>9 DEF Dead, Deleting
<1>13. \A v \in Users : object[v] = o => v \in Holders(o)
  BY <1>1, <1>12, ThreadsDiffer DEF IInv, InHand, Holders
<1>14. ASSUME NEW c \in Cleaners, object[c] = o PROVE FALSE
  <2>1. pc[c] \in Removing \cup {"forget"} /\ c \in Managers
    BY <1>1, <1>12, <1>14, ThreadsDiffer DEF IInv, InHand, Cleaners
  <2>2. c \in Hands(o)
    BY <1>14, <2>1 DEF Hands
  <2>3. pc[c] # "forget"
    BY <1>1, <2>2 DEF IInv, Custody
  <2>4. QED
    BY <1>8, <1>14, <2>1, <2>3 DEF Owners
<1>15. \A t \in Threads : object[t] = o => t = u /\ o \notin clone[u]
  BY <1>7, <1>13, <1>14, ThreadsDiffer DEF Clones
<1>16. QED
  BY <1>8, <1>9, <1>10, <1>11, <1>15

\* A step that deletes nothing and takes up nothing that is dead.
LEMMA OnceKept ==
  ASSUME IInv, NEW t \in Threads, OnlyMoves(t), deleted' = deleted,
         pc[t] # "delete", pc'[t] # "delete",
         \A o \in Objects : Dead(o) =>
            /\ o \notin collection' /\ o \notin m_toBeRemoved'
            /\ \A u \in Users : o \notin clone'[u]
            /\ object'[t] # o
  PROVE  Once'
<1>1. ASSUME NEW o PROVE Deleting(o)' = Deleting(o) /\ (Dead(o)' <=> Dead(o))
  BY DEF OnlyMoves, Deleting, Dead
<1>2. QED
  BY <1>1 DEF IInv, Once, OnlyMoves

\* A step that begins to delete an object to which nothing else refers.
LEMMA OnceBegins ==
  ASSUME IInv, NEW t \in Threads, OnlyMoves(t), deleted' = deleted,
         pc[t] # "delete", pc'[t] = "delete", NEW o \in Objects, object'[t] = o, ~Dead(o),
         collection' \subseteq collection, m_toBeRemoved' \subseteq m_toBeRemoved,
         \A u \in Users : clone'[u] \subseteq clone[u],
         o \notin collection', o \notin m_toBeRemoved', \A u \in Users : o \notin clone'[u],
         \A s \in Threads \ {t} : object[s] # o
  PROVE  Once'
<1>1. Deleting(o)' = {t}
  BY DEF OnlyMoves, Deleting
<1>2. o \notin deleted
  BY DEF Dead
<1>3. ASSUME NEW n, n # o PROVE Deleting(n)' = Deleting(n) /\ (Dead(n)' <=> Dead(n))
  BY <1>3 DEF OnlyMoves, Deleting, Dead
<1>4. ASSUME NEW n \in Objects
      PROVE  /\ n \in deleted' => Deleting(n)' = {}
             /\ \A s, r \in Deleting(n)' : s = r
             /\ Dead(n)' => /\ n \notin collection' /\ n \notin m_toBeRemoved'
                            /\ \A u \in Users : n \notin clone'[u]
                            /\ \A s \in Threads : object'[s] = n => pc'[s] = "delete"
  <2>1. CASE n = o
    BY <1>1, <1>2, <2>1 DEF OnlyMoves
  <2>2. CASE n # o
    BY <1>3, <2>2 DEF IInv, Once, OnlyMoves
  <2>3. QED
    BY <2>1, <2>2
<1>5. QED
  BY <1>4 DEF Once

\* A step that ends the deletion of an object.
LEMMA OnceEnds ==
  ASSUME IInv, NEW t \in Threads, NEW next, next # "delete", Delete(t, next)
  PROVE  Once'
<1>1. /\ pc \in [Threads -> PCs] /\ object \in [Threads -> 0..added] /\ added \in Nat
  BY DEF IInv, Shape, Places, Tables
<1>2. /\ pc[t] = "delete" /\ pc' = [pc EXCEPT ![t] = next]
      /\ object' = [object EXCEPT ![t] = NoObject]
      /\ deleted' = deleted \cup {object[t]}
      /\ UNCHANGED <<collection, m_toBeRemoved, clone>>
  BY DEF Delete, Goto, Hold, owned
<1>3. ASSUME NEW n \in Objects
      PROVE  /\ n \in deleted' => Deleting(n)' = {}
             /\ \A s, r \in Deleting(n)' : s = r
             /\ Dead(n)' => /\ n \notin collection' /\ n \notin m_toBeRemoved'
                            /\ \A u \in Users : n \notin clone'[u]
                            /\ \A s \in Threads : object'[s] = n => pc'[s] = "delete"
  <2>1. Deleting(n)' = Deleting(n) \ {t}
    BY <1>1, <1>2 DEF Deleting
  <2>2. Dead(n)' => Dead(n)
    BY <1>2, <2>1 DEF Dead, Deleting
  <2>3. t \in Deleting(n) <=> n = object[t]
    BY <1>2 DEF Deleting
  <2>4. /\ n \in deleted => Deleting(n) = {}
        /\ \A s, r \in Deleting(n) : s = r
        /\ Dead(n) => /\ n \notin collection /\ n \notin m_toBeRemoved
                      /\ \A u \in Users : n \notin clone[u]
                      /\ \A s \in Threads : object[s] = n => pc[s] = "delete"
    BY DEF IInv, Once
  <2>5. n \in deleted' => Deleting(n)' = {}
    BY <1>2, <2>1, <2>3, <2>4
  <2>6. \A s \in Threads : s # t => object'[s] = object[s] /\ pc'[s] = pc[s]
    BY <1>1, <1>2
  <2>7. object'[t] # n
    BY <1>1, <1>2
  <2>8. QED
    BY <1>2, <2>1, <2>2, <2>4, <2>5, <2>6, <2>7
<1>4. QED
  BY <1>3 DEF Once

\* Users delete an object once, and when it is unreferenced.
LEMMA UserOnce == ASSUME IInv, NEW u \in Users, UserStep(u) PROVE Once'
<1>1. /\ pc \in [Threads -> PCs] /\ object \in [Threads -> 0..added] /\ added \in Nat
      /\ clone \in [Users -> SUBSET (1..added)]
      /\ u \in Threads /\ Users \subseteq Threads /\ added <= MaxObjects /\ MaxObjects \in Nat
  BY ThreadsDiffer, SafeAssumption DEF IInv, Shape, Places, Tables
<1>2. OnlyMoves(u)
  BY UserMoves DEF IInv
<1>3. \A o \in Objects : Dead(o) =>
        /\ o \notin collection /\ o \notin m_toBeRemoved
        /\ \A v \in Users : o \notin clone[v]
        /\ \A t \in Threads : object[t] = o => pc[t] = "delete"
  BY DEF IInv, Once
<1>4. object[u] # NoObject <=> pc[u] \in Holding \cup {"delete"}
  BY DEF IInv, InHand
<1>5. /\ UNCHANGED <<collection, m_toBeRemoved>>
      /\ \A v \in Users \ {u} : clone'[v] = clone[v]
  BY <1>1 DEF UserStep, PtrCall, PtrStep, Clone, Copy, SetSafetyMode, NextObject, Assign, Enter,
     EnterFails, Lock, Release, DropClone, Null, Delete, Within, Call, owned
<1> USE DEF Goto, Hold, Within, Call, Entering
<1>6. CASE Delete(u, "null")
  BY <1>1, <1>6, OnceEnds
<1>7. ASSUME deleted' = deleted, pc[u] # "delete", pc'[u] # "delete",
             \A o \in Objects : Dead(o) => o \notin clone'[u] /\ object'[u] # o
      PROVE  Once'
  <2>1. \A o \in Objects : Dead(o) => \A v \in Users : o \notin clone'[v]
    BY <1>3, <1>5, <1>7
  <2>2. QED
    BY <1>1, <1>2, <1>3, <1>5, <1>7, <2>1, OnceKept
<1>8. CASE \E mode \in LockModes : Clone(u, mode)
  BY <1>1, <1>3, <1>7, <1>8 DEF Clone, memory
<1>9. CASE \E mode \in LockModes : SetSafetyMode(u, mode)
  BY <1>1, <1>3, <1>7, <1>9 DEF SetSafetyMode, memory
<1>10. CASE \E mode \in LockModes : \E v \in Users \ {u} : Copy(u, v, mode)
  BY <1>1, <1>3, <1>7, <1>10 DEF Copy, memory
<1>11. ASSUME NEW from \in Int
       PROVE  \A o \in Objects : Dead(o) => PointAfter(u, from) # o
  BY <1>3, PointAfterFound
<1>12. CASE NextObject(u)
  BY <1>1, <1>3, <1>7, <1>11, <1>12 DEF NextObject, memory
<1>13. CASE Assign(u)
  BY <1>1, <1>3, <1>7, <1>11, <1>13 DEF Assign, memory
<1>14. CASE Enter(u) \/ EnterFails(u) \/ Lock(u) \/ Null(u)
  BY <1>1, <1>3, <1>7, <1>14 DEF Enter, EnterFails, Lock, Null, memory
<1>15. CASE Release(u)
  <2>1. pc[u] = "using" /\ object[u] \in Objects /\ UNCHANGED <<clone, deleted>>
    BY <1>1, <1>4, <1>15 DEF Release, memory
  <2>2. CASE MayBeDeleted(object[u])
    <3>1. pc'[u] = "delete" /\ object'[u] = object[u]
      BY <1>1, <1>15, <2>2 DEF Release, MayBeDeleted
    <3>2. Holds(u, object[u])
      BY <2>1 DEF Holds
    <3>3. /\ ~Dead(object[u]) /\ object[u] \notin collection /\ object[u] \notin m_toBeRemoved
          /\ \A v \in Users : object[u] \notin clone[v]
          /\ \A t \in Threads : object[t] = object[u] => t = u
      BY <2>1, <2>2, <3>2, LastReference
    <3>4. QED
      BY <1>1, <1>2, <1>5, <2>1, <3>1, <3>3, OnceBegins
  <2>3. CASE ~MayBeDeleted(object[u])
    BY <1>1, <1>3, <1>7, <1>15, <2>1, <2>3 DEF Release, MayBeDeleted
  <2>4. QED
    BY <2>2, <2>3
<1>16. CASE DropClone(u)
  <2>1. PICK o \in clone[u] :
          /\ pc[u] = "null" /\ pc' = [pc EXCEPT ![u] = IF MayBeDeleted(o) THEN "delete" ELSE "null"]
          /\ IF MayBeDeleted(o) THEN object' = [object EXCEPT ![u] = o] ELSE UNCHANGED object
          /\ clone' = [clone EXCEPT ![u] = @ \ {o}]
          /\ deleted' = deleted
    BY <1>16 DEF DropClone, memory
  <2>2. o \in Objects /\ clone'[u] = clone[u] \ {o}
    BY <1>1, <2>1
  <2>3. CASE MayBeDeleted(o)
    <3>1. pc'[u] = "delete" /\ object'[u] = o
      BY <1>1, <2>1, <2>3
    <3>2. /\ ~Dead(o) /\ o \notin collection /\ o \notin m_toBeRemoved
          /\ \A v \in Users : o \in clone[v] => v = u
          /\ \A t \in Threads : object[t] # o
      BY <2>1, <2>2, <2>3, LastReference
    <3>3. \A v \in Users : clone'[v] \subseteq clone[v] /\ o \notin clone'[v]
      BY <1>5, <2>2, <3>2
    <3>4. QED
      BY <1>1, <1>2, <1>5, <2>1, <2>2, <3>1, <3>2, <3>3, OnceBegins
  <2>4. CASE ~MayBeDeleted(o)
    <3>1. /\ pc'[u] = "null" /\ object'[u] = object[u] /\ deleted' = deleted
      BY <1>1, <2>1, <2>4
    <3>2. \A n \in Objects : Dead(n) => n \notin clone'[u] /\ object'[u] # n
      BY <1>1, <1>3, <2>1, <2>2, <3>1
    <3>3. QED
      BY <1>7, <2>1, <3>1, <3>2
  <2>5. QED
    BY <2>3, <2>4
<1>17. QED
  BY <1>6, <1>8, <1>9, <1>10, <1>12, <1>13, <1>14, <1>15, <1>16 DEF UserStep, PtrCall, PtrStep

\* So do managers and the timer thread.
LEMMA CleanerOnce == ASSUME IInv, NEW c \in Cleaners, CleanerStep(c) PROVE Once'
<1>1. /\ pc \in [Threads -> PCs] /\ object \in [Threads -> 0..added] /\ added \in Nat
      /\ clone \in [Users -> SUBSET (1..added)] /\ MaxObjects \in Nat /\ added <= MaxObjects
      /\ collection \subseteq 1..added /\ m_toBeRemoved \subseteq 1..added
      /\ deleted \subseteq 1..added
      /\ c \in Threads /\ (c # Collector => c \in Managers)
  BY ThreadsDiffer, SafeAssumption DEF IInv, Shape, Places, Tables, Cleaners
<1>2. OnlyMoves(c)
  BY CleanerMoves DEF IInv
<1>3. \A o \in Objects : Dead(o) =>
        /\ o \notin collection /\ o \notin m_toBeRemoved
        /\ \A v \in Users : o \notin clone[v]
        /\ \A t \in Threads : object[t] = o => pc[t] = "delete"
  BY DEF IInv, Once
<1>4. object[c] # NoObject <=> pc[c] \in Removing \cup {"forget", "delete"}
  BY DEF IInv, InHand
<1> USE DEF Goto, Hold, owned, memory, users
<1>5. ASSUME deleted' = deleted, clone' = clone, pc[c] # "delete", pc'[c] # "delete",
             \A o \in Objects : Dead(o) => o \notin collection' /\ o \notin m_toBeRemoved'
                                           /\ object'[c] # o
      PROVE  Once'
  BY <1>1, <1>2, <1>3, <1>5, OnceKept
<1>6. CASE \E next \in {"collect", "detach"} : Delete(c, next)
  BY <1>1, <1>6, OnceEnds
<1>7. ASSUME NEW o \in m_toBeRemoved, SafelyCanBeDeleted(o),
             m_toBeRemoved' = m_toBeRemoved \ {o}, object' = [object EXCEPT ![c] = o],
             pc[c] # "delete", pc' = [pc EXCEPT ![c] = "delete"],
             UNCHANGED <<collection, clone, deleted>>
      PROVE  Once'
  <2>1. o \in Objects /\ pc'[c] = "delete" /\ object'[c] = o
    BY <1>1, <1>7
  <2>2. /\ ~Dead(o) /\ o \notin collection
        /\ \A u \in Users : o \notin clone[u]
        /\ \A t \in Threads : object[t] # o
    BY <1>7, NoReference
  <2>3. QED
    BY <1>1, <1>2, <1>7, <2>1, <2>2, OnceBegins
<1>8. CASE Collect(c)
  BY <1>7, <1>8 DEF Collect
<1>9. CASE \/ Collected(c) \/ TestCollection(c) \/ RemoveAllReturns(c) \/ Destroyed(c)
           \/ c = Collector /\ DeleteObjectsTimeout
  BY <1>1, <1>3, <1>4, <1>5, <1>9 DEF Collected, TestCollection, RemoveAllReturns, Destroyed,
     DeleteObjectsTimeout
<1>10. CASE Append(c)
  <2>1. ~Dead(added + 1)
    BY <1>1 DEF Dead, Deleting
  <2>2. /\ UNCHANGED <<m_toBeRemoved, pc, object, clone, deleted>> /\ pc[c] = "idle"
        /\ collection' = collection \cup {added + 1}
    BY <1>10 DEF Append
  <2>3. QED
    BY <1>1, <1>3, <1>5, <2>1, <2>2
<1>11. CASE c \in Managers /\ (\/ Destroy(c) \/ AllTaken(c)
                                \/ \E synchronous \in BOOLEAN : RemoveAll(c, synchronous))
  <2>1. /\ UNCHANGED <<collection, m_toBeRemoved, object, clone, deleted>>
        /\ pc[c] \in {"idle", "take"}
    BY <1>11 DEF Destroy, RemoveAll, AllTaken
  <2>2. pc'[c] # "delete"
    BY <1>1, <1>11 DEF Destroy, RemoveAll, AllTaken, IInv, InTask
  <2>3. QED
    BY <1>1, <1>3, <1>4, <1>5, <2>1, <2>2
<1>12. CASE TakeNext(c) \/ \E n \in Objects : Remove(c, n)
  <2>1. PICK n \in collection : /\ collection' = collection \ {n}
                                /\ pc[c] \in {"take", "idle"} /\ pc' = [pc EXCEPT ![c] = "mark"]
                                /\ object' = [object EXCEPT ![c] = n]
                                /\ UNCHANGED <<m_toBeRemoved, clone, deleted>>
    BY <1>12 DEF TakeNext, Remove
  <2>2. object'[c] = n /\ pc'[c] = "mark"
    BY <1>1, <2>1
  <2>3. QED
    BY <1>3, <1>5, <2>1, <2>2
<1>13. CASE Mark(c) \/ AppendToBeRemoved(c)
  BY <1>1, <1>3, <1>5, <1>13 DEF Mark, AppendToBeRemoved
<1>14. CASE Dereference(c)
  BY <1>1, <1>3, <1>5, <1>14 DEF Dereference, Removed
<1>15. CASE DestroyNext(c)
  <2>1. PICK o \in m_toBeRemoved :
          /\ m_toBeRemoved' = m_toBeRemoved \ {o}
          /\ pc[c] = "detach" /\ pc' = [pc EXCEPT ![c] = IF SafelyCanBeDeleted(o) THEN "delete" ELSE "forget"]
          /\ object' = [object EXCEPT ![c] = o]
          /\ UNCHANGED <<collection, clone, deleted>>
    BY <1>15 DEF DestroyNext
  <2>2. CASE SafelyCanBeDeleted(o)
    BY <1>7, <2>1, <2>2
  <2>3. CASE ~SafelyCanBeDeleted(o)
    <3>1. object'[c] = o /\ pc'[c] = "forget"
      BY <1>1, <2>1, <2>3
    <3>2. QED
      BY <1>3, <1>5, <2>1, <3>1
  <2>4. QED
    BY <2>2, <2>3
<1>16. CASE Detach(c)
  BY <1>1, <1>3, <1>5, <1>16 DEF Detach
<1>17. QED
  BY <1>1, <1>6, <1>8, <1>9, <1>10, <1>11, <1>12, <1>13, <1>14, <1>15, <1>16
     DEF CleanerStep, CollectorStep, CollectStep, ManagerCall, ManagerStep

-----------------------------------------------------------------------------
\* Every step keeps the invariant.
LEMMA StepIInv == IInv /\ [Next]_vars => IInv'
<1> SUFFICES ASSUME IInv, [Next]_vars PROVE IInv'
  OBVIOUS
<1>1. ASSUME NEW u \in Users, UserStep(u) PROVE IInv'
  BY <1>1, UserShape, UserInHand, UserCountsMatch, UserLeaves, UserOnce DEF IInv
<1>2. ASSUME NEW c \in Cleaners, CleanerStep(c) PROVE IInv'
  BY <1>2, CleanerShape, CleanerInHand, CleanerCountsMatch, CleanerCustody, StepAlone, CleanerOnce
     DEF IInv
<1>3. CASE UNCHANGED vars
  <2>1. UNCHANGED <<collection, m_toBeRemoved, life, counts, memory, pc, object, clone, task>>
    BY <1>3 DEF vars, owned, memory, jobs
  <2> USE <2>1 DEF IInv, counts, memory
  <2>2. Shape' /\ IdleHasNoClone' /\ InHand'
    BY DEF Shape, Tables, Places, IdleHasNoClone, InHand
  <2>3. CountsMatch'
    BY DEF CountsMatch, Holders, Clones, Owners
  <2>4. Custody' /\ InTask' /\ Alone'
    BY DEF Custody, Hands, InTask, Alone
  <2>5. Once'
    BY DEF Once, Dead, Deleting
  <2>6. QED
    BY <2>2, <2>3, <2>4, <2>5
<1>4. QED
  BY <1>1, <1>2, <1>3, NextIsAStep

\* CountsMatch: m_safeReferenceCount of an object is the number of references to it,
\* in whatever order pointers are made, copied, moved on and dropped, collections
\* cloned and objects removed.
THEOREM CountsAreReferences == Spec => []CountsMatch
<1>1. IInv => CountsMatch
  BY DEF IInv
<1>2. QED
  BY InitIInv, StepIInv, <1>1, PTL DEF Spec

\* DeletedOnceUnreferenced: SafeDereference and DeleteObjectsToBeRemoved between them
\* delete an object once, and when no pointer, no clone, not the collection and no
\* removal refers to it any more.
THEOREM NothingDeletedInUse == Spec => []DeletedOnceUnreferenced
<1>1. ASSUME IInv PROVE DeletedOnceUnreferenced
  <2> SUFFICES ASSUME NEW o \in Objects, Dead(o)
               PROVE  /\ Cardinality(Deleting(o)) = IF o \in deleted THEN 0 ELSE 1
                      /\ o \notin collection \cup m_toBeRemoved \cup UNION {clone[u] : u \in Users}
                      /\ \A t \in Threads \ Deleting(o) : object[t] # o
    BY DEF DeletedOnceUnreferenced, Dead
  <2>1. /\ o \in deleted => Deleting(o) = {}
        /\ \A s, t \in Deleting(o) : s = t
        /\ o \notin collection /\ o \notin m_toBeRemoved
        /\ \A u \in Users : o \notin clone[u]
        /\ \A t \in Threads : object[t] = o => pc[t] = "delete"
    BY <1>1 DEF IInv, Once
  <2>2. ASSUME o \notin deleted PROVE Cardinality(Deleting(o)) = 1
    <3>1. PICK t \in Deleting(o) : TRUE
      BY <2>2 DEF Dead
    <3>2. Deleting(o) = {t}
      BY <2>1, <3>1
    <3>3. QED
      BY <3>2, FS_Singleton
  <2>3. Cardinality(Deleting(o)) = IF o \in deleted THEN 0 ELSE 1
    BY <2>1, <2>2, FS_EmptySet
  <2>4. \A t \in Threads \ Deleting(o) : object[t] # o
    BY <2>1 DEF Deleting
  <2>5. QED
    BY <2>1, <2>3, <2>4
<1>2. QED
  BY InitIInv, StepIInv, <1>1, PTL DEF Spec

-----------------------------------------------------------------------------
(* What RemoveAll(true) waits for.  While it takes the objects out of the  *)
(* collection it holds m_collectionMutex, so that each of them is still    *)
(* there, on the list of removals, in its own hands or being deleted; from *)
(* then on an object leaves the list only to be deleted.                   *)

Locking == {"take"} \cup Removing
Mutex   == \A m \in Managers : pc[m] \in Locking => m_collectionMutex = m

\* An object that awaits its deletion.
Going(o) == o \in m_toBeRemoved \/ Dead(o)

\* How far RemoveAll(true) has come with the objects it awaits.
Awaiting(m) ==
  /\ pc[m] = "idle" \/ life # "alive" => awaited[m] = {}
  /\ pc[m] \in Locking /\ task[m] # "RemoveAllSynchronous" => awaited[m] = {}
  /\ pc[m] \in Locking => \A o \in awaited[m] : o \in collection \/ Owns(m, o) \/ Going(o)
  /\ pc[m] = "dereference" /\ life = "alive" => Going(object[m])
  /\ pc[m] \in {"collect", "delete"} => \A o \in awaited[m] : Going(o)
  /\ pc[m] \in {"test", "removed"} => \A o \in awaited[m] : Dead(o)

AwaitInv == /\ awaited \in [Managers -> SUBSET Objects] /\ Mutex
            /\ \A m \in Managers : Awaiting(m)

USE DEF Locking

\* What is being deleted stays so until it is deleted.
LEMMA DeadStays ==
  ASSUME IInv, [Next]_vars, NEW o, Dead(o)
  PROVE  Dead(o)'
<1>1. CASE UNCHANGED <<deleted, pc, object>>
  BY <1>1 DEF Dead, Deleting
<1>2. ASSUME NEW t \in Threads, OnlyMoves(t), deleted' = deleted, pc[t] # "delete" PROVE Dead(o)'
  <2>1. Deleting(o) \subseteq Deleting(o)'
    BY <1>2 DEF Deleting, OnlyMoves
  <2>2. QED
    BY <1>2, <2>1 DEF Dead
<1>3. ASSUME NEW t \in Threads, OnlyMoves(t), NEW next, Delete(t, next) PROVE Dead(o)'
  <2>1. \A s \in Threads \ {t} : s \in Deleting(o) => s \in Deleting(o)'
    BY <1>3 DEF Deleting, OnlyMoves
  <2>2. t \in Deleting(o) => o \in deleted'
    BY <1>3 DEF Deleting, Delete
  <2>3. deleted \subseteq deleted'
    BY <1>3 DEF Delete
  <2>4. QED
    BY <2>1, <2>2, <2>3 DEF Dead, Deleting
<1>4. ASSUME NEW u \in Users, UserStep(u) PROVE Dead(o)'
  <2>1. u \in Threads /\ OnlyMoves(u)
    BY <1>4, UserMoves, ThreadsDiffer DEF IInv
  <2>2. (deleted' = deleted /\ pc[u] # "delete") \/ Delete(u, "null")
    BY <1>4 DEF UserStep, PtrCall, PtrStep, Clone, Copy, SetSafetyMode, NextObject, Assign, Enter,
                EnterFails, Lock, Release, DropClone, Null, Within, Call, Goto, memory
  <2>3. QED
    BY <1>2, <1>3, <2>1, <2>2
<1>5. ASSUME NEW c \in Cleaners, CleanerStep(c) PROVE Dead(o)'
  <2>1. c \in Threads /\ OnlyMoves(c)
    BY <1>5, CleanerMoves, ThreadsDiffer DEF IInv
  <2>2. (deleted' = deleted /\ pc[c] # "delete") \/ \E next : Delete(c, next)
    BY <1>5 DEF CleanerStep, CollectorStep, DeleteObjectsTimeout, CollectStep, Collect,
         Collected, TestCollection, ManagerCall, Append, Destroy, Remove, RemoveAll, ManagerStep,
         TakeNext, AllTaken, Mark, AppendToBeRemoved, Dereference, Removed, RemoveAllReturns,
         DestroyNext, Detach, Destroyed, Goto, memory
  <2>3. QED
    BY <1>2, <1>3, <2>1, <2>2
<1>6. QED
  BY <1>1, <1>4, <1>5, NextIsAStep DEF vars, memory

\* Users change nothing that RemoveAll looks at.
LEMMA UserAwait == ASSUME IInv, AwaitInv, NEW u \in Users, UserStep(u) PROVE AwaitInv'
<1>1. UNCHANGED <<owned, jobs>>
  BY DEF UserStep, PtrCall, PtrStep, Clone, Copy, SetSafetyMode, NextObject, Assign, Enter,
         EnterFails, Lock, Release, DropClone, Null, Delete, Within, Call
<1>2. \A m \in Managers : pc'[m] = pc[m] /\ object'[m] = object[m]
  BY UserMoves, ThreadsDiffer DEF IInv, OnlyMoves
<1>3. \A o : Dead(o) => Dead(o)'
  BY DeadStays DEF Next, UserStep
<1>4. \A o : Going(o) => Going(o)'
  BY <1>1, <1>3 DEF Going, owned
<1>5. Mutex' /\ awaited' = awaited
  BY <1>1, <1>2 DEF AwaitInv, Mutex, owned, jobs
<1>6. ASSUME NEW m \in Managers PROVE Awaiting(m)'
  <2>1. /\ pc'[m] = pc[m] /\ object'[m] = object[m]
        /\ UNCHANGED <<collection, life, awaited, task>>
    BY <1>1, <1>2 DEF owned, jobs
  <2>2. \A o : Owns(m, o) => Owns(m, o)'
    BY <2>1 DEF Owns
  <2>3. Awaiting(m)
    BY DEF AwaitInv
  <2>4. Going(object[m]) => Going(object[m])'
    BY <1>4, <2>1 DEF Going, Dead, Deleting
  <2>5. QED
    BY <1>3, <1>4, <2>1, <2>2, <2>3, <2>4 DEF Awaiting
<1>7. QED
  BY <1>5, <1>6 DEF AwaitInv

\* Only who has m_collectionMutex takes objects out of the collection, and until the
\* destructor an object leaves the list of removals to be deleted.
LEMMA CleanerTakes ==
  ASSUME IInv, AwaitInv, NEW c \in Cleaners, CleanerStep(c)
  PROVE  /\ \A o \in collection : o \in collection' \/ m_collectionMutex \in {c, NoThread}
         /\ life = "alive" => \A o : Going(o) => Going(o)'
         /\ \A o : Dead(o) => Dead(o)'
         /\ life = "alive" /\ life' # "alive" => \A d \in Cleaners : pc[d] = "idle"
         /\ life # "alive" => life' # "alive"
         /\ Mutex' /\ awaited' \in [Managers -> SUBSET Objects]
         /\ \A m \in Managers \ {c} : awaited'[m] = awaited[m] /\ task'[m] = task[m]
<1>0. /\ OnlyMoves(c) /\ c \in Threads /\ Managers \subseteq Threads /\ NoThread \notin Managers
      /\ (c # Collector => c \in Managers) /\ Collector \notin Managers
      /\ pc \in [Threads -> PCs] /\ object \in [Threads -> 0..added]
      /\ collection \subseteq 1..added /\ m_toBeRemoved \subseteq 1..added
      /\ added \in Nat /\ added <= MaxObjects /\ MaxObjects \in Nat
      /\ awaited \in [Managers -> SUBSET Objects] /\ task \in [Managers -> Tasks]
      /\ Mutex
  <2>1. /\ c \in Threads /\ Managers \subseteq Threads /\ NoThread \notin Managers
        /\ (c # Collector => c \in Managers) /\ Collector \notin Managers /\ MaxObjects \in Nat
    BY ThreadsDiffer, SafeAssumption DEF Cleaners
  <2>2. OnlyMoves(c)
    BY CleanerMoves DEF IInv
  <2>3. QED
    BY <2>1, <2>2 DEF IInv, Shape, Places, Tables, AwaitInv
<1>1. \A o : Dead(o) => Dead(o)'
  <2>1. Next
    BY <1>0 DEF Next, CleanerStep
  <2>2. QED
    BY <2>1, DeadStays
<1>2. \A o \in collection : o \in collection' \/ m_collectionMutex \in {c, NoThread}
  <2>1. CASE collection \subseteq collection'
    BY <2>1
  <2>2. CASE ~(collection \subseteq collection')
    <3>1. c \in Managers /\ ((\E o \in Objects : Remove(c, o)) \/ TakeNext(c))
      BY <1>0, <2>2 DEF CleanerStep, CollectorStep, DeleteObjectsTimeout, CollectStep, Collect,
         Collected, TestCollection, Delete, ManagerCall, Append, Destroy, RemoveAll, ManagerStep,
         AllTaken, Mark, AppendToBeRemoved, Dereference, Removed, RemoveAllReturns,
         DestroyNext, Detach, Destroyed, owned
    <3>2. QED
      BY <1>0, <3>1 DEF Remove, TakeNext, Goto, Mutex
  <2>3. QED
    BY <2>1, <2>2
<1>3. ASSUME life = "alive", NEW o, Going(o) PROVE Going(o)'
  <2>1. CASE m_toBeRemoved \subseteq m_toBeRemoved'
    BY <1>1, <1>3, <2>1 DEF Going
  <2>2. CASE Collect(c)
    <3>1. PICK n \in m_toBeRemoved : /\ m_toBeRemoved' = m_toBeRemoved \ {n}
                                     /\ pc' = [pc EXCEPT ![c] = "delete"]
                                     /\ object' = [object EXCEPT ![c] = n]
      BY <2>2 DEF Collect, Goto, Hold
    <3>2. c \in Deleting(n)'
      BY <1>0, <3>1 DEF Deleting
    <3>3. QED
      BY <1>1, <1>3, <3>1, <3>2 DEF Going, Dead
  <2>3. QED
    <3>1. ~(\E m \in Managers : DestroyNext(m))
      BY <1>3 DEF IInv, InTask, DestroyNext, Goto
    <3>2. QED
      BY <1>0, <2>1, <2>2, <3>1 DEF CleanerStep, CollectorStep, DeleteObjectsTimeout, CollectStep,
         Collected, TestCollection, Delete, ManagerCall, Append, Destroy, Remove, RemoveAll,
         ManagerStep, TakeNext, AllTaken, Mark, AppendToBeRemoved, Dereference, Removed,
         RemoveAllReturns, Detach, Destroyed, owned
<1>4. life = "alive" /\ life' # "alive" => \A d \in Cleaners : pc[d] = "idle"
  <2>1. ASSUME life = "alive", life' # "alive" PROVE Destroy(c) \/ Destroyed(c)
    BY <1>0, <2>1 DEF CleanerStep, CollectorStep, DeleteObjectsTimeout, CollectStep, Collect,
       Collected, TestCollection, Delete, ManagerCall, Append, Remove, RemoveAll, ManagerStep,
       TakeNext, AllTaken, Mark, AppendToBeRemoved, Dereference, Removed, RemoveAllReturns,
       DestroyNext, Detach, owned
  <2>2. ASSUME life = "alive", Destroyed(c) PROVE FALSE
    BY <1>0, <2>2 DEF IInv, InTask, InHand, Destroyed, Goto
  <2>3. QED
    BY <2>1, <2>2 DEF Destroy
<1>5. life # "alive" => life' # "alive"
  BY DEF CleanerStep, CollectorStep, DeleteObjectsTimeout, CollectStep, Collect,
         Collected, TestCollection, Delete, ManagerCall, Append, Destroy, Remove, RemoveAll,
         ManagerStep, TakeNext, AllTaken, Mark, AppendToBeRemoved, Dereference, Removed,
         RemoveAllReturns, DestroyNext, Detach, Destroyed, owned
<1>6. Mutex'
  <2>1. CASE m_collectionMutex' = m_collectionMutex /\ (pc'[c] \in Locking => pc[c] \in Locking)
    BY <1>0, <2>1 DEF Mutex, OnlyMoves
  <2>2. CASE /\ c \in Managers /\ m_collectionMutex' = c
             /\ \A m \in Managers \ {c} : pc[m] \notin Locking
    BY <1>0, <2>2 DEF Mutex, OnlyMoves
  <2>3. CASE /\ c \in Managers /\ pc[c] \in Locking /\ pc'[c] \notin Locking
    <3>1. \A m \in Managers \ {c} : pc[m] \notin Locking
      BY <1>0, <2>3 DEF Mutex
    <3>2. QED
      BY <1>0, <2>3, <3>1 DEF Mutex, OnlyMoves
  <2>4. CASE c = Collector
    <3>1. m_collectionMutex' = m_collectionMutex
      BY <1>0, <2>4 DEF CleanerStep, CollectorStep, DeleteObjectsTimeout, CollectStep, Collect,
         Collected, TestCollection, Delete, owned
    <3>2. QED
      BY <1>0, <2>4, <3>1 DEF Mutex, OnlyMoves
  <2>5. CASE ManagerCall(c) /\ c \in Managers
    <3>1. CASE Append(c)
      BY <1>0, <2>1, <3>1 DEF Append
    <3>2. CASE (\E o \in Objects : Remove(c, o)) \/ (\E synchronous \in BOOLEAN : RemoveAll(c, synchronous))
      BY <1>0, <2>2, <2>5, <3>2 DEF Remove, RemoveAll, Mutex
    <3>3. CASE Destroy(c)
      <4>1. m_collectionMutex' = c /\ \A m \in Managers : pc[m] = "idle"
        BY <3>3 DEF Destroy, Cleaners
      <4>2. QED
        BY <2>2, <2>5, <4>1
    <3>4. QED
      BY <2>5, <3>1, <3>2, <3>3 DEF ManagerCall
  <2>6. CASE ManagerStep(c) /\ c \in Managers
    <3>1. CASE AllTaken(c)
      BY <1>0, <2>3, <2>6, <3>1 DEF AllTaken, Goto, IInv, InTask
    <3>2. CASE Dereference(c) /\ task[c] = "Remove"
      BY <1>0, <2>3, <2>6, <3>2 DEF Dereference, Removed, Goto
    <3>3. CASE Dereference(c) /\ task[c] # "Remove"
      BY <1>0, <2>1, <2>6, <3>3 DEF Dereference, Removed, Goto
    <3>4. CASE TakeNext(c) \/ Mark(c) \/ AppendToBeRemoved(c)
      BY <1>0, <2>1, <3>4 DEF TakeNext, Mark, AppendToBeRemoved, Goto, owned
    <3>5. CASE CollectStep(c) \/ RemoveAllReturns(c) \/ DestroyNext(c) \/ Detach(c) \/ Destroyed(c)
      BY <1>0, <2>1, <3>5 DEF CollectStep, Collect, Collected, TestCollection, RemoveAllReturns,
         DestroyNext, Detach, Destroyed, Goto, owned
    <3>6. CASE Delete(c, IF life = "alive" THEN "collect" ELSE "detach")
      BY <1>0, <2>1, <3>6 DEF Delete, Goto, owned
    <3>7. QED
      BY <2>6, <3>1, <3>2, <3>3, <3>4, <3>5, <3>6 DEF ManagerStep
  <2>7. QED
    BY <1>0, <2>4, <2>5, <2>6 DEF CleanerStep
<1>7. awaited' \in [Managers -> SUBSET Objects]
  <2>1. collection \cup m_toBeRemoved \subseteq Objects
    BY <1>0
  <2>2. CASE c = Collector
    BY <1>0, <2>2 DEF CleanerStep, CollectorStep, DeleteObjectsTimeout, CollectStep, Collect,
       Collected, TestCollection, Delete, jobs
  <2>3. CASE ManagerCall(c) /\ c \in Managers
    BY <1>0, <2>1, <2>3 DEF ManagerCall, Append, Destroy, Remove, RemoveAll, jobs
  <2>4. CASE ManagerStep(c) /\ c \in Managers
    BY <1>0, <2>4 DEF ManagerStep, TakeNext, AllTaken, Mark, AppendToBeRemoved, Dereference,
       Removed, CollectStep, Collect, Collected, TestCollection, RemoveAllReturns, DestroyNext,
       Detach, Destroyed, Delete, jobs
  <2>5. QED
    BY <1>0, <2>2, <2>3, <2>4 DEF CleanerStep
<1>8. \A m \in Managers \ {c} : awaited'[m] = awaited[m] /\ task'[m] = task[m]
  <2>1. CASE c = Collector
    BY <1>0, <2>1 DEF CleanerStep, CollectorStep, DeleteObjectsTimeout, CollectStep, Collect,
       Collected, TestCollection, Delete, jobs
  <2>2. CASE ManagerCall(c) /\ c \in Managers
    BY <1>0, <2>2 DEF ManagerCall, Append, Destroy, Remove, RemoveAll, jobs
  <2>3. CASE ManagerStep(c) /\ c \in Managers
    BY <1>0, <2>3 DEF ManagerStep, TakeNext, AllTaken, Mark, AppendToBeRemoved, Dereference,
       Removed, CollectStep, Collect, Collected, TestCollection, RemoveAllReturns, DestroyNext,
       Detach, Destroyed, Delete, jobs
  <2>4. QED
    BY <1>0, <2>1, <2>2, <2>3 DEF CleanerStep
<1>9. QED
  BY <1>1, <1>2, <1>3, <1>4, <1>5, <1>6, <1>7, <1>8

\* What the others wait for is not taken away from them.
LEMMA OthersAwait ==
  ASSUME IInv, AwaitInv, NEW c \in Cleaners, CleanerStep(c), NEW m \in Managers \ {c}
  PROVE  Awaiting(m)'
<1>1. /\ pc'[m] = pc[m] /\ object'[m] = object[m]
      /\ awaited'[m] = awaited[m] /\ task'[m] = task[m]
  BY CleanerMoves, CleanerTakes, ThreadsDiffer DEF IInv, OnlyMoves
<1>2. Awaiting(m) /\ NoThread \notin Managers
  BY SafeAssumption DEF AwaitInv
<1>3. CASE life # "alive"
  <2>1. life' # "alive" /\ awaited[m] = {}
    BY <1>2, <1>3, CleanerTakes DEF Awaiting
  <2>2. QED
    BY <1>1, <2>1 DEF Awaiting
<1>4. CASE life = "alive"
  <2>1. (\A o : Going(o) => Going(o)') /\ (\A o : Dead(o) => Dead(o)')
    BY <1>4, CleanerTakes
  <2>2. pc[m] \in Locking => collection \subseteq collection'
    <3>1. pc[m] \in Locking => m_collectionMutex = m
      BY DEF AwaitInv, Mutex
    <3>2. QED
      BY <1>2, <3>1, CleanerTakes
  <2>3. \A o : Owns(m, o) => Owns(m, o)'
    BY <1>1 DEF Owns
  <2>4. Going(object[m]) => Going(object[m])'
    BY <1>1, <2>1 DEF Going, Dead, Deleting
  <2>5. pc'[m] = "idle" \/ life' # "alive" => awaited'[m] = {}
    BY <1>1, <1>2, <1>4, CleanerTakes, ThreadsDiffer DEF Awaiting
  <2>6. QED
    BY <1>1, <1>2, <1>4, <2>1, <2>2, <2>3, <2>4, <2>5 DEF Awaiting
<1>5. QED
  BY <1>3, <1>4

\* RemoveAll(true) itself, from the call to the return.
LEMMA OwnAwait ==
  ASSUME IInv, AwaitInv, NEW m \in Managers, CleanerStep(m)
  PROVE  Awaiting(m)'
<1>0. /\ m \in Threads /\ m # Collector /\ m \in Cleaners
      /\ pc \in [Threads -> PCs] /\ object \in [Threads -> 0..added]
      /\ awaited \in [Managers -> SUBSET Objects] /\ task \in [Managers -> Tasks]
      /\ Awaiting(m) /\ (ManagerCall(m) \/ ManagerStep(m))
  BY ThreadsDiffer DEF IInv, Shape, Places, AwaitInv, CleanerStep
<1>1. /\ life = "alive" => \A o : Going(o) => Going(o)'
      /\ \A o : Dead(o) => Dead(o)'
      /\ life # "alive" => life' # "alive"
  BY <1>0, CleanerTakes
<1>2. CASE life' # "alive"
  <2>1. awaited[m] = {}
    <3>1. life = "alive" => pc[m] = "idle"
      BY <1>0, <1>2, CleanerTakes
    <3>2. QED
      BY <1>0, <3>1 DEF Awaiting
  <2>2. awaited'[m] = {}
    <3>1. awaited'[m] = {} \/ awaited'[m] = awaited[m]
      <4>1. ~(\E synchronous \in BOOLEAN : RemoveAll(m, synchronous))
        BY <1>2 DEF RemoveAll
      <4>2. CASE ManagerCall(m)
        BY <4>1, <4>2 DEF ManagerCall, Append, Destroy, Remove, jobs
      <4>3. CASE ManagerStep(m)
        BY <1>0, <4>3 DEF ManagerStep, TakeNext, AllTaken, Mark, AppendToBeRemoved, Dereference,
           Removed, CollectStep, Collect, Collected, TestCollection, RemoveAllReturns, DestroyNext,
           Detach, Destroyed, Delete, jobs
      <4>4. QED
        BY <1>0, <4>2, <4>3
    <3>2. QED
      BY <2>1, <3>1
  <2>3. QED
    BY <1>2, <2>2 DEF Awaiting
<1>3. CASE life' = "alive"
  <2> USE <1>0
  <2>0. life = "alive" /\ (\A o : Going(o) => Going(o)') /\ (\A o : Dead(o) => Dead(o)')
    BY <1>1, <1>3
  <2>1. CASE Append(m)
    BY <1>3, <2>0, <2>1 DEF Append, Awaiting, jobs
  <2>2. ASSUME NEW o \in Objects, Remove(m, o) PROVE Awaiting(m)'
    BY <1>3, <2>0, <2>2 DEF Remove, Goto, Awaiting
  <2>3. ASSUME NEW synchronous \in BOOLEAN, RemoveAll(m, synchronous) PROVE Awaiting(m)'
    <3>1. /\ pc'[m] = "take"
          /\ task'[m] = IF synchronous THEN "RemoveAllSynchronous" ELSE "RemoveAll"
          /\ awaited'[m] = IF synchronous THEN collection \cup m_toBeRemoved ELSE {}
          /\ UNCHANGED <<collection, m_toBeRemoved>>
      BY <2>3 DEF RemoveAll, Goto
    <3>2. \A o \in awaited'[m] : o \in collection' \/ o \in m_toBeRemoved'
      BY <3>1
    <3>3. QED
      BY <1>3, <3>1, <3>2 DEF Awaiting, Going
  <2>4. CASE Destroy(m)
    BY <1>3, <2>4 DEF Destroy
  <2>5. CASE TakeNext(m)
    <3>1. PICK n \in collection : /\ collection' = collection \ {n}
                                  /\ pc' = [pc EXCEPT ![m] = "mark"]
                                  /\ object' = [object EXCEPT ![m] = n]
      BY <2>5 DEF TakeNext, Goto, Hold
    <3>2. Owns(m, n)' /\ pc[m] = "take" /\ UNCHANGED <<awaited, task>>
      BY <2>5, <3>1 DEF Owns, TakeNext, Goto, jobs
    <3>3. \A o : ~Owns(m, o)
      BY <3>2 DEF Owns
    <3>4. \A o \in awaited[m] : o \in collection \/ Going(o)
      BY <3>2, <3>3 DEF Awaiting
    <3>5. \A o \in awaited[m] : o \in collection' \/ Owns(m, o)' \/ Going(o)'
      BY <2>0, <3>1, <3>2, <3>4
    <3>6. QED
      BY <1>3, <2>0, <3>1, <3>2, <3>5 DEF Awaiting
  <2>6. CASE AllTaken(m)
    <3>1. collection = {} /\ pc[m] = "take" /\ awaited' = awaited
      BY <2>6 DEF AllTaken, Goto
    <3>2. \A o \in awaited[m] : Going(o)'
      BY <2>0, <3>1 DEF Awaiting, Owns
    <3>3. pc'[m] \in {"idle", "collect", "detach"}
          /\ (pc'[m] = "idle" => task[m] # "RemoveAllSynchronous")
      BY <2>6 DEF AllTaken, Goto, IInv, InTask
    <3>4. QED
      BY <1>3, <3>1, <3>2, <3>3 DEF Awaiting
  <2>7. CASE Mark(m)
    <3>1. /\ pc[m] = "mark" /\ pc'[m] = "append"
          /\ UNCHANGED <<collection, object, awaited, task>>
      BY <2>7 DEF Mark, Goto, owned, jobs
    <3>2. \A o : Owns(m, o) => Owns(m, o)'
      BY <3>1 DEF Owns
    <3>3. QED
      BY <1>3, <2>0, <3>1, <3>2 DEF Awaiting
  <2>8. CASE AppendToBeRemoved(m)
    <3>1. /\ pc[m] = "append" /\ pc'[m] = "dereference"
          /\ UNCHANGED <<collection, object, awaited, task>>
          /\ object'[m] \in m_toBeRemoved'
      BY <2>8 DEF AppendToBeRemoved, Goto, jobs
    <3>2. \A o : Owns(m, o) => Owns(m, o)'
      BY <3>1 DEF Owns
    <3>3. Going(object[m])'
      BY <3>1 DEF Going
    <3>4. QED
      BY <1>3, <2>0, <3>1, <3>2, <3>3 DEF Awaiting
  <2>9. CASE Dereference(m)
    <3>1. /\ pc[m] = "dereference" /\ pc'[m] \in {"idle", "take"}
          /\ (task[m] = "Remove" <=> pc'[m] = "idle")
          /\ (pc'[m] = "take" => task' = task)
          /\ UNCHANGED <<collection, awaited>>
      BY <2>9 DEF Dereference, Removed, Goto
    <3>2. \A o : Owns(m, o) => Going(o)
      BY <2>0, <3>1 DEF Owns, Awaiting
    <3>3. \A o \in awaited[m] : o \in collection' \/ Going(o)'
      BY <2>0, <3>1, <3>2 DEF Awaiting
    <3>4. QED
      BY <1>3, <3>1, <3>3 DEF Awaiting
  <2>10. CASE Collect(m)
    <3>1. pc[m] = "collect" /\ pc'[m] = "delete" /\ awaited' = awaited
      BY <2>10 DEF Collect, Goto, jobs
    <3>2. QED
      BY <1>3, <2>0, <3>1 DEF Awaiting
  <2>11. CASE Collected(m)
    <3>1. pc[m] = "collect" /\ pc'[m] = "test" /\ awaited' = awaited /\ m_toBeRemoved = {}
      BY <2>11 DEF Collected, Goto, jobs
    <3>2. QED
      BY <1>3, <2>0, <3>1 DEF Awaiting, Going
  <2>12. CASE TestCollection(m)
    <3>1. pc[m] = "test" /\ pc'[m] \in {"removed", "collect"} /\ awaited' = awaited
      BY <2>12 DEF TestCollection, Goto, jobs
    <3>2. \A o \in awaited[m] : Dead(o)' /\ Going(o)'
      BY <2>0, <3>1 DEF Awaiting, Going
    <3>3. QED
      BY <1>3, <3>1, <3>2 DEF Awaiting
  <2>13. CASE RemoveAllReturns(m)
    <3>1. pc'[m] = "idle" /\ awaited'[m] = {}
      BY <2>13 DEF RemoveAllReturns, Goto
    <3>2. QED
      BY <3>1 DEF Awaiting
  <2>14. CASE DestroyNext(m) \/ Detach(m) \/ Destroyed(m)
    BY <2>0, <2>14 DEF DestroyNext, Detach, Destroyed, Goto, IInv, InTask
  <2>15. CASE Delete(m, IF life = "alive" THEN "collect" ELSE "detach")
    <3>1. pc[m] = "delete" /\ pc'[m] = "collect" /\ awaited' = awaited
      BY <2>0, <2>15 DEF Delete, Goto, jobs
    <3>2. QED
      BY <1>3, <2>0, <3>1 DEF Awaiting
  <2>16. QED
    BY <2>1, <2>2, <2>3, <2>4, <2>5, <2>6, <2>7, <2>8, <2>9, <2>10, <2>11, <2>12, <2>13,
       <2>14, <2>15 DEF ManagerCall, ManagerStep, CollectStep
<1>4. QED
  BY <1>2, <1>3

\* RemovalAwaited: when RemoveAll(true) returns, what was in the collection or on the
\* list of removals when it was called is deleted, or another thread is at it, however
\* many managers add and remove objects meanwhile.
THEOREM RemoveAllWaits == Spec => []RemovalAwaited
<1>1. Init => IInv /\ AwaitInv
  <2> SUFFICES ASSUME Init PROVE AwaitInv
    BY InitIInv
  <2>1. \A m \in Managers : pc[m] = "idle" /\ awaited[m] = {}
    BY ThreadsDiffer DEF Init
  <2>2. awaited \in [Managers -> SUBSET Objects]
    BY DEF Init
  <2>3. QED
    BY <2>1, <2>2 DEF AwaitInv, Mutex, Awaiting
<1>2. IInv /\ AwaitInv /\ [Next]_vars => (IInv /\ AwaitInv)'
  <2> SUFFICES ASSUME IInv, AwaitInv, [Next]_vars PROVE AwaitInv'
    BY StepIInv
  <2>1. ASSUME NEW c \in Cleaners, CleanerStep(c) PROVE AwaitInv'
    BY <2>1, CleanerTakes, OthersAwait, OwnAwait DEF AwaitInv
  <2>2. CASE UNCHANGED vars
    BY <2>2 DEF vars, owned, memory, jobs, AwaitInv, Mutex, Awaiting, Owns, Going, Dead, Deleting
  <2>3. QED
    BY <2>1, <2>2, UserAwait, NextIsAStep
<1>3. AwaitInv => RemovalAwaited
  BY DEF AwaitInv, Awaiting, RemovalAwaited, Dead
<1>4. QED
  BY <1>1, <1>2, <1>3, PTL DEF Spec

-----------------------------------------------------------------------------
(* The references to a removed object.                                      *)

\* Only objects that SafeRemoveObject has in hand are marked.
MarkedIsOut == \A o \in Objects : m_safelyBeingRemoved[o] => o <= added /\ o \notin collection

LEMMA StepMarked ==
  ASSUME IInv, MarkedIsOut, [Next]_vars
  PROVE  MarkedIsOut'
<1>1. /\ added \in Nat /\ collection \subseteq 1..added /\ \A o \in Objects : o \in Nat
      /\ m_safelyBeingRemoved \in [Objects -> BOOLEAN]
      /\ object \in [Threads -> 0..added]
  BY SafeAssumption DEF IInv, Shape, Tables, Places
<1>2. CASE UNCHANGED <<m_safelyBeingRemoved, added>> /\ collection' \subseteq collection
  BY <1>2 DEF MarkedIsOut
<1>3. ASSUME NEW u \in Users, UserStep(u)
      PROVE  UNCHANGED <<m_safelyBeingRemoved, added, collection>>
  BY <1>3 DEF UserStep, PtrCall, PtrStep, Clone, Copy, SetSafetyMode, NextObject, Call, Assign,
              Enter, EnterFails, Lock, Release, DropClone, Null, Delete, Within, owned, counts,
              memory
<1>4. ASSUME NEW m \in Managers, Append(m) PROVE MarkedIsOut'
  <2>1. /\ added' = added + 1 /\ collection' = collection \cup {added + 1}
        /\ UNCHANGED m_safelyBeingRemoved
    BY <1>4 DEF Append
  <2>2. \A o \in Objects : o <= added => o <= added + 1 /\ o # added + 1
    BY <1>1
  <2>3. QED
    BY <2>1, <2>2 DEF MarkedIsOut
<1>5. ASSUME NEW m \in Managers, Mark(m) PROVE MarkedIsOut'
  <2>1. /\ UNCHANGED <<collection, added>> /\ pc[m] = "mark"
        /\ m_safelyBeingRemoved' = [m_safelyBeingRemoved EXCEPT ![object[m]] = TRUE]
    BY <1>5 DEF Mark, Goto, owned, memory
  <2>2. ASSUME object[m] \in Objects PROVE object[m] \notin collection /\ object[m] <= added
    <3>1. m \in Hands(object[m])
      BY <2>1 DEF Hands
    <3>2. object[m] <= added
      BY <1>1, <2>2, ThreadsDiffer
    <3>3. QED
      BY <2>2, <3>1, <3>2 DEF IInv, Custody
  <2>3. \A o \in Objects : m_safelyBeingRemoved'[o] => o = object[m] \/ m_safelyBeingRemoved[o]
    BY <1>1, <2>1
  <2>4. QED
    BY <2>1, <2>2, <2>3 DEF MarkedIsOut
<1>6. ASSUME NEW m \in Managers, Detach(m) PROVE MarkedIsOut'
  <2>1. /\ UNCHANGED <<collection, added>>
        /\ m_safelyBeingRemoved' = [m_safelyBeingRemoved EXCEPT ![object[m]] = FALSE]
    BY <1>6 DEF Detach, owned, memory
  <2>2. \A o \in Objects : m_safelyBeingRemoved'[o] => m_safelyBeingRemoved[o]
    BY <1>1, <2>1
  <2>3. QED
    BY <2>1, <2>2 DEF MarkedIsOut
<1>7. ASSUME NEW c \in Cleaners, CleanerStep(c),
             c \in Managers => ~Append(c) /\ ~Mark(c) /\ ~Detach(c)
      PROVE  UNCHANGED <<m_safelyBeingRemoved, added>> /\ collection' \subseteq collection
  <2>1. CASE c = Collector
    BY <1>7, <2>1 DEF CleanerStep, CollectorStep, DeleteObjectsTimeout, CollectStep, Collect,
                      Collected, TestCollection, Delete, owned, counts, memory
  <2>2. CASE c \in Managers /\ ManagerCall(c)
    BY <1>7, <2>2 DEF ManagerCall, Destroy, Remove, RemoveAll, counts, memory
  <2>3. CASE c \in Managers /\ ManagerStep(c)
    BY <1>7, <2>3 DEF ManagerStep, TakeNext, AllTaken, AppendToBeRemoved, Dereference, Removed,
                      CollectStep, Collect, Collected, TestCollection, RemoveAllReturns,
                      DestroyNext, Destroyed, Delete, owned, counts, memory
  <2>4. QED
    BY <1>7, <2>1, <2>2, <2>3 DEF CleanerStep, Cleaners
<1>8. CASE UNCHANGED vars
  BY <1>2, <1>8 DEF vars, owned, counts, memory
<1>9. QED
  BY <1>2, <1>3, <1>4, <1>5, <1>6, <1>7, <1>8, NextIsAStep DEF Cleaners

\* Next() and the construction of a pointer pass over objects that are being removed.
LEMMA PointAfterUnmarked ==
  ASSUME IInv, NEW u \in Users, NEW from \in Int
  PROVE  PointAfter(u, from) = NoObject \/ ~m_safelyBeingRemoved[PointAfter(u, from)]
<1> DEFINE Found == {o \in clone[u] : o > from /\ ~m_safelyBeingRemoved[o]}
<1>1. CASE Found = {}
  BY <1>1 DEF PointAfter
<1>2. CASE Found # {}
  <2>1. Found \in SUBSET Nat
    BY DEF IInv, Shape, Tables
  <2>2. \E x \in Found : \A y \in Found : x <= y
    BY <1>2, <2>1, LeastExists
  <2>3. QED
    BY <1>2, <2>2 DEF PointAfter
<1>3. QED
  BY <1>1, <1>2

LEMMA ReferencesOnlyGo ==
  ASSUME IInv, MarkedIsOut, [Next]_vars, NEW o \in Objects, m_safelyBeingRemoved[o]
  PROVE  m_safeReferenceCount'[o] <= m_safeReferenceCount[o]
<1>1. /\ added \in Nat /\ o \in Nat /\ o # NoObject /\ o <= added /\ o \notin collection
      /\ m_safeReferenceCount \in [Objects -> Int] /\ m_safeReferenceCount[o] \in Int
      /\ object \in [Threads -> 0..added]
  BY SafeAssumption DEF IInv, Shape, Tables, Places, MarkedIsOut
<1>2. CASE UNCHANGED m_safeReferenceCount
  BY <1>1, <1>2
<1>3. ASSUME NEW S, SafeReference(S), o \notin S
      PROVE  m_safeReferenceCount'[o] <= m_safeReferenceCount[o]
  BY <1>1, <1>3 DEF SafeReference
<1>4. ASSUME NEW n, SafeDereference(n)
      PROVE  m_safeReferenceCount'[o] <= m_safeReferenceCount[o]
  BY <1>1, <1>4 DEF SafeDereference
<1>5. ASSUME NEW u \in Users, UserStep(u)
      PROVE  m_safeReferenceCount'[o] <= m_safeReferenceCount[o]
  <2>1. ASSUME NEW mode, Clone(u, mode) PROVE SafeReference(collection)
    BY <2>1 DEF Clone
  <2>2. ASSUME NEW v \in Users, NEW mode, Copy(u, v, mode)
        PROVE  SafeReference({object[v]}) /\ object[v] # o
    BY <2>2 DEF Copy
  <2>3. CASE Assign(u)
    <3>1. SafeReference({PointAfter(u, NoObject)})
      BY <2>3 DEF Assign
    <3>2. PointAfter(u, NoObject) # o
      BY <1>1, PointAfterUnmarked
    <3>3. QED
      BY <1>3, <3>1, <3>2
  <2>4. CASE NextObject(u)
    <3>1. object[u] \in Int
      BY <1>1 DEF Threads
    <3>2. PointAfter(u, object[u]) # o
      BY <1>1, <3>1, PointAfterUnmarked
    <3> DEFINE next == PointAfter(u, object[u])
    <3> HIDE DEF next
    <3>3. m_safeReferenceCount' =
            [n \in Objects |-> CASE n = object[u] -> m_safeReferenceCount[n] - 1
                                 [] n = next      -> m_safeReferenceCount[n] + 1
                                 [] OTHER         -> m_safeReferenceCount[n]]
      BY <2>4 DEF NextObject, next
    <3>4. o # next
      BY <3>2 DEF next
    <3>5. CASE o = object[u]
      BY <1>1, <3>3, <3>4, <3>5
    <3>6. CASE o # object[u]
      BY <1>1, <3>3, <3>4, <3>6
    <3>7. QED
      BY <3>5, <3>6
  <2>5. ASSUME NEW mode, SetSafetyMode(u, mode) PROVE UNCHANGED m_safeReferenceCount
    BY <2>5 DEF SetSafetyMode
  <2>6. CASE EnterFails(u) \/ Release(u) \/ DropClone(u)
    BY <1>4, <2>6 DEF EnterFails, Release, DropClone
  <2>7. CASE Enter(u) \/ Lock(u) \/ Null(u) \/ Delete(u, "null")
    BY <1>2, <2>7 DEF Enter, Lock, Null, Delete, counts
  <2>8. QED
    BY <1>1, <1>2, <1>3, <1>5, <2>1, <2>2, <2>3, <2>4, <2>5, <2>6, <2>7
       DEF UserStep, PtrCall, PtrStep
<1>6. ASSUME NEW c \in Cleaners, CleanerStep(c)
      PROVE  m_safeReferenceCount'[o] <= m_safeReferenceCount[o]
  <2>1. CASE c = Collector
    BY <1>2, <1>6, <2>1 DEF CleanerStep, CollectorStep, DeleteObjectsTimeout, CollectStep,
            Collect, Collected, TestCollection, Delete, counts
  <2>2. CASE c \in Managers /\ Append(c)
    <3>1. SafeReference({added + 1}) /\ o # added + 1
      BY <1>1, <2>2 DEF Append
    <3>2. QED
      BY <1>3, <3>1
  <2>3. CASE c \in Managers /\ ManagerCall(c) /\ ~Append(c)
    BY <1>2, <2>3 DEF ManagerCall, Destroy, Remove, RemoveAll, counts
  <2>4. CASE c \in Managers /\ Dereference(c)
    BY <1>4, <2>4 DEF Dereference
  <2>5. CASE c \in Managers /\ ManagerStep(c) /\ ~Dereference(c)
    BY <1>2, <2>5 DEF ManagerStep, TakeNext, AllTaken, Mark, AppendToBeRemoved,
            CollectStep, Collect, Collected, TestCollection, RemoveAllReturns,
            DestroyNext, Detach, Destroyed, Delete, counts
  <2>6. QED
    BY <1>6, <2>1, <2>2, <2>3, <2>4, <2>5 DEF CleanerStep, Cleaners
<1>7. CASE UNCHANGED vars
  BY <1>2, <1>7 DEF vars, counts
<1>8. QED
  BY <1>5, <1>6, <1>7, NextIsAStep

\* NotTakenAnew: nobody gets a reference to an object that SafeRemoveObject has marked,
\* whatever users copy, clone, lock again or step through, for as long as they like.
THEOREM RemovedIsNotTakenAnew == Spec => NotTakenAnew
<1>1. Init => IInv /\ MarkedIsOut
  <2>1. Init => MarkedIsOut
    BY DEF Init, MarkedIsOut
  <2>2. QED
    BY <2>1, InitIInv
<1>2. IInv /\ MarkedIsOut /\ [Next]_vars => (IInv /\ MarkedIsOut)'
  BY StepIInv, StepMarked
<1>3. IInv /\ MarkedIsOut /\ [Next]_vars
        => [\A o \in Objects : m_safelyBeingRemoved[o] /\ m_safelyBeingRemoved'[o]
                                 => m_safeReferenceCount'[o] <= m_safeReferenceCount[o]]_vars
  BY ReferencesOnlyGo
<1>4. QED
  BY <1>1, <1>2, <1>3, PTL DEF Spec, NotTakenAnew
=============================================================================
