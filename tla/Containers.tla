----------------------------- MODULE Containers -----------------------------
(***************************************************************************)
(* The reference counted contents of PContainer (contain.cxx): instances   *)
(* of strings and arrays of several threads that share contents, each used *)
(* by its own thread only.  reference->count is atomic; MakeUnique tests   *)
(* it, takes a reference of its own, gives the old one up and only then    *)
(* copies the contents.  Contents carry the number of the reference they   *)
(* were made for.                                                          *)
(***************************************************************************)
EXTENDS Naturals, FiniteSets

CONSTANTS Threads, Nothing,
          MaxReferences      \* bound on the references made

SharersAssumption == /\ IsFiniteSet(Threads) /\ Threads # {}
                     /\ MaxReferences \in Nat \ {0} /\ Nothing \notin 1 .. MaxReferences

Instances  == Threads \X {1, 2}
References == 1 .. MaxReferences
Of(t)      == {i \in Instances : i[1] = t}

VARIABLES reference,    \* of each instance
          m_theArray,   \* the contents an instance points to
          count,        \* of each reference
          made,         \* how many references have been made
          freed,        \* the contents that were freed
          pc, subject,  \* of each thread in MakeUnique, and the instance
          raced         \* history: a count changed, or was tested, while another
                        \* thread was dividing or cloning the same contents

contentsVars  == <<reference, m_theArray, count, made, freed>>
containerVars == <<contentsVars, pc, subject, raced>>

\* One string, of which every thread has been given an instance.
ContainerInit ==
  /\ reference  = [i \in Instances |-> IF i[2] = 1 THEN 1 ELSE Nothing]
  /\ m_theArray = reference
  /\ count = [r \in References |-> IF r = 1 THEN Cardinality(Threads) ELSE 0]
  /\ made = 1 /\ freed = {}
  /\ pc = [t \in Threads |-> "idle"]
  /\ subject = [t \in Threads |-> Nothing]
  /\ raced = FALSE

Goto(t, from, to) == pc[t] = from /\ pc' = [pc EXCEPT ![t] = to]

\* A step of t that reads or writes the count of r.
Counts(t, r) ==
  raced' = (raced \/ \E u \in Threads \ {t} :
                        \/ pc[u] = "dividing" /\ reference[subject[u]] = r
                        \/ pc[u] = "cloning" /\ m_theArray[subject[u]] = r)

\* What is freed when instance i gives its reference up.
GivenUp(i) == IF count[reference[i]] = 1 THEN {m_theArray[i]} ELSE {}

-----------------------------------------------------------------------------
\* The constructor with a size.
Create(t, i) ==
  /\ pc[t] = "idle" /\ reference[i] = Nothing /\ made < MaxReferences
  /\ made' = made + 1
  /\ reference'  = [reference EXCEPT ![i] = made']
  /\ m_theArray' = [m_theArray EXCEPT ![i] = made']
  /\ count' = [count EXCEPT ![made'] = 1]
  /\ UNCHANGED <<freed, pc, subject, raced>>

\* Mutant: a copy that is not counted.
MutCopy(t, i, j) ==
  /\ pc[t] = "idle" /\ reference[i] = Nothing /\ reference[j] # Nothing
  /\ reference'  = [reference EXCEPT ![i] = reference[j]]
  /\ m_theArray' = [m_theArray EXCEPT ![i] = m_theArray[j]]
  /\ Counts(t, reference[j])
  /\ UNCHANGED <<count, made, freed, pc, subject>>

\* The copy constructor.
Copy(t, i, j) ==
  /\ pc[t] = "idle" /\ reference[i] = Nothing /\ reference[j] # Nothing
  /\ count' = [count EXCEPT ![reference[j]] = @ + 1]
  /\ reference'  = [reference EXCEPT ![i] = reference[j]]
  /\ m_theArray' = [m_theArray EXCEPT ![i] = m_theArray[j]]
  /\ Counts(t, reference[j])
  /\ UNCHANGED <<made, freed, pc, subject>>

\* AssignContents: the assignment operator.
AssignContents(t, i, j) ==
  /\ pc[t] = "idle" /\ reference[i] # Nothing /\ reference[j] # Nothing
  /\ reference[i] # reference[j]
  /\ count' = [count EXCEPT ![reference[i]] = @ - 1, ![reference[j]] = @ + 1]
  /\ freed' = freed \cup GivenUp(i)
  /\ reference'  = [reference EXCEPT ![i] = reference[j]]
  /\ m_theArray' = [m_theArray EXCEPT ![i] = m_theArray[j]]
  /\ Counts(t, reference[i])
  /\ UNCHANGED <<made, pc, subject>>

\* Destruct: the destructors.
Destruct(t, i) ==
  /\ pc[t] = "idle" /\ reference[i] # Nothing
  /\ count' = [count EXCEPT ![reference[i]] = @ - 1]
  /\ freed' = freed \cup GivenUp(i)
  /\ reference'  = [reference EXCEPT ![i] = Nothing]
  /\ m_theArray' = [m_theArray EXCEPT ![i] = Nothing]
  /\ Counts(t, reference[i])
  /\ UNCHANGED <<made, pc, subject>>

\* MakeUnique: IsUnique() ...
MakeUnique(t, i) ==
  /\ reference[i] # Nothing
  /\ Goto(t, "idle", IF count[reference[i]] = 1 THEN "writing" ELSE "dividing")
  /\ subject' = [subject EXCEPT ![t] = i]
  /\ Counts(t, reference[i])
  /\ UNCHANGED contentsVars

\* ... a reference of one's own, and one less to the old one, which nobody frees
\* should that have been the last ...
Divide(t) ==
  LET i == subject[t] IN
  /\ Goto(t, "dividing", "cloning") /\ made < MaxReferences
  /\ made' = made + 1
  /\ reference' = [reference EXCEPT ![i] = made']
  /\ count' = [count EXCEPT ![made'] = 1, ![reference[i]] = @ - 1]
  /\ Counts(t, reference[i])
  /\ UNCHANGED <<m_theArray, freed, subject>>

\* ... CloneContents(this) ...
CloneContents(t) ==
  LET i == subject[t] IN
  /\ Goto(t, "cloning", "writing")
  /\ m_theArray' = [m_theArray EXCEPT ![i] = reference[i]]
  /\ UNCHANGED <<reference, count, made, freed, subject, raced>>

\* ... and the caller changes the contents.
Written(t) ==
  /\ Goto(t, "writing", "idle")
  /\ subject' = [subject EXCEPT ![t] = Nothing]
  /\ UNCHANGED <<contentsVars, raced>>

ContainerNext ==
  \E t \in Threads :
    \/ \E i \in Of(t) : Create(t, i) \/ Destruct(t, i) \/ MakeUnique(t, i)
    \/ \E i, j \in Of(t) : Copy(t, i, j) \/ AssignContents(t, i, j)
    \/ Divide(t) \/ CloneContents(t) \/ Written(t)

ContainerSpec == ContainerInit /\ [][ContainerNext]_containerVars

-----------------------------------------------------------------------------
\* "the container only destroys the objects it contains when there are no more
\* references to them" (contain.h:93): what an instance points to is not freed.
DestroyedWhenUnreferenced ==
  \A i \in Instances : m_theArray[i] # Nothing => m_theArray[i] \notin freed

\* Contents are changed only by the one instance that points to them.
WrittenUnshared ==
  \A t \in Threads : pc[t] = "writing" =>
    \A i \in Instances \ {subject[t]} : m_theArray[i] # m_theArray[subject[t]]

\* Contents that no instance points to were freed.
NothingLeaks ==
  \A r \in 1 .. made : r \in freed \/ \E i \in Instances : r \in {m_theArray[i], reference[i]}

\* The three hold as long as no thread touches the count of contents that another
\* one is about to divide or to copy.
ContentsIntactUnlessRaced == ~raced => DestroyedWhenUnreferenced /\ WrittenUnshared /\ NothingLeaks
=============================================================================
