--------------------------- MODULE RunTimeSignals ---------------------------
(***************************************************************************)
(* The ring of run-time signals of PProcess (osutils.cxx): handlers of the *)
(* operating system put signals into m_RunTimeSignalsQueueBuffer, and the  *)
(* housekeeper takes them out one at a time, letting go of                 *)
(* m_RunTimeSignalsQueueMutex while it handles one.  What is done under    *)
(* the mutex is one action.  Signals are numbered in the order of arrival. *)
(***************************************************************************)
EXTENDS Naturals, Sequences

CONSTANTS Size,         \* m_RunTimeSignalsQueueBuffer.size()
          MaxSignals    \* bound on the signals that arrive

SizeAssumption == Size \in Nat \ {0} /\ MaxSignals \in Nat

VARIABLES m_RunTimeSignalsQueueBuffer, m_RunTimeSignalsQueueIn, m_RunTimeSignalsQueueOut,
          handling,     \* the signal the housekeeper handles, or 0
          posted,       \* history: the number of signals that have arrived
          handled,      \* history: the signals handled, in order
          overrun       \* history: In has caught up with Out

ring == <<m_RunTimeSignalsQueueBuffer, m_RunTimeSignalsQueueIn, m_RunTimeSignalsQueueOut>>
ringVars == <<ring, handling, posted, handled, overrun>>

RSInit == /\ m_RunTimeSignalsQueueBuffer = [i \in 0 .. Size - 1 |-> 0]
          /\ m_RunTimeSignalsQueueIn = 0 /\ m_RunTimeSignalsQueueOut = 0
          /\ handling = 0 /\ posted = 0 /\ handled = <<>> /\ overrun = FALSE

Following(i) == (i + 1) % Size

InternalPostRunTimeSignal ==
  /\ posted < MaxSignals
  /\ posted' = posted + 1
  /\ m_RunTimeSignalsQueueBuffer' =
       [m_RunTimeSignalsQueueBuffer EXCEPT ![m_RunTimeSignalsQueueIn] = posted + 1]
  /\ m_RunTimeSignalsQueueIn' = Following(m_RunTimeSignalsQueueIn)
  /\ overrun' = (overrun \/ m_RunTimeSignalsQueueIn' = m_RunTimeSignalsQueueOut)
  /\ UNCHANGED <<m_RunTimeSignalsQueueOut, handling, handled>>

\* Mutant: the entry is read after Out has moved on.
MutTakeSignal ==
  /\ handling = 0
  /\ m_RunTimeSignalsQueueIn # m_RunTimeSignalsQueueOut
  /\ handling' = m_RunTimeSignalsQueueBuffer[Following(m_RunTimeSignalsQueueOut)]
  /\ m_RunTimeSignalsQueueOut' = Following(m_RunTimeSignalsQueueOut)
  /\ UNCHANGED <<m_RunTimeSignalsQueueBuffer, m_RunTimeSignalsQueueIn, posted, handled, overrun>>

\* The loop of HouseKeeping, up to the call of InternalHandleRunTimeSignal ...
TakeSignal ==
  /\ handling = 0
  /\ m_RunTimeSignalsQueueIn # m_RunTimeSignalsQueueOut
  /\ handling' = m_RunTimeSignalsQueueBuffer[m_RunTimeSignalsQueueOut]
  /\ m_RunTimeSignalsQueueOut' = Following(m_RunTimeSignalsQueueOut)
  /\ UNCHANGED <<m_RunTimeSignalsQueueBuffer, m_RunTimeSignalsQueueIn, posted, handled, overrun>>

\* ... and the call.
InternalHandleRunTimeSignal ==
  /\ handling # 0
  /\ handled' = Append(handled, handling)
  /\ handling' = 0
  /\ UNCHANGED <<ring, posted, overrun>>

RSNext == InternalPostRunTimeSignal \/ TakeSignal \/ InternalHandleRunTimeSignal

\* Signals are handled once and in the order they came, none left out, until more
\* arrive than the ring holds: there is no test for that, and then all are forgotten.
HandledInOrder ==
  ~overrun => /\ Len(handled) <= posted
              /\ \A n \in DOMAIN handled : handled[n] = n
              /\ (m_RunTimeSignalsQueueIn = m_RunTimeSignalsQueueOut /\ handling = 0)
                 => Len(handled) = posted
=============================================================================
