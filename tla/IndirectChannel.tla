-------------------------- MODULE IndirectChannel ---------------------------
(***************************************************************************)
(* PIndirectChannel of src/ptlib/common/pchannel.cxx: a channel that hands *)
(* reads and writes to two others, which may be one, and that may delete   *)
(* them.  channelPointerMutex is taken at its word: it is the lock RWLock  *)
(* describes and PReadWriteMutex implements.                               *)
(*                                                                         *)
(* A Read or Write keeps the lock for reading as long as the channel below *)
(* blocks; one below returns when it is closed or when something happens   *)
(* outside, for which there is no fairness.                                *)
(***************************************************************************)
EXTENDS Naturals, FiniteSets

CONSTANTS Threads,
          Channels,     \* the channels below; each is given to the class at most once
          None,
          HalfDetach,   \* whether Detach is called with ShutdownRead
          MaxCalls      \* bound on the calls that take the lock for writing

IndirectAssumption == /\ None \notin Channels /\ HalfDetach \in BOOLEAN
                      /\ MaxCalls \in Nat

VARIABLES readChannel, writeChannel, readAutoDelete, writeAutoDelete,
          status,       \* of the channels below
          holds, queued,    \* channelPointerMutex
          pc,
          call,         \* what a thread that changes the channels is doing
          using,        \* the channel a thread reads from or writes to
          owned,        \* history: the channels Detach gave back
          overlapped,   \* history: the Closes that ran beside an Open, a Detach or
                        \* another one that did
          calls         \* history: the calls that change the channels

pointers == <<readChannel, writeChannel, readAutoDelete, writeAutoDelete>>
lock     == <<holds, queued>>
indVars  == <<pointers, status, lock, pc, call, using, owned, overlapped, calls>>

Lock == INSTANCE RWLock

IndInit == /\ readChannel = None /\ writeChannel = None
           /\ readAutoDelete = FALSE /\ writeAutoDelete = FALSE
           /\ status = [c \in Channels |-> "new"]
           /\ Lock!RWInit
           /\ pc = [t \in Threads |-> "idle"] /\ call = [t \in Threads |-> "none"]
           /\ using = [t \in Threads |-> None]
           /\ owned = {} /\ overlapped = {} /\ calls = 0

Goto(t, from, to) == pc[t] = from /\ pc' = [pc EXCEPT ![t] = to]
Changers == {t \in Threads : call[t] # "none"}
Put(s, value) == status' = [c \in Channels |-> IF c \in s THEN value ELSE status[c]]

-----------------------------------------------------------------------------
(* Read and Write.                                                         *)

Begin(t) == /\ Goto(t, "idle", "using")
            /\ Lock!AcquireRead(t)
            /\ \E c \in {readChannel, writeChannel} : using' = [using EXCEPT ![t] = c]
            /\ UNCHANGED <<pointers, status, call, owned, overlapped, calls>>

Finish(t) == /\ Goto(t, "using", "idle")
             /\ Lock!Release(t)
             /\ using' = [using EXCEPT ![t] = None]
             /\ UNCHANGED <<pointers, status, call, owned, overlapped, calls>>

\* The channel below has data, room, an error or a timeout.
Usable(t) == using[t] \in {c \in Channels : status[c] = "open"}
ChannelReturns(t) == Usable(t) /\ Finish(t)

\* There is no channel below, or it is closed.
ChannelFails(t) == ~Usable(t) /\ Finish(t)

-----------------------------------------------------------------------------
(* Close, Open and Detach.                                                 *)

Overlap(t, kind) == overlapped' =
  LET others == Changers \ {t} IN
  (overlapped \ {t}) \cup
  (IF kind # "close" THEN others
   ELSE IF \E u \in others : call[u] # "close" \/ u \in overlapped THEN {t} ELSE {})

CallClose(t) ==
  /\ Goto(t, "idle", "close")
  /\ call' = [call EXCEPT ![t] = "close"] /\ Overlap(t, "close")
  /\ calls < MaxCalls /\ calls' = calls + 1
  /\ UNCHANGED <<pointers, status, lock, using, owned>>

CallChange(t, kind) ==
  /\ Goto(t, "idle", "start")
  /\ call' = [call EXCEPT ![t] = kind] /\ Overlap(t, kind)
  /\ calls < MaxCalls /\ calls' = calls + 1
  /\ UNCHANGED <<pointers, status, lock, using, owned>>

CloseLocks(t) == /\ Goto(t, "close", "closing")
                 /\ Lock!AcquireRead(t)
                 /\ UNCHANGED <<pointers, status, call, using, owned, overlapped, calls>>

\* The first half of Close, which wakes those that block in the channels below.
CloseBelow(t) == /\ Goto(t, "closing", "start")
                 /\ Put({readChannel, writeChannel} \cap Channels, "closed")
                 /\ Lock!Release(t)
                 /\ UNCHANGED <<pointers, call, using, owned, overlapped, calls>>

Queue(t) == /\ Goto(t, "start", "queued")
            /\ Lock!QueueWriter(t)
            /\ UNCHANGED <<pointers, status, call, using, owned, overlapped, calls>>

AcquireWrite(t) == /\ Goto(t, "queued", "change")
                   /\ Lock!AcquireWrite(t)
                   /\ UNCHANGED <<pointers, status, call, using, owned, overlapped, calls>>

\* Mutant: a channel that is both is deleted for reading and for writing apart.
MutCloseDelete(t) ==
  /\ call[t] = "close" /\ Goto(t, "change", "leave")
  /\ Put((IF readAutoDelete THEN {readChannel} ELSE {}) \cap Channels, "deleted")
  /\ readChannel' = None
  /\ UNCHANGED <<writeChannel, readAutoDelete, writeAutoDelete, owned>>

\* The second half of Close.
CloseDelete(t) ==
  /\ call[t] = "close" /\ Goto(t, "change", "leave")
  /\ Put((   (IF readAutoDelete THEN {readChannel} ELSE {})
        \cup (IF writeAutoDelete /\ readChannel # writeChannel THEN {writeChannel} ELSE {}))
         \cap Channels, "deleted")
  /\ readChannel' = None /\ writeChannel' = None
  /\ UNCHANGED <<readAutoDelete, writeAutoDelete, owned>>

\* Open with channels that are open, each to be deleted or not: SetReadChannel and
\* SetWriteChannel close and delete what was there, the second one seeing the new
\* channel for reading.
OpenChannels(t) ==
  /\ call[t] = "open" /\ Goto(t, "change", "leave")
  /\ \E r, w \in {c \in Channels : status[c] = "new"} :
       /\ readChannel' = r /\ writeChannel' = w
       /\ readAutoDelete' \in BOOLEAN /\ writeAutoDelete' \in BOOLEAN
       /\ LET old ==    (IF readAutoDelete /\ readChannel # writeChannel THEN {readChannel} ELSE {})
                   \cup (IF writeAutoDelete /\ writeChannel # r THEN {writeChannel} ELSE {})
          IN  status' = [c \in Channels |-> IF c \in {r, w} THEN "open"
                                            ELSE IF c \in old THEN "deleted" ELSE status[c]]
  /\ UNCHANGED owned

Detach(t) ==
  /\ call[t] = "detach" /\ Goto(t, "change", "leave")
  /\ \/ /\ readChannel = writeChannel
        /\ owned' = owned \cup ({readChannel} \cap Channels)
        /\ readChannel' = None /\ writeChannel' = None
     \/ /\ readChannel # writeChannel
        /\ UNCHANGED <<readChannel, writeChannel, owned>>
  /\ UNCHANGED <<readAutoDelete, writeAutoDelete, status>>

\* Detach(ShutdownRead).
DetachRead(t) ==
  /\ HalfDetach
  /\ call[t] = "detach" /\ Goto(t, "change", "leave")
  /\ owned' = owned \cup ({readChannel} \cap Channels)
  /\ readChannel' = None
  /\ UNCHANGED <<writeChannel, readAutoDelete, writeAutoDelete, status>>

Change(t) == /\ CloseDelete(t) \/ OpenChannels(t) \/ Detach(t) \/ DetachRead(t)
             /\ Lock!Release(t)
             /\ UNCHANGED <<call, using, overlapped, calls>>

Leave(t) == /\ Goto(t, "leave", "idle")
            /\ Lock!LeaveQueue(t)
            /\ call' = [call EXCEPT ![t] = "none"]
            /\ UNCHANGED <<pointers, status, using, owned, overlapped, calls>>

Step(t) == \/ ChannelFails(t) \/ CloseLocks(t) \/ CloseBelow(t)
           \/ Queue(t) \/ AcquireWrite(t) \/ Change(t) \/ Leave(t)

IndNext == \E t \in Threads :
             \/ Begin(t) \/ ChannelReturns(t) \/ CallClose(t)
             \/ CallChange(t, "open") \/ CallChange(t, "detach")
             \/ Step(t)

IndFairness == \A t \in Threads : WF_indVars(Step(t))

Spec == IndInit /\ [][IndNext]_indVars /\ IndFairness

-----------------------------------------------------------------------------
\* A channel is deleted only when nobody reads from it or writes to it and the
\* indirect channel has forgotten it, and a channel given back is left alone.
DeletedWhenUnused ==
  /\ \A t \in Threads : using[t] # None => status[using[t]] # "deleted"
  /\ \A c \in {readChannel, writeChannel} \cap Channels : status[c] # "deleted"
  /\ HalfDetach \/ \A c \in owned : c \notin {readChannel, writeChannel} /\ status[c] # "deleted"

\* A Close gets through a Read that blocks, unless an Open or a Detach comes with it:
\* that one waits for the Read, and keeps the Close from the lock to end the Read.
InClose(t)    == call[t] = "close"
OutOfClose(t) == call[t] # "close" \/ t \in overlapped
CloseReturns  == \A t \in Threads : InClose(t) ~> OutOfClose(t)

\* "Detach without closing the read/write channel" (indchan.h).
DetachedStaysOpen == \A c \in owned : status[c] # "deleted"
=============================================================================
