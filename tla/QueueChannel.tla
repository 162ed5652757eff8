---------------------------- MODULE QueueChannel ----------------------------
(***************************************************************************)
(* PQueueChannel of src/ptclib/qchannel.cxx: a ring of bytes between       *)
(* threads that read and threads that write, a mutex, and the sync points  *)
(* unempty and unfull.  The mutex is given up only around the waits for    *)
(* the two, so an action is the code between two such points.              *)
(***************************************************************************)
EXTENDS Naturals, Sequences, FiniteSets

CONSTANTS Readers, Writers,
          Closers, Openers,     \* threads that call Close and threads that call Open
          Timed,        \* the readers and writers with a timeout
          QueueSize,    \* of every Open
          MaxBytes,     \* bound on the bytes accepted
          MaxCount,     \* bound on the size of one Read or Write
          MaxOpens      \* bound on the calls of Open

ASSUME SizesAssumption == QueueSize \in Nat \ {0} /\ MaxBytes \in Nat
                          /\ MaxCount \in Nat \ {0} /\ MaxOpens \in Nat
ASSUME ThreadsAssumption == /\ Readers \cap Writers = {} /\ Closers \cap Openers = {}
                            /\ (Readers \cup Writers) \cap (Closers \cup Openers) = {}
                            /\ Timed \subseteq Readers \cup Writers

VARIABLES open,         \* whether os_handle is valid
          queueBuffer, queueLength, enqueuePos, dequeuePos,
          unempty, unemptyCond, unfull, unfullCond,     \* the sync points
          pc,
          count,        \* what is left of the request of a reader or writer
          lastWriteCount,
          copied,       \* history: what a writer has put in during this Write
          accepted,     \* history: the number of bytes accepted
          got,          \* history: the bytes read
          opens         \* history: the calls of Open

Controllers == Closers \cup Openers
Threads == Readers \cup Writers \cup Controllers

Unempty == INSTANCE SyncPoint WITH Threads <- Readers, signalled <- unempty, cond <- unemptyCond
Unfull  == INSTANCE SyncPoint WITH Threads <- Writers, signalled <- unfull, cond <- unfullCond

queue      == <<open, queueBuffer, queueLength, enqueuePos, dequeuePos>>
syncPoints == <<unempty, unemptyCond, unfull, unfullCond>>
history    == <<copied, accepted, got, opens>>
vars       == <<queue, syncPoints, pc, count, lastWriteCount, history>>

Goto(t, from, to) == pc[t] = from /\ pc' = [pc EXCEPT ![t] = to]
Smaller(a, b) == IF a < b THEN a ELSE b
Positions == 0 .. QueueSize - 1

Init == /\ open \in BOOLEAN
        /\ queueBuffer = [i \in Positions |-> 0]
        /\ queueLength = 0 /\ enqueuePos = 0 /\ dequeuePos = 0
        /\ Unempty!SPInit /\ Unfull!SPInit
        /\ pc = [t \in Threads |-> "idle"]
        /\ count = [t \in Readers \cup Writers |-> 0]
        /\ lastWriteCount = [w \in Writers |-> 0]
        /\ copied = [w \in Writers |-> 0]
        /\ accepted = 0 /\ got = <<>> /\ opens = 0

\* A position n bytes further, wrapped to the beginning of the buffer.
Advance(pos, n) == IF pos + n >= QueueSize THEN pos + n - QueueSize ELSE pos + n

\* The bytes queued, oldest first.
Contents == [i \in 1 .. queueLength |-> queueBuffer[Advance(dequeuePos, i - 1)]]

-----------------------------------------------------------------------------
(* Read.                                                                   *)

\* Mutant: unfull is signalled only by a Read that empties the queue.
MutTakeOut(r, n) ==
  /\ got' = got \o SubSeq(Contents, 1, n)
  /\ dequeuePos' = Advance(dequeuePos, n)
  /\ queueLength' = queueLength - n
  /\ IF queueLength = n /\ n < QueueSize THEN Unfull!Signal ELSE UNCHANGED <<unfull, unfullCond>>

\* Mutant: the position is not wrapped by what was read but set to the start.
MutTakeOutWrap(r, n) ==
  /\ got' = got \o SubSeq(Contents, 1, n)
  /\ dequeuePos' = IF dequeuePos + n >= QueueSize THEN 0 ELSE dequeuePos + n
  /\ queueLength' = queueLength - n
  /\ IF queueLength = QueueSize THEN Unfull!Signal ELSE UNCHANGED <<unfull, unfullCond>>

\* The loop that copies n bytes out, in one piece or two.
TakeOut(r, n) ==
  /\ got' = got \o SubSeq(Contents, 1, n)
  /\ dequeuePos' = Advance(dequeuePos, n)
  /\ queueLength' = queueLength - n
  /\ IF queueLength = QueueSize THEN Unfull!Signal ELSE UNCHANGED <<unfull, unfullCond>>

\* With the mutex: fail on a closed channel, wait for data, or copy what there is.
ReadLocked(r, wanted) ==
  \/ /\ ~open
     /\ pc' = [pc EXCEPT ![r] = "idle"] /\ count' = [count EXCEPT ![r] = 0]
     /\ UNCHANGED <<queue, syncPoints, got>>
  \/ /\ open /\ queueLength = 0
     /\ pc' = [pc EXCEPT ![r] = "wait"] /\ count' = [count EXCEPT ![r] = wanted]
     /\ UNCHANGED <<queue, syncPoints, got>>
  \/ /\ open /\ queueLength > 0
     /\ TakeOut(r, Smaller(wanted, queueLength))
     /\ pc' = [pc EXCEPT ![r] = "idle"] /\ count' = [count EXCEPT ![r] = 0]
     /\ UNCHANGED <<open, queueBuffer, enqueuePos, unempty, unemptyCond>>

Read(r) ==
  /\ pc[r] = "idle"
  /\ \E n \in 1 .. MaxCount : ReadLocked(r, n)
  /\ UNCHANGED <<lastWriteCount, copied, accepted, opens>>

ReadAgain(r) ==
  /\ pc[r] = "lock"
  /\ ReadLocked(r, count[r])
  /\ UNCHANGED <<lastWriteCount, copied, accepted, opens>>

ReaderSleeps(r) ==
  /\ pc[r] = "wait"
  /\ \/ r \notin Timed /\ (Unempty!WaitBlocks(r) \/ Unempty!WakeBlocks(r))
     \/ r \in Timed /\ (Unempty!TimedWaitBlocks(r) \/ Unempty!Expire(r))
  /\ UNCHANGED <<queue, unfull, unfullCond, pc, count, lastWriteCount, history>>

ReaderWakes(r) ==
  /\ Goto(r, "wait", "lock")
  /\ Unempty!WaitPasses(r) \/ Unempty!WakePasses(r) \/ Unempty!TimedWakePasses(r)
  /\ UNCHANGED <<queue, unfull, unfullCond, count, lastWriteCount, history>>

ReaderGivesUp(r) ==
  /\ Goto(r, "wait", "idle")
  /\ Unempty!ExpireReturns(r)
  /\ count' = [count EXCEPT ![r] = 0]
  /\ UNCHANGED <<queue, unfull, unfullCond, lastWriteCount, history>>

-----------------------------------------------------------------------------
(* Write.                                                                  *)

\* The loop that copies n bytes in, in one piece or two.
PutIn(n) ==
  /\ queueBuffer' = [i \in Positions |->
       LET k == IF i >= enqueuePos THEN i - enqueuePos ELSE i + QueueSize - enqueuePos
       IN  IF k < n THEN accepted + 1 + k ELSE queueBuffer[i]]
  /\ enqueuePos' = Advance(enqueuePos, n)
  /\ queueLength' = queueLength + n
  /\ accepted' = accepted + n
  /\ IF queueLength = 0 THEN Unempty!Signal ELSE UNCHANGED <<unempty, unemptyCond>>

\* With the mutex: fail on a closed channel, or copy what there is room for and
\* return or wait for more room.
WriteLocked(w, left, done) ==
  LET n == Smaller(left, QueueSize - queueLength) IN
  \/ /\ ~open
     /\ pc' = [pc EXCEPT ![w] = "idle"]
     /\ count' = [count EXCEPT ![w] = 0] /\ copied' = [copied EXCEPT ![w] = done]
     /\ lastWriteCount' = [lastWriteCount EXCEPT ![w] = 0]
     /\ UNCHANGED <<queue, syncPoints, accepted>>
  \/ /\ open
     /\ IF n = 0 THEN UNCHANGED <<queueBuffer, enqueuePos, queueLength, accepted, unempty, unemptyCond>>
                 ELSE PutIn(n)
     /\ pc' = [pc EXCEPT ![w] = IF n = left THEN "idle" ELSE "wait"]
     /\ count' = [count EXCEPT ![w] = left - n]
     /\ copied' = [copied EXCEPT ![w] = done + n]
     /\ lastWriteCount' = [lastWriteCount EXCEPT ![w] = IF n = left THEN done + n ELSE 0]
     /\ UNCHANGED <<open, dequeuePos, unfull, unfullCond>>

Write(w) ==
  /\ pc[w] = "idle"
  /\ \E n \in 1 .. MaxCount : accepted + n <= MaxBytes /\ WriteLocked(w, n, 0)
  /\ UNCHANGED <<got, opens>>

WriteAgain(w) ==
  /\ pc[w] = "lock"
  /\ WriteLocked(w, count[w], copied[w])
  /\ UNCHANGED <<got, opens>>

WriterSleeps(w) ==
  /\ pc[w] = "wait"
  /\ \/ w \notin Timed /\ (Unfull!WaitBlocks(w) \/ Unfull!WakeBlocks(w))
     \/ w \in Timed /\ (Unfull!TimedWaitBlocks(w) \/ Unfull!Expire(w))
  /\ UNCHANGED <<queue, unempty, unemptyCond, pc, count, lastWriteCount, history>>

WriterWakes(w) ==
  /\ Goto(w, "wait", "lock")
  /\ Unfull!WaitPasses(w) \/ Unfull!WakePasses(w) \/ Unfull!TimedWakePasses(w)
  /\ UNCHANGED <<queue, unempty, unemptyCond, count, lastWriteCount, history>>

\* The write count stays at the 0 it was set to on entry.
WriterGivesUp(w) ==
  /\ Goto(w, "wait", "idle")
  /\ Unfull!ExpireReturns(w)
  /\ count' = [count EXCEPT ![w] = 0]
  /\ UNCHANGED <<queue, unempty, unemptyCond, lastWriteCount, history>>

-----------------------------------------------------------------------------
(* Close and Open.                                                         *)

\* Close looks whether the channel is open before it has the mutex, and so does
\* the Close at the beginning of Open.
CloseCalled(c) ==
  /\ Goto(c, "idle", IF open THEN "close" ELSE IF c \in Openers THEN "open" ELSE "idle")
  /\ open \/ c \in Openers
  /\ c \in Openers => opens < MaxOpens
  /\ opens' = IF c \in Openers THEN opens + 1 ELSE opens
  /\ UNCHANGED <<queue, syncPoints, count, lastWriteCount, copied, accepted, got>>

CloseLocked(c) ==
  /\ Goto(c, "close", "unempty")
  /\ open' = FALSE
  /\ UNCHANGED <<queueBuffer, queueLength, enqueuePos, dequeuePos, syncPoints, count,
                 lastWriteCount, history>>

CloseWakesReader(c) ==
  /\ Goto(c, "unempty", "unfull")
  /\ Unempty!Signal
  /\ UNCHANGED <<queue, unfull, unfullCond, count, lastWriteCount, history>>

CloseWakesWriter(c) ==
  /\ Goto(c, "unfull", IF c \in Openers THEN "open" ELSE "idle")
  /\ Unfull!Signal
  /\ UNCHANGED <<queue, unempty, unemptyCond, count, lastWriteCount, history>>

\* The rest of Open, with the mutex: a new buffer, which nothing initialises.
Open(c) ==
  /\ Goto(c, "open", "idle")
  /\ open' = TRUE
  /\ queueLength' = 0 /\ enqueuePos' = 0 /\ dequeuePos' = 0
  /\ queueBuffer' \in [Positions -> {0}]
  /\ UNCHANGED <<syncPoints, count, lastWriteCount, history>>

Spurious == /\ \/ (\E r \in Readers : Unempty!SpuriousWake(r)) /\ UNCHANGED <<unfull, unfullCond>>
               \/ (\E w \in Writers : Unfull!SpuriousWake(w)) /\ UNCHANGED <<unempty, unemptyCond>>
            /\ UNCHANGED <<queue, pc, count, lastWriteCount, history>>

ReaderStep(r) == ReadAgain(r) \/ ReaderSleeps(r) \/ ReaderWakes(r) \/ ReaderGivesUp(r)
WriterStep(w) == WriteAgain(w) \/ WriterSleeps(w) \/ WriterWakes(w) \/ WriterGivesUp(w)
ControllerStep(c) == CloseLocked(c) \/ CloseWakesReader(c) \/ CloseWakesWriter(c) \/ Open(c)

Next == \/ \E r \in Readers : Read(r) \/ ReaderStep(r)
        \/ \E w \in Writers : Write(w) \/ WriterStep(w)
        \/ \E c \in Controllers : CloseCalled(c) \/ ControllerStep(c)
        \/ Spurious

\* A thread inside a call goes on; what is called, and when, is open.
Spec == /\ Init /\ [][Next]_vars
        /\ \A r \in Readers : WF_vars(ReaderStep(r))
        /\ \A w \in Writers : WF_vars(WriterStep(w))
        /\ \A c \in Controllers : WF_vars(ControllerStep(c))

-----------------------------------------------------------------------------
\* The values the variables take.
TypeOK == /\ open \in BOOLEAN
          /\ queueBuffer \in [Positions -> Nat] /\ queueLength \in 0 .. QueueSize
          /\ enqueuePos \in Positions /\ dequeuePos \in Positions
          /\ Unempty!SPTypeOK /\ Unfull!SPTypeOK
          /\ pc \in [Threads -> {"idle", "wait", "lock", "close", "unempty", "unfull", "open"}]
          /\ count \in [Readers \cup Writers -> Nat]
          /\ lastWriteCount \in [Writers -> Nat] /\ copied \in [Writers -> Nat]
          /\ accepted \in Nat /\ got \in Seq(Nat) /\ opens \in Nat

\* The channel implements the stream: every byte comes out once, in the order it
\* was accepted, however reads and writes are cut up and wrapped in the ring.
Stream == INSTANCE ByteStream WITH
            Capacity <- QueueSize, isOpen <- open, contents <- IF open THEN Contents ELSE <<>>
ImplementsByteStream == Stream!StreamSpec

\* A reader that waits although there are bytes or the channel is closed has a wake-up
\* under way, and so has a writer that waits although there is room or the channel is
\* closed, as long as there is one of each: one signal is given when the queue stops
\* being empty, one when it stops being full, and one of each by Close.  A second
\* Open could clear a full queue without a signal.
SignalDue(stages) == \E c \in Controllers : pc[c] \in stages
ReaderNotStranded(r) == Readers = {r} /\ pc[r] = "wait" /\ (~open \/ queueLength > 0)
                        => unempty \/ SignalDue({"unempty"})
WriterNotStranded(w) == Writers = {w} /\ pc[w] = "wait" /\ (~open \/ queueLength < QueueSize)
                        => unfull \/ SignalDue({"unempty", "unfull"})
OneOpener == \A c, d \in Openers : c = d
NoStrandedThread == /\ \A r \in Readers : ReaderNotStranded(r)
                    /\ OneOpener => \A w \in Writers : WriterNotStranded(w)

\* A reader gets out when there are bytes to read or the channel is closed for
\* good, a writer when there is room or the channel is closed for good.
Blocks(t)   == open /\ queueLength = IF t \in Readers THEN 0 ELSE QueueSize
CanGoOn(t)  == pc[t] # "idle" /\ ~Blocks(t)
Returned(t) == pc[t] = "idle" \/ Blocks(t)
BlockedReturn == \A t \in Readers \cup Writers : CanGoOn(t) ~> Returned(t)

\* "The GetLastWriteCount() function returns the actual number of bytes written"
\* (qchannel.h:94).
WriteCountIsActual == \A w \in Writers : pc[w] = "idle" => lastWriteCount[w] = copied[w]
=============================================================================
