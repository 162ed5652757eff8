# Verification of PTLib's concurrency core

PTLib is a C++ class library: threads, synchronisation objects, timers, containers, channels and sockets on
every operating system, and on top of them protocol stacks (FTP, SMTP, POP3, HTTP, STUN, XMPP, SNMP ...), audio
and video. What everything else stands on is its concurrency core: locks, queues, thread pools, timers and
reference counted objects that many threads use at once and of which the samples test only the ordinary paths.
This directory models that core in TLA+, model checks it on small instances and proves its main invariants for
instances of any size. The code meant is the POSIX build with its default options.

File names without a directory below are of `src/ptlib/common` (`osutils.cxx`, `safecoll.cxx`, `collect.cxx`,
`contain.cxx`, `pchannel.cxx`, `notifier_ext.cxx`), `src/ptlib/unix` (`tlibthrd.cxx`, `socket.cxx`, `channel.cxx`),
`include/ptlib` (`syncthrd.h`, `safecoll.h`, `timer.h`, `thread.h`, `contain.h`, `notifier_ext.h`) and `src/ptclib`,
`include/ptclib` (`threadpool.cxx`, `threadpool.h`, `qchannel.cxx`, `spooldir.cxx`, `psockbun.cxx`, `telnet.cxx`).

## 1. Inventory

| Component | State | Operations | Hard behaviours | What makes it correct |
|---|---|---|---|---|
| `PReadWriteMutex` | two counters, three mutexes, two semaphores, a `Nest` per thread | StartRead, EndRead, StartWrite, EndWrite, destructor | nesting, upgrades that let go of the read lock, reader against writer preference, destruction while in use | exclusion; a writer is not overtaken; every call returns; nobody inside after destruction |
| `PSyncPoint` | `signalled`, a condition variable | Wait, Wait(timeout), Signal | signal before wait, spurious and timed wake-ups | no signal is lost; one signal releases one waiter |
| `PSyncPointAck` | two sync points | Signal, Signal(timeout), Wait, Acknowledge | acknowledgement after the signaller gave up | Signal returns after the acknowledgement of its own request |
| `PCondMutex`, `PIntCondMutex` | a mutex, a sync point, a value | WaitCondition, Signal, assignments | many waiters, one wake-up | waiters get in once the condition holds |
| `PSyncQueue` | a queue, a state, a semaphore, a sync point | Enqueue, Dequeue, Drain, Close, Restart | commands against a blocked Dequeue, several closers | permits match items; draining loses nothing; nobody is left blocked |
| Thread pools | the list of workers, two maps, a queue per worker, an adaptive maximum | AddWork, RemoveWork, SetMaxWorkers, Shutdown, the worker loop | decisions on sizes read while workers run; stopping workers outside the mutex | works of a group run in order; limits hold; nothing is left after Shutdown |
| `PTimer` | a handle in the list, `m_running`, a callback mutex, queued works | Start, Stop, destructor, Process, OnTimeout | callback against Stop, restart by the callback | quiet after Stop; a running timer fires |
| `PSafeObject`, `PSafeCollection`, `PSafePtr` | counts and removal flags, collection, list of removals, clones | Append, Remove, RemoveAll, garbage collection, destructor; construction, copy, modes, Next, SetNULL | removal against use, deletion by whoever is last | deleted once, when unreferenced; removed objects are deleted |
| Threads and process | thread state, active threads, self-deleting threads, signal ring | creation, termination, housekeeping, shutdown | an object deleted by the thread that runs in it; shutdown order | each thread ended and deleted once; shutdown terminates |
| Semaphores, mutexes | permits; owner and depth | Wait, timed Wait, Signal | the build without `sem_t`; recursion | as POSIX |
| Notifiers | identifiers of live targets, queued callbacks | Create, call, destroy | the target dies between validation and call | no call of a dead target |
| `PQueueChannel` | ring buffer, two sync points | Open, Read, Write, Close | several readers, timeouts after part of the data, Close | bytes in order; nobody left blocked |
| `PIndirectChannel` | two channel pointers under a `PReadWriteMutex` | Open, Read, Write, Close, Detach | Close against a blocked Read, replacement | no use of a deleted channel |
| `PSpoolDirectory` | scanning thread, callback | Open, Close, scan | Close against the scan | Close returns |
| Containers | lists, red-black tree, hash tables, shared contents | insert, remove, search | rebalancing, positions, copy on write | agree with a plain sequence or map |
| Telnet, FTP, SMTP, POP3, HTTP, STUN | negotiation and session states | commands, answers, retransmission | crossed requests, lost and late answers | both sides agree, sessions stay in legal states |
| `PMonitoredSockets` | sockets per interface, users in a read | interface up and down, Read, Write, Close | a socket closed under its reader | no use of a closed socket |
| The rest | | | | input and output, data formats, drivers; see `components` in `PROJECT.json` |

Interactions. `PSyncPoint` is the member `ack` of `PSyncPointAck`, the sync point of `PCondMutex` and the member
`m_closed` of `PSyncQueue`. `PQueuedThreadPool` gives every worker a `PSyncQueue`. `PTimer::List` runs callbacks
as works of a `PQueuedThreadPool`, from the housekeeper thread of `PProcess`. `PSafeObject` is locked by a
`PReadWriteMutex`, `PSafeCollection` empties its list of removals from a `PTimer`. `PProcess` hands self-deleting
threads to the housekeeper through a `PSyncQueue`; `PIndirectChannel` protects its pointers with a
`PReadWriteMutex`. All of it is shared memory between threads of one process; nothing is persistent, so there are
no crashes to recover from.

`hazards` in `PROJECT.json` lists what can go wrong in this code that a test hardly reaches, each at its line and
with the properties below that would catch it, or the reason why none does.

## 2. Modules

| Module | Models | Checked in run |
|---|---|---|
| `RWLock` | the abstract lock: readers, writers, queued writers | refined in `rwmutex`, used in `channels` |
| `ReadWriteMutex` | `PReadWriteMutex` | `rwmutex` |
| `SyncPoint` | `PSyncPoint`, actions without threads | part of the next three and of `QueueChannel` |
| `SyncPointUse`, `SyncPointAck`, `CondMutex` | threads on one `PSyncPoint`; `PSyncPointAck`; `PIntCondMutex` | `process` |
| `SyncQueue` | `PSyncQueue` | `syncqueue`, `syncqueue_close_twice` |
| `ThreadPool`, `MCThreadPool` | `PThreadPoolBase`, `PThreadPool`, `PQueuedThreadPool`; four scenarios | `pool` |
| `Timer` | `PTimer`, `PTimer::List` | `process` |
| `SafeCollection` | `PSafeObject`, `PSafeCollection`, `PSafePtr` | `safecoll`, `safecoll_detach` |
| `ThreadLife` | `PThread`, the housekeeper and `~PProcess` | `threads` |
| `RunTimeSignals` | the ring of run-time signals of `PProcess` | `process` |
| `Notifiers` | validated and asynchronous notifiers | `process`, `notifier_wait` |
| `Containers` | the counted contents of `PContainer`, copy on write | `process`, `container_unique` |
| `SortedList` | the red-black tree of `PAbstractSortedList` | `process`, `sorted_compare` |
| `ByteStream` | the abstract stream: what was accepted, what was delivered | refined in `channels` |
| `QueueChannel` | `PQueueChannel` | `channels` |
| `IndirectChannel` | `PIndirectChannel` over `RWLock` | `channels` |
| `SpoolDirectory` | `PSpoolDirectory` and the programs that fill the spool | `channels` |
| `SocketBundle` | `PMonitoredSocketBundle`, down to `poll()` | `channels` |
| `InterfaceMonitor` | `PInterfaceMonitor`, its clients and its update thread | `channels` |
| `Telnet` | two `PTelnetSocket` that negotiate `TransmitBinary` | `channels` |
| `ProcessParts` | the timer and what uses `PSyncPoint`, signals, notifiers and contents side by side, with their properties | `process` |
| `MCProcess`, `MCChannels` | several of the above side by side, see section 3 | `process`, `channels` |
| `...Proofs` | theorems of the module of that name; `ProcessProofs` of `ProcessParts`, `ChannelProofs` and `TelnetProofs` of `MCChannels` | |

Conventions. Variables have the names of the members they model. `pc[t]` is the place of thread `t` in the code;
`Goto` moves it. One action is what the code does under one hold of a mutex, or one wait; code that touches only
its own thread's data is joined to a neighbouring step. A call that blocks is a step whose guard is what it waits
for. `Mut...` operators are mistakes that the properties are known to catch: each property of a passing run fails
when its mutant replaces the definition it follows.

### ReadWriteMutex
Every wait of `InternalStartReadWithNest`, `InternalEndReadWithNest`, `InternalStartWriteWithNest` and
`InternalEndWriteWithNest` (`osutils.cxx`, the default algorithm) is one action on the mutex or semaphore it
waits for; `pc` names it (`sr_`, `er_`, `sw_`, `ew_`). `StartRead`, `StartWrite`, `EndRead` and `EndWrite` are the
thread-local parts on the nest counts, with the upgrade, which releases the read lock before it waits for the
write lock, and the downgrade. The destructor waits for `m_nestedThreads` to be empty. `Readers`, `Writers` and
`QueuedWriters` are read off the locations; under that mapping the mutex implements `RWLock`.

### SyncPoint, SyncPointUse, SyncPointAck, CondMutex
`SyncPoint` splits Wait at `pthread_cond_wait`: block, be woken (by a signal or spuriously), pass. The timed Wait
returns on any wake-up without another look at `signalled`, as the code does (`tlibthrd.cxx:1467`).
`SyncPointAck` adds the server loop the class documents, and records which requests were begun and acknowledged;
`CondMutex` adds the mutex and the loop of `WaitCondition`.

### SyncQueue
`Dequeue` is split where it lets go of `m_mutex` (before and after the wait for `m_available`); `Drain`, `Close`
and `Restart` are one action each, and the wait for `m_closed` another. A timeout is possible at every wait.

### ThreadPool
`AddWork` with `AllocateWorker`, `RemoveWork`, and the loops over `m_workers` hold `m_mutex` and are one action
each. A worker's loop is split between `Dequeue`, setting `m_working`, the work, `RemoveWork` and clearing
`m_working`, because `GetWorkSize()` is read from outside in between. `SetMaxWorkers`, `ReclaimWorkers` and
`Shutdown` stop workers outside the mutex, step by step. A worker's queue is a sequence with the promise that
`SyncQueue` establishes; latency is a nondeterministic choice. What the constructor sets is in variables: any maximum of the
constants, a limit of units, and for the limit up to which workers raise the maximum the larger of the maximum and the argument, as the code does.

### Timer
One timer, its user, the housekeeper's `Process()` and the pool's threads. What is done under `m_timersMutex` is
one action; `m_callbackMutex` is recursive and held through the callback, which may stop or start the timer.
Time is left out: a running timer may be found expired at any moment.

### SafeCollection
`Append`, `Remove`, `RemoveAll` and the destructor by managers, `DeleteObjectsToBeRemoved` by the timer thread
and by `RemoveAll(true)`, and users with one `PSafePtr` each, made from the collection (on a clone of it) or from
an object. What is done under one hold of an object's `m_safetyMutex` is one action; `SafeRemoveObject` is its
three steps mark, append, dereference. The object's lock is the one `ReadWriteMutex` models and is a guard here.

### ThreadLife
A `PThread` is an object and a thread of the system with a place `pc` in `PX_ThreadMain` (`InternalPreMain`, `Main`,
`InternalPostMain`), which locks nothing but its suspend mutex and the lists. `m_threadId` is reused as soon as the
system is done with it. `WaitAndDelete`, `SetAutoDelete` and the destructor of `PThread` are calls of owners or of the
thread itself; `DeleteQueued` is what the housekeeper does with `m_autoDeleteThreads`; `ShutDown` to
`TerminateRemaining` is `~PProcess`. `InternalPreMain` is two steps, the state under the suspend mutex and after it the reset of the sync point. Waits with a limit of a few milliseconds may always end; a thread ends within the
second its destructor allows it. Suspending a running thread is left out.

### RunTimeSignals
The ring with its `In` and `Out` indices, posted to by signal handlers and emptied by the housekeeper. `overrun` says
that a signal was posted into a full ring, which the code has no test for; order and completeness are promised up to then.

### Notifiers
The table of identifiers, the map of queues with its one mutex, callers of both kinds of notifiers and targets that
take callbacks out or are destroyed. The semaphore of a queue counts what the queue holds and is its length here.
`Endless` says whether `Execute` may be called with a wait that has no limit.

### Containers
Instances that share a reference: copy, assignment, destruction and `MakeUnique`, which is split where the code reads
or changes the atomic count and where it copies the contents. `raced` says that one thread touched the count of
contents that another was about to divide or copy.

### SortedList
One thread; the tree with its colours and counts of subtrees, and beside it the sequence it stands for. An operation
is one action and its loops are recursive operators; left and right are a parameter. `Compare` is split into the
steps of its loop because that loop is the question. `FoundInPlace` asks every query of every state for its answer.

### QueueChannel
The code between two points at which `mutex` is free is one action: `ReadLocked` and `WriteLocked` with `TakeOut` and
`PutIn`, the waits for `unempty` and `unfull` (instances of `SyncPoint`), the steps of `Close`, and `Open`, which takes
the mutex around all of it. The ring is kept with its two positions, so that wrapping round is modelled; bytes are
numbers in the order in which they were accepted. Mapped to `delivered` and `accepted` it implements `ByteStream`.

### IndirectChannel
Read and Write hold the lock of `RWLock` for reading while the channel below blocks; Close closes below under the
read lock and deletes under the write lock, Open and Detach change the pointers under the write lock. `Open` says for each
of its two channels whether the indirect channel is to delete it. A channel below
returns when it is closed or when something happens outside.

### SpoolDirectory
The scan goes file by file: the directory is copied, each file looked at, its lock directory looked for, the file
processed, with the programs that create the lock directory, write and remove the lock directory in between. A
Close or an Open of an open spool holds `m_mutex` until the thread is gone.

### SocketBundle, InterfaceMonitor
`SocketBundle` has a lock, the map from interfaces to sockets with `m_inUse`, and readers that give the lock up for
`Select()`; that is `poll()` with the pipe a socket is aborted through, so closing a socket wakes its reader. `DestroySocket`
gives the lock up in naps until the reader is out or the limit is reached. `raced` says that another thread
changed the map during such a nap or that the monitor had seen the bundle open before it was closed, `late` that the
reader did not come out in time. `InterfaceMonitor` starts its thread with its first client and stops it with
its last; `Stop` waits without `m_threadMutex`; `overlapped` says that two of them ran at a time.

### Telnet
Each end has the state of its own side and of the other's, as `OptionInfo` has, and a wire of bytes and commands. The eight
handlers are `AskYes`, `AskNo`, `OnYes` and `OnNo` with the side as a parameter. Data is plain bytes, CR, NUL and IAC, read
byte by byte in the states of `Read`; a CR or an IAC is two writes, and a command can come between when two
threads use a socket, which the run leaves out (`OneThread`).

## 3. Runs

All configurations are small enough to be explored completely; symmetry is not used, since every passing run
checks liveness.

| Run | Instance | What it shows |
|---|---|---|
| `rwmutex` | 3 threads, nesting 2, 2 Start calls each; 72,049 states | `MutualExclusion`, `DestroyedUntouched`, the refinement `ImplementsRWLock` (which contains that no reader overtakes a queued writer), `EveryCallReturns` |
| `syncqueue` | 2 consumers, 2 controllers, 2 items, 2 commands; 485,616 states | `PermitsCoverItems`, `DrainLosesNothing`, `CloseWaitsForOneDequeue`, `FailureMeansClosed`, `DequeueUnblocks` |
| `pool` | four scenarios, up to 4 works and 3 workers; 277,609 states | `WorksAccountedFor`, `OrderOfGroups`, `LimitsHold`, `ShutdownIsSafe`, `CallsReturnAndWorkRuns` |
| `safecoll` | 2 users, a manager, the timer thread, 2 objects, 3 calls on pointers; 758,000 states | `CountsMatch`, `DeletedOnceUnreferenced`, `RemovalAwaited`, `RemovedGoesForGood` |
| `threads` | a main thread, one that creates and deletes, a manual and an automatic thread, a housekeeper, 3 identifiers; 443,318 states | `NothingReachesDeleted`, `RunningIsFound`, `DestroyedAfterMainUnlessRaced`, `HouseIsKept` |
| `process` | see below; 94,696 states | `RunningIsListed`, `QuietUnlessRestarted`, `TimerFires` of the timer; `OneReleasePerUntimedSignal`, `AcknowledgedUntilTimed`, `NoWakeUpLost` of what is built on `PSyncPoint`; `DeliveredInOrder` of run-time signals and notifiers; `ContentsIntactUnlessRaced`; `TreeIsRight`; `EveryWaitEnds` |
| `channels` | see below; 416,424 states | `NoStrandedThread`, the refinement `ImplementsByteStream`; `DeletedWhenUnused`; `ProcessedWhole`; `SocketsSafe`; `NotCalledOnceRemoved`; `DataAndOptionsAgree`; `EveryWaitEnds` |

`process` and `channels` each put systems that do not interact side by side. A behaviour is about one of them, which
the variable `part` names, and the others stay as they are initially, so that the states add up and do not
multiply. In `process` these are a timer with 2 pool threads and 3 starts; 3 threads on a sync point with 4 signals; an
acknowledging server and its client with 5 signals; 3 threads on a `PIntCondMutex`; a ring of 3 run-time signals
and 5 posts; 2 callers, an asynchronous and a validated target; 2 threads that share contents under up to 4
references; sorted lists of up to 5 objects of 3 values in every order of operations, and of up to 8 objects appended in
ascending order and removed in any. In `channels`: a queue of 2 bytes with a reader, a writer, a closer and an opener over
4 bytes in pieces of up to 3; 3 threads on an indirect channel over 2 channels; a spool of 2 files with its
scanner and 2 controllers; a reader, a controller and the monitor on a bundle of 2 interfaces; an interface monitor with 2
clients, a main thread and 3 starts; 2 telnet ends with 2 requests and 2 bytes of data. Behaviours of the bundle are not followed past `raced` and `late`, of which
its properties say nothing.

Why these bounds are enough to be worth checking. Three threads on the lock are a writer inside, a writer queued
and a reader, or two readers that upgrade against a writer; a second Start call makes nesting, upgrade and
downgrade possible. Four signals over three waiters include signals before, during and after a wait. Two
consumers and two controllers on the queue bring in every pair of Dequeue, Drain, Close and Restart, two commands
each a restart of a closed queue. Four works over three workers fill a worker and a group while another worker is
stopped or created. Three starts of a timer are the start, the restart by the user and the one by the callback. Two
objects let an enumeration go past a removed one; three calls on pointers are a construction, a copy and a change of mode or Next.
Three identifiers for five objects make an identifier be used again while the thread that had it before is still
on its way out, and a main thread that shuts down while the other creates and deletes. A queue of two bytes under pieces of three wraps
round, fills and empties within one call. Five posts to a ring of three pass its end and overrun it. Two crossing
requests are every pair of them, repeated, taken back or answered. Five objects of which two pairs are equal take the tree
through each case of insertion; the cases of removal in which a rebalancing goes up several levels need the eight.
Deadlock is checked except where the system comes to rest (a destroyed lock, all signals given, a destroyed collection).

Fairness. Threads that can take a step take it (weak fairness of each thread's steps inside a call); whether and when
a thread begins a call is left open. Beyond that: a holder of the lock ends its call, the server of a
`PSyncPointAck` goes on serving, consumers of a queue dequeue until Dequeue fails, works, callbacks and the `Main` of
threads return, a `PSafePtr` goes out of scope, a telnet end reads what has arrived. Of the channels below a `PIndirectChannel`, the data of a
`PQueueChannel`'s partner and datagrams for a socket nothing is assumed: they may never come. Strong fairness is assumed
once, of `Stop()` taking the callback mutex: callbacks of a timer are at least an interval apart, so the mutex is free
for most of the time. In `process` and `channels` the conditions are those of the modules, grouped by actor: `FairStep(a)` is
what actor `a` does in the part the behaviour is about, which is one condition for each actor of each part since a behaviour never
changes its part. No fairness is assumed among threads that wait for the same mutex other than through the bounds on
calls.

### Disagreements between the code and what it says

| Run | What TLC finds |
|---|---|
| `syncqueue_close_twice` | The second of two `Close(true)` returns while `Dequeue` is still inside, since the first has overwritten `e_Blocked` (`syncthrd.h:703`). `CloseWaitsForOneDequeue` shows what does hold. |
| `safecoll_detach` | The destructor of `PSafeCollection` finds an object referenced, its last `PSafePtr` lets go, and the destructor clears `m_safelyBeingRemoved` (`safecoll.cxx:293`): nobody deletes the object. |
| `sorted_compare` | `PAbstractSortedList::Compare` goes down the other list's tree until it meets the `nil` of its own (`collect.cxx:658`): the comparison of two lists that are not empty never ends. |
| `notifier_wait` | `Execute` of an asynchronous target waits for a notification with the mutex that `Queue` needs (`notifier_ext.cxx:205`): the notification cannot end the wait, and all other notifications wait with it. `EveryWaitEnds` shows that the limit of the wait is what frees them. |
| `container_unique` | `MakeUnique` gives its reference up before the contents are copied (`contain.cxx:167`): when the other instance, in another thread, goes in between, the contents are freed under the copy. `ContentsIntactUnlessRaced` shows that this is the only way. |

Others were met while modelling. Each is stated in a module, or is the exception a property names, and has no run of its own:

- `PSyncPointAck::Signal(wait)` that timed out: its acknowledgement is taken by the next `Signal()`, which returns before its
  own operation is done (`osutils.cxx:4184`). `AcknowledgedUntilTimed` shows that timed calls are the only cause.
- A `PSyncPoint::Wait` with a limit returns on any wake-up without another look at `signalled` (`tlibthrd.cxx:1467`): it can take
  a signal that somebody else has had (`OneReleasePerSignal`). `OneReleasePerUntimedSignal` shows that timed waits are the only cause.
- A `Dequeue` that finds the queue closed signals `m_closed` whether or not somebody waits for it (`syncthrd.h:668`); a later
  `Close(true)` takes that signal and returns with another `Dequeue` inside. `CloseWaitsForOneDequeue` excepts consumers that have
  found the queue closed before (`failed`).
- A work whose group is with a worker goes to that worker even when `ReclaimWorkers` has chosen it; `StopWorker` closes the queue and
  the work is dropped (`threadpool.cxx:161`). `UngroupedKept` shows that only works that follow their group are lost in this way.
  A worker that fails to start is deleted, and what it was given is never run (`threadpool.cxx:73`).
- `ReclaimWorkers` stops a worker that has taken a unit off its queue and not yet set `m_working`
  (`threadpool.h:463`), although only idle workers are meant to be stopped (`ReclaimsIdleWorkers`).
- A worker that raises the maximum reads it with and writes it without `m_mutex` (`threadpool.h:522`): a slow one puts an old, lower value back,
  and there are then more workers than the maximum (found with a limit of 4 workers and 7 works). `LimitsHold` therefore
  speaks of the limit up to which workers raise the maximum.
- A one-shot timer that its callback starts again while `Stop()` waits can expire before `Stop()` tests `m_running`
  (`osutils.cxx:1645`), and is called after `Stop()` or the destructor has returned (`QuietAfterStop`).
- `RemoveAll(true)` waits until the list of removals is empty; an object that the timer thread has taken off it and not yet deleted
  is not seen (`safecoll.cxx:405`), and is deleted after `RemoveAll` has returned. `RemovalAwaited` excepts an object in another
  thread's hand.
- The ring of run-time signals has no test for being full: when `In` catches up with `Out` it counts as empty and all it held
  is forgotten (`osutils.cxx:3006`; the history variable `overrun`).
- `WaitAndDelete` of a thread that has been created and not yet taken its first step finds it terminated and deletes it
  (`thread.h:183`; `DestroyedAfterMain`, the history variable `early`).
- A thread that has passed the test of `m_shuttingDown` in `SignalTimerChange` can start a second housekeeper while `~PProcess`
  ends the first (`osutils.cxx:2645`; the history variable `late`).
- A `Write` of `PQueueChannel` that times out after part of its data reports that it wrote nothing (`qchannel.cxx:209`;
  `WriteCountIsActual`).
- Two threads that call `Open` of a closed `PQueueChannel`: both find it closed, and the second empties a queue that is in use by
  then, without signalling `unfull` (`qchannel.cxx:61`). A writer that waits for room is left asleep (`OneOpener` in `NoStrandedThread`).
- `PIndirectChannel::Detach(ShutdownRead)` leaves the channel it gives back in place for writing, to be closed and deleted
  with the indirect channel (`pchannel.cxx:878`; `DetachedStaysOpen`). An Open or Detach queued behind a blocked Read
  keeps a Close from the lock it would need to end that Read.
- `PSpoolDirectory::Close` waits for the scanning thread with the mutex that thread locks at the start of a scan
  (`spooldir.cxx:68`): caught there, both wait for ever. `CloseReturnsUnlessCaught` shows that this is the only place.
- A validated notifier's target can be destroyed between the look at the table and the call (`notifier_ext.h:140`;
  `CallsOnlyWhatExists`).
- `PInterfaceMonitor` can lose its thread when a client is added while the last one's Stop waits (`psockbun.cxx:110`;
  `ClientsAreServed`), and two Stops delete the thread twice (`overlapped`).
- In a bundle that several threads close or change, a socket can be deleted under a reader, or an entry be lost from the
  map (`psockbun.cxx:505`, `996`, `1090`; `raced`, `NeverUsesErased`). A second reader is refused when it comes upon the sockets of the
  first, but not when it came in before there were any: it clears `m_inUse` of the other's sockets as it leaves
  (`psockbun.cxx:1071`), and they can be deleted in the other's `Select` (found with two readers and one controller; a hypothesis of `SocketsSafe`).
- Telnet: a request repeated while it is negotiated makes the end forget that an answer is due (`telnet.cxx:306`,
  `Repeated`); `OnDont` answers a queued request with DO where WILL is meant (`telnet.cxx:739`, `Requeued`); two threads that
  use one socket can put a command between the two bytes of an escaped character; data that crosses a change of mode
  is read by the wrong rule unless the change travels with the data (`InStep`).

## 4. Proofs

TLAPS checks the following for every value of the constants that their assumptions allow.

`ReadWriteMutexProofs` (assuming a finite set of threads and natural bounds). The inductive invariant is
`TypeOK /\ MutexInv /\ NestInv /\ CountInv /\ SemaphoreInv /\ DestroyInv`: the owners of the three mutexes agree
with the locations; nest counts agree with the locations; the two counters are the cardinalities of the threads
that have counted themselves in; a semaphore's permit is missing exactly when some reader or writer has
it; a destroyed mutex has nobody in it. `MutualExclusion` alone is not inductive: that a writer excludes readers rests
on which thread took which semaphore on behalf of which group, which is what `CountInv` and `SemaphoreInv` say.
From it follow `TypeCorrect`, `Exclusion`, `PermitsBounded`, `SafeDestruction`, `WriterPreference` and
`Refinement`: every step of the mutex is a step of `RWLock` or leaves it alone (`SetStep`, `AbstractActions`).

`ProcessProofs`, on the parts of `ProcessParts`, each for any values of its constants. `OneReleaseUntilTimedWait`: as long as
no thread waits with a timeout, one Signal releases at most one Wait, by an invariant that balances signals, releases and
the flag. `WakeUpsReachSleepers` has two parts. That a set sync point has woken one of its sleepers is inductive with the types
(`WokenStep`). For `PIntCondMutex` the invariant follows the sync point from the thread that leaves to the one it lets out: the mutex belongs to the thread
inside (`OwnerInside`), a thread that is about to sleep found the condition false (`UnlocksInVain`), and when the condition holds
and nobody is inside but somebody sleeps, the sync point is set or somebody is on the way to the mutex (`SleepersLetOut`).
`SignalIsAcknowledged`: a request of the client is in one place, not made, asked, being served or acknowledged (`Idle`, `Asked`, `Served`,
`Acked`), and both sync points are set or clear accordingly. That there is one client is the hypothesis, in `ProcessParts` by the instance; with
two of them the acknowledgement of one ends the Signal of the other. `DeliveredOnceInOrder`: the ring from `Out` to `In` holds the
signals after those handled (`RingInv`, until it is overrun), and what a target's queue holds continues what was called of it
(`CallbacksOf`). `ContentsAreIntact`: the count of a reference is the number of instances that have it (`Counted`), an instance's array is that of its
reference, except while `MakeUnique` copies it (`PointsToOwn`), and a thread in the middle of `MakeUnique` is not overtaken: whoever divides shares the contents with
another, whoever copies has something left to copy from, and whoever writes is alone (`NotDisturbed`). The assumptions are a finite
set of threads and a value `None` that is no reference. `RunningTimerListed` and `StopIsQuiet` of the timer are from an invariant that says who holds the callback mutex
and that nobody can reach the callback once the timer is off the list and the mutex has been had.

`SyncQueueProofs`, for any number of consumers and controllers. `QueueCovered`: a queued item has a permit or a
Dequeue that is about to pop, from an invariant that balances permits against items and the threads between the wait and
the pop. `DrainHandsAllOut`: as long as nothing but Drain was called the items come out complete and in order, since
what is queued is always the rest of what was accepted. `CloseWaits`: the wait of a lone controller for `m_closed` is ended by
the Dequeue it waits for; the invariant counts that at most one token of `m_closed` can be on its way. `FailureIsClosed` follows
the state of the queue from the wait to the return.

`ThreadLifeProofs`: `ThreadsAreFound`, for any number of threads, objects and owners. The invariant says that no two
threads of the system have one identifier, that a thread is under its own in the map from before its first step, and
that whoever takes an entry out takes out its own; without the middle part a reused identifier could lose its new entry.
`DeletedIsOutOfReach` and `DestroyedHasEnded` are about who may delete what. Their invariant `LifeInv` names the claims there can be to
an object (its creator's, `m_houseKeeper`'s, that of the owner who waits for it, the thread's own, the queue's of self-deleting
threads). A claim is to an object that is alive, and excludes the other claims (`Claimed`) and others of its kind (`Single`);
destruction is begun once and is under way in one place (`Destroyed`); the thread of a freed object has left it and is on no
list (`Left`); and while `~PProcess` is not there yet no housekeeper is destroyed (`House`). A deletion then uses up the only claim, which is why there is no second one.
The invariant was model checked with one and with two housekeepers before it was proved.

`ChannelProofs`, on the parts of `MCChannels`, each for any values of its constants. `ChannelImplementsByteStream`, for any size of the ring and any number of threads. The invariant
`RingInv` places the two positions and says that the ring holds the bytes after those delivered up to those accepted; from it the bytes
a read takes out, in one piece or round the end, are the next ones (`TakeOutIsPrefix`), and a write appends (`PutInAppends`).
`NobodyStranded`: a reader that waits beside bytes, a writer that waits beside room, and either on a closed channel, has been signalled
or somebody is on the way to signal it. A signal is given only when the queue stops being empty or full, so the invariant has to say
what is true of a queue that is neither and of the two signals `Close` still owes after it let go of `mutex`. One reader, or one
writer, is the hypothesis (`PQueueChannel` has one signal for all of them), and for the writer one opening thread, see section 3.
`SpoolProcessesWhole`: a file that is not whole has its lock directory, and between `TestLock` and `Process` nobody makes one, because
the file is still there. `IndirectDeletesUnused`: who is in a channel holds the lock of `RWLock` and the channel is one the class
has; a channel is deleted or given back under the write lock, with nobody inside, and those given back are never those it
has. `DetachRead` breaks the last part, which is why the instance has `HalfDetach` FALSE. `MonitorCallsClients`: unless two Stops ran at a time, the
one thread that calls the notifiers does so with `m_notifiersMutex`, and the one Stop there is waits for the thread that was started last.
`BundleIsSafe`: as long as nothing has raced there is one thread that changes the map, its naps included (`Alone`), the
entry it is about to destroy is there (`Victims`), no two entries have one socket (`Entries`), and what a lone reader waits for is marked as
in use in its entry, or has been replaced there and is deleted by nobody (`Reading`). The numbers `OpenSockets` gives to new
sockets are a choice of the model; `Numbered` shows that there is one. It was model checked before with two controllers and with two readers (223,447 and 418,446 states).

`ThreadPoolProofs`: `PoolAccountsForWorks`, for any number of works, workers, groups and threads that command the pool. `MapsAgree` alone
is not inductive: `RemoveWork` of one worker could take away an entry that
another still needs. The invariant adds that a work is held once, in one queue or as one worker's item (`HeldOnce`, `Busy`),
by the worker the map names (`Owned`, `Served`), that a work not yet added is known to neither map (`Fresh`), and that the count
kept for a group is the cardinality of its works in the map (`Counted`). That works without a group are kept (`UngroupedKept`) follows once
it is known that a worker that has left the list to be stopped holds none of them in its queue (`FollowersOnly`): its queue was empty when
`ReclaimWorkers` chose it, and works without a group go to workers of the list. `PoolOrderOfGroups`: a worker holds its works in the order of
`AddWork` (`Ascending`), those of one group that are still to run are with one worker (`Together`), and a work that nobody holds is done or
was dropped with a worker that was stopped (`Accounted`); so what runs has nothing of its group before it. `PoolShutdownIsSafe`, under
the hypothesis that no controller but the one that shuts down changes the maximum from outside (`Reclaimers \cap Controllers = {}`;
works may): every worker is on the list, gone, or being stopped by somebody (`Watched`), and of any set of workers one is stopped by
none of them (`NoCircle`). When the list is empty every worker left would be stopped by another one that is left; such a chain has no
end, and there are finitely many workers. A controller that is inside `ReclaimWorkers` is not waited for by `Shutdown`, hence the hypothesis.
`PoolLimitsHold`, for any arguments of the constructor. That the list keeps to `m_workerIncreaseLimit` is not inductive: a maximum raised above it, or
a worker about to write such a maximum, would let the list grow later, so both are in the invariant (`Risen`). `AllocateWorker` also takes a new
worker on, whatever the maximum, when it finds none that it can use: then all it found have terminated and are gone, because the workers
of the list are not being stopped (`Active`, `NoneSurvive`), and the new one is alone. For the units, a work goes to a worker with fewer than
the limit in its queue (`Loaded`); to a known group `AddWork` gives without a look at the size, hence the condition in `UnitsExceededByOne`,
and for it that a work not yet added has no group (`Ungrouped`). The one unit more is the work between `Dequeue` and
`m_working`: it is in neither part of `GetWorkSize`, and is counted once another has been queued in its place.
The invariant was model checked with the instance of `pool` before it was proved.

`TelnetProofs`, on the ends of `MCChannels`: `TelnetIsIntact`, for any number of requests and writes between two willing ends, each of one thread. Neither half
is inductive, because both speak of what is there when the wires are empty or the data has arrived. For the agreement the invariant
(`AgreeInv`, unless a request to enable was made while one to disable was unanswered) gives every byte on a wire the state in which `OnRead` will
meet it, so that the commands can be told from data, and relates the states of the two ends, for each side of the option, to the commands
still on their way (`Agree`): where the two differ, or both have asked, the commands that will settle it are on one of the wires (`Pending`), and the last
command still on its way from an end that has asked is not the opposite of what it asked for. What matters of the commands is only which are there, which is last, and which comes after which (`Has`, `Closes`, `Follows`), and each
handler is shown to keep the relation (`AskKeepsAgree`, `YesKeepsAgree`, `NoKeepsAgree`). For the data (`DataInv`) each byte has the point at which it
will be read: the state and the mode of the reader there, and how much it will have delivered. That the point after the last
byte is the writer's is the heart of it (`OnItsWay`): a change of mode is in the stream where the writer changed.

`SafeCollectionProofs`, for any number of users, managers and objects. `CountsAreReferences`: every step changes the count of an
object by as much as it changes the set of its holders, clones, owners, and the collection or list it is in. `NothingDeletedInUse`:
whoever sees the last reference go is alone with the object, because the count is the number of references, an object is in the
collection, in the hands of one manager or on the list of removals (`Custody`), and whoever destroys the collection is the
last to use it (`Alone`). `RemoveAllWaits`: `AwaitInv` follows each object `RemoveAll(true)` has to see removed from the collection, while the
caller holds its mutex, into its hands, to the list of removals, and to its deletion or to the thread that has it in hand for
deletion; nothing takes an object from that list but to delete it, until the destructor. `RemovedIsNotTakenAnew`: a marked object has left the collection
(`MarkedIsOut`), so that no enumeration finds it, and all other ways to a reference look at the mark first; that removed objects are
deleted in the end remains with TLC. That no function of a
collection runs while it is destroyed is an assumption, the guard of `Destroy`.

Model checked only: liveness, which the prover does not support, and `TreeIsRight` of `SortedList`, whose loops are recursive
operators and whose claim is one of induction over trees, both beyond the prover. Every other invariant of a passing run is a theorem.

## 5. Not modelled

Within the modelled components: instrumentation, tracing, deadlock detection and names of locks; real time, which makes every
limit of a wait a choice; suspension of running threads; the Windows and other ports; allocation failures; a client of
`PInterfaceMonitor` that removes a notifier while it is being notified. `m_notifiersMutex` is recursive, so the code would let it: it would
erase the element the loop of `OnInterfacesChanged` is at, and as the last client stop the update thread from that thread. The two
clients of the source remove theirs in their destructors (`psockbun.cxx:875`, `1124`). What else is left out of
a component is in its note in `PROJECT.json`.

Components without a module, by the reason. Data handling by one thread (formats and encoders, the stream buffer of
`PChannel`, strings, lists and hash tables, codecs, converters of video): functions of large inputs without
states to explore, which tests reach. Sessions of one thread (FTP, SMTP, POP3, HTTP, STUN, XMPP, SNMP): what is hard in them
is the parsing of a line or the operating system's sockets, and their states are a flag or two. Calls into the system or into
another library (sockets, TLS, DNS, sound and video devices, configuration, scripting). They are most of the lines of
the repository, which is why the modules cover a small share of them.

## 6. Plan

Done, in this order: the lock, the sync points, the queue, the pools, timers and safe collections; the life of threads
with the housekeeper and the end of the process; channels; notifiers, containers and the sorted list; sockets per interface
and the telnet negotiation; proofs of the lock, the sync point and what is built on it, run-time signals, notifiers and shared contents, the queue, the timer, the threads and their deletion, the queue
channel and its wake-ups, the spool, the indirect channel, the interface monitor and the bundle, the telnet ends, the maps, order, limits and end of the pools, the counts and removals of the safe collection.

What is worth doing next: the STUN transaction with lost and late answers; `PSingleMonitoredSocket` and writing to a bundle; `PHashTable` positions; the composition of `PQueuedThreadPool` with `SyncQueue` itself in place of its promise.
