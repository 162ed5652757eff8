--------------------------- MODULE SpoolDirectory ---------------------------
(***************************************************************************)
(* PSpoolDirectory of src/ptclib/spooldir.cxx: a thread that scans a       *)
(* directory, programs that put files into it between CreateLockFile and   *)
(* DestroyLockFile, and threads that open and close the spool.  m_mutex is *)
(* held across a Close, and for the rest only inside one action.           *)
(***************************************************************************)
EXTENDS FiniteSets

CONSTANTS Files,        \* the names in the directory; each has its producer
          Controllers,  \* the threads that call Open and Close
          Nobody

NobodyAssumption == Nobody \notin Controllers

VARIABLES holder,           \* of m_mutex, while it waits for the thread
          m_threadRunning,
          scanner,          \* where the thread of the spool is
          listed, seen,     \* of the scan: the entries found by Open, and those given so far
          entry,            \* the one in ProcessEntry
          file,             \* what is in the directory
          lockFile,         \* the lock directories
          pc                \* of the controllers

disk  == <<file, lockFile>>
scan  == <<listed, seen, entry>>
spoolVars == <<holder, m_threadRunning, scanner, scan, disk, pc>>

SpoolInit == /\ holder = Nobody /\ m_threadRunning = FALSE
             /\ scanner = "none"
             /\ listed = {} /\ seen = {} /\ entry \in Files
             /\ file = [f \in Files |-> "absent"] /\ lockFile = {}
             /\ pc = [c \in Controllers |-> "idle"]

Goto(from, to) == scanner = from /\ scanner' = to
Present == {f \in Files : file[f] # "absent"}

-----------------------------------------------------------------------------
(* The producers: a name is used anew only when its file is gone.          *)

CreateLockFile(f) == /\ f \notin lockFile /\ file[f] = "absent"
                     /\ lockFile' = lockFile \cup {f}
                     /\ UNCHANGED <<holder, m_threadRunning, scanner, scan, file, pc>>

WriteFile(f) == /\ f \in lockFile
                /\ file' = [file EXCEPT ![f] = IF @ = "absent" THEN "partial" ELSE "complete"]
                /\ UNCHANGED <<holder, m_threadRunning, scanner, scan, lockFile, pc>>

DestroyLockFile(f) == /\ f \in lockFile /\ file[f] = "complete"
                      /\ lockFile' = lockFile \ {f}
                      /\ UNCHANGED <<holder, m_threadRunning, scanner, scan, file, pc>>

-----------------------------------------------------------------------------
(* ThreadMain.                                                             *)

TestRunning == /\ scanner = "test"
               /\ scanner' = IF m_threadRunning THEN "lock" ELSE "ended"
               /\ UNCHANGED <<holder, m_threadRunning, scan, disk, pc>>

CopyDirectory == /\ Goto("lock", "open")
                 /\ holder = Nobody
                 /\ UNCHANGED <<holder, m_threadRunning, scan, disk, pc>>

\* An empty directory does not open; the thread sleeps and starts again.
OpenScanner ==
  /\ scanner = "open"
  /\ listed' = Present
  /\ seen' = {}
  /\ \/ \E f \in Present : entry' = f /\ scanner' = "info"
     \/ Present = {} /\ scanner' = "test" /\ UNCHANGED entry
  /\ UNCHANGED <<holder, m_threadRunning, disk, pc>>

\* ProcessEntry: an entry that has gone is left out ...
GetInfo == /\ scanner = "info"
           /\ scanner' = IF file[entry] = "absent" THEN "next" ELSE "locked"
           /\ UNCHANGED <<holder, m_threadRunning, scan, disk, pc>>

\* Mutant: the lock is taken for gone when the file is there.
MutTestLock == /\ scanner = "locked"
               /\ scanner' = IF file[entry] = "absent" THEN "next" ELSE "process"
               /\ UNCHANGED <<holder, m_threadRunning, scan, disk, pc>>

\* ... and so is one with a lock; OnProcess gets the others ...
TestLock == /\ scanner = "locked"
            /\ scanner' = IF entry \in lockFile THEN "next" ELSE "process"
            /\ UNCHANGED <<holder, m_threadRunning, scan, disk, pc>>

\* ... and when it and OnCleanup agree the file is removed.
Process == /\ Goto("process", "next")
           /\ \/ file' = [file EXCEPT ![entry] = "absent"]
              \/ UNCHANGED file
           /\ UNCHANGED <<holder, m_threadRunning, scan, lockFile, pc>>

\* Files that came after the directory was opened may be given or not.
NextEntry ==
  /\ scanner = "next"
  /\ seen' = seen \cup {entry}
  /\ \/ \E f \in (Present \cup listed) \ seen' : entry' = f /\ scanner' = "info"
     \/ listed \subseteq seen' /\ scanner' = "test" /\ UNCHANGED entry
  /\ UNCHANGED <<holder, m_threadRunning, listed, disk, pc>>

-----------------------------------------------------------------------------
(* Open and Close; pc says which of the two waits for the thread.          *)

StartThread == m_threadRunning' = TRUE /\ scanner' = "test"

CallOpen(c) ==
  /\ pc[c] = "idle" /\ holder = Nobody
  /\ IF scanner = "none"
       THEN StartThread /\ UNCHANGED <<holder, pc>>
       ELSE /\ m_threadRunning' = FALSE
            /\ holder' = c /\ pc' = [pc EXCEPT ![c] = "open"]
            /\ UNCHANGED scanner
  /\ UNCHANGED <<scan, disk>>

\* Mutant: the thread is not told to stop.
MutCallClose(c) ==
  /\ pc[c] = "idle" /\ holder = Nobody /\ scanner # "none"
  /\ holder' = c /\ pc' = [pc EXCEPT ![c] = "close"]
  /\ UNCHANGED <<m_threadRunning, scanner, scan, disk>>

CallClose(c) ==
  /\ pc[c] = "idle" /\ holder = Nobody /\ scanner # "none"
  /\ m_threadRunning' = FALSE
  /\ holder' = c /\ pc' = [pc EXCEPT ![c] = "close"]
  /\ UNCHANGED <<scanner, scan, disk>>

\* WaitForTermination returns and the thread is deleted.
ThreadGone(c) ==
  /\ pc[c] # "idle" /\ scanner = "ended"
  /\ IF pc[c] = "open" THEN StartThread ELSE scanner' = "none" /\ UNCHANGED m_threadRunning
  /\ holder' = Nobody /\ pc' = [pc EXCEPT ![c] = "idle"]
  /\ UNCHANGED <<scan, disk>>

ScannerStep == TestRunning \/ CopyDirectory \/ OpenScanner \/ GetInfo \/ TestLock
               \/ Process \/ NextEntry

SpoolNext == \/ \E f \in Files : CreateLockFile(f) \/ WriteFile(f) \/ DestroyLockFile(f)
             \/ ScannerStep
             \/ \E c \in Controllers : CallOpen(c) \/ CallClose(c) \/ ThreadGone(c)

\* The thread of the spool goes on, and so does one that waits for its end; files
\* that come without end could keep one scan going, which the bounds rule out.
SpoolFairness == /\ WF_spoolVars(ScannerStep)
                     /\ \A c \in Controllers : WF_spoolVars(ThreadGone(c))

Spec == SpoolInit /\ [][SpoolNext]_spoolVars /\ SpoolFairness

-----------------------------------------------------------------------------
\* No file is processed before its producer is done with it.
ProcessedWhole == scanner = "process" => file[entry] = "complete"

\* A Close or an Open of an open spool returns, unless the thread has passed the
\* test of m_threadRunning and has yet to lock m_mutex: then both wait for ever.
InClose(c)    == pc[c] # "idle" /\ scanner # "lock"
OutOfClose(c) == pc[c] = "idle"
CloseReturnsUnlessCaught == \A c \in Controllers : InClose(c) ~> OutOfClose(c)
=============================================================================
