--------------------------- MODULE LogFileMonitor ---------------------------
(***************************************************************************)
(* The threads of one LogFileMonitor (LogFileMonitor.cpp): the owner that  *)
(* constructs and destroys it, the directory thread that turns change      *)
(* notifications of the file system into events, and the handler thread    *)
(* that takes the events off the queue.  They share the event queue under  *)
(* an SRW lock, four manual-reset events and a waitable timer.             *)
(*                                                                         *)
(* What the handler does with an event (reading log files) is the subject  *)
(* of another module: here an event is the number of the directory change  *)
(* it reports, or Synthetic for those the monitor makes up itself (the     *)
(* Modify of every file found by a scan, and ReInit).                      *)
(***************************************************************************)
EXTENDS Naturals, Sequences, SequencesExt

CONSTANTS
  MaxChanges,      \* bound: the changes made in the directory
  Matching,        \* those whose file name matches the filter
  KernelCapacity,  \* the records the directory handle buffers between reads
  MaxFiles,        \* bound: the log files a scan of the directory finds
  ApiMayFail       \* whether system calls may fail and allocations throw

ASSUME LogFileMonitorAssumption ==
  /\ MaxChanges \in Nat
  /\ Matching \subseteq 1 .. MaxChanges
  /\ KernelCapacity \in Nat
  /\ MaxFiles \in Nat
  /\ ApiMayFail \in BOOLEAN

Thread == {"dir", "handler"}
Free == "free"

Number == 1 .. MaxChanges
Synthetic == 0
Event == Number \cup {Synthetic}

DirLabel ==
  {"entry", "open", "scanDir", "scanLock", "scan", "scanSignal", "arm", "spawn", "wait",
   "batch", "lock", "emplace", "signal", "unlock", "clearLock", "clear", "exit"}
HandlerLabel ==
  {"unborn", "createTimer", "scanDir", "scanLock", "scan", "scanSignal", "setTimer",
   "wait", "drainLock", "drain", "dispatch", "reset", "rearm", "readAll", "exit"}

VARIABLES
  owner,         \* where the thread that owns the object is in its life
  joining,       \* the thread handles the destructor waits for
  pc,            \* the next step of each thread
  status,        \* the directory thread's DWORD status: "ok" or "error"
  todo,          \* the events each thread has yet to enqueue in its current call
  queue,         \* m_directoryChangeEvents
  lock,          \* m_eventQueueLock: the thread that holds it, or Free
  stopEvent,     \* m_stopEvent
  startedEvent,  \* m_dirMonitorStartedEvent
  workerEvent,   \* m_workerThreadEvent
  timer,         \* the handler's timer: "off", "set" or "due"
  io,            \* the asynchronous read of the directory: m_overlapped
  records,       \* the notification records that read has returned
  kernel,        \* the changes the directory handle has buffered since
  overflowed,    \* that buffer overflowed and the next read has to say so
  happened,      \* history: the changes made so far are 1 .. happened
  missed,        \* history: the changes that will never be enqueued or delivered
  delivered,     \* history: the events taken off the queue
  unsignalled    \* history: SetEvent failed for an event that the handler does not see

syncVars == <<lock, stopEvent, startedEvent, workerEvent, timer>>
kernelVars == <<io, records, kernel, overflowed, happened>>
ownerVars == <<owner, joining>>
vars == <<owner, joining, pc, status, todo, queue, lock, stopEvent, startedEvent,
          workerEvent, timer, io, records, kernel, overflowed, happened, missed, delivered,
          unsignalled>>

Init ==
  /\ owner = "construct"
  /\ joining = {}
  /\ pc = [dir |-> "entry", handler |-> "unborn"]
  /\ status = "ok"
  /\ todo = [t \in Thread |-> <<>>]
  /\ queue = <<>>
  /\ lock = Free
  /\ stopEvent = FALSE
  /\ startedEvent = FALSE
  /\ workerEvent = TRUE
  /\ timer = "off"
  /\ io = "none"
  /\ records = <<>>
  /\ kernel = <<>>
  /\ overflowed = FALSE
  /\ happened = 0
  /\ missed = {}
  /\ delivered = <<>>
  /\ unsignalled = FALSE

ChangesIn(s) == ToSet(s) \ {Synthetic}

Goto(t, label) == pc' = [pc EXCEPT ![t] = label]
-----------------------------------------------------------------------------
(***************************************************************************)
(* The queue, its lock and the worker event.                               *)
(***************************************************************************)
Acquire(t, at, next) ==
  /\ pc[t] = at
  /\ lock = Free
  /\ lock' = t
  /\ Goto(t, next)
  /\ UNCHANGED <<ownerVars, unsignalled, status, todo, queue, stopEvent, startedEvent,
                 workerEvent,
                 timer, kernelVars, missed, delivered>>

Release(t, at, next) ==
  /\ pc[t] = at
  /\ lock' = Free
  /\ Goto(t, next)
  /\ UNCHANGED <<ownerVars, unsignalled, status, todo, queue, stopEvent, startedEvent,
                 workerEvent,
                 timer, kernelVars, missed, delivered>>

(* The body of EnqueueDirChangeEvents, with the lock held. *)
Emplace(t, at, signal, next) ==
  /\ pc[t] = at
  /\ todo[t] # <<>>
  /\ queue' = Append(queue, Head(todo[t]))
  /\ todo' = [todo EXCEPT ![t] = Tail(@)]
  /\ Goto(t, IF Len(queue') = 1 THEN signal ELSE next)
  /\ UNCHANGED <<ownerVars, unsignalled, status, syncVars, kernelVars, missed, delivered>>

SignalWorker(t, at, next) ==
  /\ pc[t] = at
  /\ workerEvent' = TRUE
  /\ Goto(t, next)
  /\ UNCHANGED <<ownerVars, unsignalled, status, todo, queue, lock, stopEvent,
                 startedEvent, timer,
                 kernelVars, missed, delivered>>

(* SetEvent fails: that is traced, and the thread goes on as if it had not. *)
SignalFails(t, at, next) ==
  /\ ApiMayFail
  /\ pc[t] = at
  /\ unsignalled' = (unsignalled \/ ~workerEvent)
  /\ Goto(t, next)
  /\ UNCHANGED <<ownerVars, status, todo, queue, syncVars, kernelVars, missed, delivered>>
-----------------------------------------------------------------------------
(***************************************************************************)
(* InitializeDirectoryChangeEventsQueue, which both threads call: a Modify *)
(* event for every log file found, all of them under one hold of the lock. *)
(* A directory that cannot be listed leaves the queue alone; only the      *)
(* directory thread keeps the error in its status.                         *)
(***************************************************************************)
AfterScan(t) == IF t = "dir" THEN "arm" ELSE "setTimer"

ScanLists(t) ==
  /\ pc[t] = "scanDir"
  /\ \E n \in 0 .. MaxFiles : todo' = [todo EXCEPT ![t] = [i \in 1 .. n |-> Synthetic]]
  /\ Goto(t, "scanLock")
  /\ UNCHANGED <<ownerVars, unsignalled, status, queue, syncVars, kernelVars, missed,
                 delivered>>

ScanFails(t) ==
  /\ ApiMayFail
  /\ pc[t] = "scanDir"
  /\ status' = IF t = "dir" THEN "error" ELSE status
  /\ Goto(t, AfterScan(t))
  /\ UNCHANGED <<ownerVars, unsignalled, todo, queue, syncVars, kernelVars, missed,
                 delivered>>

ScanEnds(t) ==
  /\ todo[t] = <<>>
  /\ Release(t, "scan", AfterScan(t))

Scan(t) ==
  \/ ScanLists(t)
  \/ Acquire(t, "scanLock", "scan")
  \/ Emplace(t, "scan", "scanSignal", "scan")
  \/ SignalWorker(t, "scanSignal", "scan")
  \/ ScanEnds(t)

(* An exception (an allocation that fails, substr out of range) is caught at the entry
   of the thread, which ends.  The SRW lock is not released by unwinding. *)
Throws(t) ==
  /\ ApiMayFail
  /\ pc[t] \in {"scanDir", "scan", "emplace", "batch", "drain", "dispatch", "readAll"}
  /\ Goto(t, "exit")
  /\ UNCHANGED <<ownerVars, unsignalled, status, todo, queue, syncVars, kernelVars,
                 missed, delivered>>
-----------------------------------------------------------------------------
(***************************************************************************)
(* The directory thread: StartLogFileMonitor.                              *)
(***************************************************************************)
(* Whether SetEvent fails is not looked at. *)
DirSignalsStarted ==
  /\ pc["dir"] = "entry"
  /\ startedEvent' \in IF ApiMayFail THEN BOOLEAN ELSE {TRUE}
  /\ Goto("dir", "open")
  /\ UNCHANGED <<ownerVars, unsignalled, status, todo, queue, lock, stopEvent,
                 workerEvent, timer,
                 kernelVars, missed, delivered>>

(* A slip of DirOpens: the handler is created before the directory thread's scan. *)
MutDirOpens ==
  /\ pc["dir"] = "open"
  /\ pc' = [dir |-> "scanDir", handler |-> "createTimer"]
  /\ UNCHANGED <<ownerVars, unsignalled, status, todo, queue, syncVars, kernelVars,
                 missed, delivered>>

(* GetLogDirHandle may wait for the directory, and gives up after a while or on stop. *)
DirOpens ==
  /\ pc["dir"] = "open"
  /\ Goto("dir", "scanDir")
  /\ UNCHANGED <<ownerVars, unsignalled, status, todo, queue, syncVars, kernelVars,
                 missed, delivered>>

DirOpenFails ==
  /\ pc["dir"] = "open"
  /\ Goto("dir", "exit")
  /\ UNCHANGED <<ownerVars, unsignalled, status, todo, queue, syncVars, kernelVars,
                 missed, delivered>>

(* A successful ReadDirectoryChangesW does not reset the status: an earlier error ends
   the loop here.  The read completes at once when the handle has something to report. *)
DirArms ==
  /\ pc["dir"] = "arm"
  /\ io' = IF overflowed THEN "empty" ELSE IF kernel = <<>> THEN "pending" ELSE "records"
  /\ records' = kernel
  /\ kernel' = <<>>
  /\ overflowed' = FALSE
  /\ Goto("dir", IF status = "error" THEN "exit"
                 ELSE IF pc["handler"] = "unborn" THEN "spawn" ELSE "wait")
  /\ UNCHANGED <<ownerVars, unsignalled, status, todo, queue, syncVars, happened,
                 missed, delivered>>

(* ERROR_NOTIFY_ENUM_DIR: the buffer overflowed; enqueue ReInit and read again. *)
DirArmOverflows ==
  /\ pc["dir"] = "arm"
  /\ overflowed
  /\ overflowed' = FALSE
  /\ status' = "ok"
  /\ todo' = [todo EXCEPT !["dir"] = <<Synthetic>>]
  /\ Goto("dir", "lock")
  /\ UNCHANGED <<ownerVars, unsignalled, queue, syncVars, io, records, kernel,
                 happened, missed, delivered>>

DirArmFails ==
  /\ ApiMayFail
  /\ pc["dir"] = "arm"
  /\ status' = "error"
  /\ Goto("dir", "exit")
  /\ UNCHANGED <<ownerVars, unsignalled, todo, queue, syncVars, kernelVars, missed,
                 delivered>>

DirSpawnsHandler ==
  /\ pc["dir"] = "spawn"
  /\ pc' = [dir |-> "wait", handler |-> "createTimer"]
  /\ UNCHANGED <<ownerVars, unsignalled, status, todo, queue, syncVars, kernelVars,
                 missed, delivered>>

DirSpawnFails ==
  /\ ApiMayFail
  /\ pc["dir"] = "spawn"
  /\ status' = "error"
  /\ Goto("dir", "exit")
  /\ UNCHANGED <<ownerVars, unsignalled, todo, queue, syncVars, kernelVars, missed,
                 delivered>>

(* A slip of DirSeesStop: the stop event is created auto-reset, not manual-reset. *)
MutDirSeesStop ==
  /\ pc["dir"] = "wait"
  /\ stopEvent
  /\ stopEvent' = FALSE
  /\ Goto("dir", "clearLock")
  /\ UNCHANGED <<ownerVars, unsignalled, status, todo, queue, lock, startedEvent,
                 workerEvent, timer,
                 kernelVars, missed, delivered>>

(* WaitForMultipleObjects reports the event of the lowest index: stop comes first. *)
DirSeesStop ==
  /\ pc["dir"] = "wait"
  /\ stopEvent
  /\ Goto("dir", "clearLock")
  /\ UNCHANGED <<ownerVars, unsignalled, status, todo, queue, syncVars, kernelVars,
                 missed, delivered>>

(* LogDirectoryChangeNotificationHandler on a read that returned records.  The overlapped
   event stays signalled until the next read resets it. *)
DirTakesRecords ==
  /\ pc["dir"] = "wait"
  /\ ~stopEvent
  /\ io = "records"
  /\ io' = "none"
  /\ records' = <<>>
  /\ todo' = [todo EXCEPT !["dir"] = records]
  /\ Goto("dir", "batch")
  /\ UNCHANGED <<ownerVars, unsignalled, status, queue, syncVars, kernel, overflowed,
                 happened,
                 missed, delivered>>

(* A slip of DirTakesEmpty: the queued events are thrown away with the discarded ones. *)
MutDirTakesEmpty ==
  /\ pc["dir"] = "wait"
  /\ ~stopEvent
  /\ io = "empty"
  /\ io' = "none"
  /\ queue' = <<>>
  /\ Goto("dir", "arm")
  /\ UNCHANGED <<ownerVars, unsignalled, status, todo, syncVars, records, kernel, overflowed,
                 happened, missed, delivered>>

(* The same on a read that returned no bytes: an error is traced, and that is all. *)
DirTakesEmpty ==
  /\ pc["dir"] = "wait"
  /\ ~stopEvent
  /\ io = "empty"
  /\ io' = "none"
  /\ Goto("dir", "arm")
  /\ UNCHANGED <<ownerVars, unsignalled, status, todo, queue, syncVars, records,
                 kernel, overflowed,
                 happened, missed, delivered>>

(* GetOverlappedResult fails: the records are lost and the error ends the loop. *)
DirTakeFails ==
  /\ ApiMayFail
  /\ pc["dir"] = "wait"
  /\ ~stopEvent
  /\ io \in {"records", "empty"}
  /\ io' = "none"
  /\ records' = <<>>
  /\ missed' = missed \cup ChangesIn(records)
  /\ status' = "error"
  /\ Goto("dir", "arm")
  /\ UNCHANGED <<ownerVars, unsignalled, todo, queue, syncVars, kernel, overflowed,
                 happened, delivered>>

DirWaitFails ==
  /\ ApiMayFail
  /\ pc["dir"] = "wait"
  /\ ~stopEvent
  /\ status' = "error"
  /\ Goto("dir", "exit")
  /\ UNCHANGED <<ownerVars, unsignalled, todo, queue, syncVars, kernelVars, missed,
                 delivered>>

(* A slip of DirFilters: a name that does not match ends the batch. *)
MutDirFilters ==
  /\ pc["dir"] = "batch"
  /\ todo["dir"] # <<>>
  /\ IF Head(todo["dir"]) \in Matching
     THEN Goto("dir", "lock") /\ UNCHANGED todo
     ELSE UNCHANGED pc /\ todo' = [todo EXCEPT !["dir"] = <<>>]
  /\ UNCHANGED <<ownerVars, unsignalled, status, queue, syncVars, kernelVars, missed,
                 delivered>>

(* The filter comes before the lock: a name that matches neither as reported nor as a
   long path is dropped.  New names of renamed files pass whatever they are: they are in
   Matching. *)
DirFilters ==
  /\ pc["dir"] = "batch"
  /\ todo["dir"] # <<>>
  /\ IF Head(todo["dir"]) \in Matching
     THEN Goto("dir", "lock") /\ UNCHANGED todo
     ELSE UNCHANGED pc /\ todo' = [todo EXCEPT !["dir"] = Tail(@)]
  /\ UNCHANGED <<ownerVars, unsignalled, status, queue, syncVars, kernelVars, missed,
                 delivered>>

(* A slip of DirBatchEnds: the directory is not read again after a batch. *)
MutDirBatchEnds ==
  /\ pc["dir"] = "batch"
  /\ todo["dir"] = <<>>
  /\ Goto("dir", "wait")
  /\ UNCHANGED <<ownerVars, unsignalled, status, todo, queue, syncVars, kernelVars,
                 missed, delivered>>

DirBatchEnds ==
  /\ pc["dir"] = "batch"
  /\ todo["dir"] = <<>>
  /\ Goto("dir", "arm")
  /\ UNCHANGED <<ownerVars, unsignalled, status, todo, queue, syncVars, kernelVars,
                 missed, delivered>>

DirClears ==
  /\ pc["dir"] = "clear"
  /\ queue' = <<>>
  /\ missed' = missed \cup ChangesIn(queue)
  /\ lock' = Free
  /\ Goto("dir", "exit")
  /\ UNCHANGED <<ownerVars, unsignalled, status, todo, stopEvent, startedEvent,
                 workerEvent, timer,
                 kernelVars, delivered>>

DirOpening == DirOpens \/ DirOpenFails

DirFault == Throws("dir") \/ ScanFails("dir") \/ SignalFails("dir", "scanSignal", "scan")
            \/ SignalFails("dir", "signal", "unlock")
            \/ DirArmFails \/ DirSpawnFails \/ DirTakeFails \/ DirWaitFails

DirStep ==
  \/ DirSignalsStarted
  \/ Scan("dir")
  \/ DirArms \/ DirArmOverflows
  \/ DirSpawnsHandler
  \/ DirSeesStop \/ DirTakesRecords \/ DirTakesEmpty
  \/ DirFilters \/ DirBatchEnds
  \/ Acquire("dir", "lock", "emplace")
  \/ Emplace("dir", "emplace", "signal", "unlock")
  \/ SignalWorker("dir", "signal", "unlock")
  \/ Release("dir", "unlock", "batch")
  \/ Acquire("dir", "clearLock", "clear")
  \/ DirClears
-----------------------------------------------------------------------------
(***************************************************************************)
(* The handler thread: LogFilesChangeHandler.                              *)
(***************************************************************************)
HandlerCreatesTimer ==
  /\ pc["handler"] = "createTimer"
  /\ Goto("handler", "scanDir")
  /\ UNCHANGED <<ownerVars, unsignalled, status, todo, queue, syncVars, kernelVars,
                 missed, delivered>>

HandlerTimerFails ==
  /\ ApiMayFail
  /\ pc["handler"] = "createTimer"
  /\ Goto("handler", "exit")
  /\ UNCHANGED <<ownerVars, unsignalled, status, todo, queue, syncVars, kernelVars,
                 missed, delivered>>

(* SetWaitableTimer, whose failure is only traced. *)
HandlerSetsTimer ==
  /\ pc["handler"] = "setTimer"
  /\ timer' \in IF ApiMayFail THEN {"set", timer} ELSE {"set"}
  /\ Goto("handler", "wait")
  /\ UNCHANGED <<ownerVars, unsignalled, status, todo, queue, lock, stopEvent, startedEvent,
                 workerEvent, kernelVars, missed, delivered>>

(* The three outcomes of the wait, in the order of the handles: stop, worker, timer. *)
HandlerSeesStop ==
  /\ pc["handler"] = "wait"
  /\ stopEvent
  /\ timer' = "off"
  /\ Goto("handler", "exit")
  /\ UNCHANGED <<ownerVars, unsignalled, status, todo, queue, lock, stopEvent, startedEvent,
                 workerEvent, kernelVars, missed, delivered>>

HandlerSeesWork ==
  /\ pc["handler"] = "wait"
  /\ ~stopEvent /\ workerEvent
  /\ Goto("handler", "drainLock")
  /\ UNCHANGED <<ownerVars, unsignalled, status, todo, queue, syncVars, kernelVars,
                 missed, delivered>>

HandlerSeesTimer ==
  /\ pc["handler"] = "wait"
  /\ ~stopEvent /\ ~workerEvent /\ timer = "due"
  /\ timer' = "off"
  /\ Goto("handler", "readAll")
  /\ UNCHANGED <<ownerVars, unsignalled, status, todo, queue, lock, stopEvent, startedEvent,
                 workerEvent, kernelVars, missed, delivered>>

HandlerWaitFails ==
  /\ ApiMayFail
  /\ pc["handler"] = "wait"
  /\ ~stopEvent
  /\ Goto("handler", "exit")
  /\ UNCHANGED <<ownerVars, unsignalled, status, todo, queue, syncVars, kernelVars,
                 missed, delivered>>

(* Pop under the lock, which is released before the event is dispatched. *)
HandlerPops ==
  /\ pc["handler"] = "drain"
  /\ queue # <<>>
  /\ delivered' = Append(delivered, Head(queue))
  /\ queue' = Tail(queue)
  /\ lock' = Free
  /\ Goto("handler", "dispatch")
  /\ UNCHANGED <<ownerVars, unsignalled, status, todo, stopEvent, startedEvent,
                 workerEvent, timer,
                 kernelVars, missed>>

HandlerDispatches ==
  /\ pc["handler"] = "dispatch"
  /\ Goto("handler", "drainLock")
  /\ UNCHANGED <<ownerVars, unsignalled, status, todo, queue, syncVars, kernelVars,
                 missed, delivered>>

(* A slip of HandlerFindsEmpty: the lock is released before the event is reset. *)
MutHandlerFindsEmpty ==
  /\ pc["handler"] = "drain"
  /\ queue = <<>>
  /\ lock' = Free
  /\ Goto("handler", "reset")
  /\ UNCHANGED <<ownerVars, unsignalled, status, todo, queue, stopEvent, startedEvent,
                 workerEvent,
                 timer, kernelVars, missed, delivered>>

HandlerFindsEmpty ==
  /\ pc["handler"] = "drain"
  /\ queue = <<>>
  /\ Goto("handler", "reset")
  /\ UNCHANGED <<ownerVars, unsignalled, status, todo, queue, syncVars, kernelVars,
                 missed, delivered>>

(* ResetEvent, still under the lock. *)
HandlerResets ==
  /\ pc["handler"] = "reset"
  /\ workerEvent' = FALSE
  /\ Goto("handler", "rearm")
  /\ UNCHANGED <<ownerVars, unsignalled, status, todo, queue, lock, stopEvent,
                 startedEvent, timer,
                 kernelVars, missed, delivered>>

(* The loop is left, after a last SetWaitableTimer on the way to the release. *)
HandlerResetFails ==
  /\ ApiMayFail
  /\ pc["handler"] = "reset"
  /\ lock' = Free
  /\ Goto("handler", "exit")
  /\ UNCHANGED <<ownerVars, unsignalled, status, todo, queue, stopEvent, startedEvent,
                 workerEvent, timer,
                 kernelVars, missed, delivered>>

HandlerRearms ==
  /\ pc["handler"] = "rearm"
  /\ timer' \in IF ApiMayFail THEN {"set", timer} ELSE {"set"}
  /\ lock' = Free
  /\ Goto("handler", "wait")
  /\ UNCHANGED <<ownerVars, unsignalled, status, todo, queue, stopEvent, startedEvent,
                 workerEvent,
                 kernelVars, missed, delivered>>

HandlerReadsAll ==
  /\ pc["handler"] = "readAll"
  /\ Goto("handler", "setTimer")
  /\ UNCHANGED <<ownerVars, unsignalled, status, todo, queue, syncVars, kernelVars,
                 missed, delivered>>

HandlerFault == Throws("handler") \/ ScanFails("handler")
                \/ SignalFails("handler", "scanSignal", "scan") \/ HandlerTimerFails
                \/ HandlerWaitFails \/ HandlerResetFails

HandlerStep ==
  \/ HandlerCreatesTimer
  \/ Scan("handler")
  \/ HandlerSetsTimer
  \/ HandlerSeesStop \/ HandlerSeesWork \/ HandlerSeesTimer
  \/ Acquire("handler", "drainLock", "drain")
  \/ HandlerPops \/ HandlerDispatches
  \/ HandlerFindsEmpty \/ HandlerResets \/ HandlerRearms
  \/ HandlerReadsAll
-----------------------------------------------------------------------------
(***************************************************************************)
(* The owner: the constructor and the destructor.                          *)
(***************************************************************************)
(* The constructor waits for the started event, without an end if SetEvent failed for it and
   the thread goes on.  A thread that ends without it ends with an error, for it is not told
   to stop yet: ConstructorThrows. *)
ConstructorReturns ==
  /\ owner = "construct"
  /\ startedEvent
  /\ owner' = "running"
  /\ UNCHANGED <<joining, unsignalled, pc, status, todo, queue, syncVars, kernelVars,
                 missed, delivered>>

(* The wait fails, or the thread has ended with an error: the object is freed by an exception,
   without its destructor. *)
ConstructorThrows ==
  /\ ApiMayFail
  /\ owner = "construct"
  /\ owner' = "destroyed"
  /\ UNCHANGED <<joining, unsignalled, pc, status, todo, queue, syncVars, kernelVars,
                 missed, delivered>>

(* The destructor copies the thread handles, then sets the stop event. *)
DestructorStops ==
  /\ owner = "running"
  /\ owner' = "joining"
  /\ joining' = {t \in Thread : pc[t] # "unborn"}
  /\ stopEvent' = TRUE
  /\ UNCHANGED <<unsignalled, pc, status, todo, queue, lock, startedEvent, workerEvent, timer,
                 kernelVars, missed, delivered>>

(* SetEvent fails: the object is freed, and its threads have not been told to stop. *)
DestructorFails ==
  /\ ApiMayFail
  /\ owner = "running"
  /\ owner' = "destroyed"
  /\ UNCHANGED <<joining, unsignalled, pc, status, todo, queue, syncVars, kernelVars,
                 missed, delivered>>

DestructorJoins ==
  /\ owner = "joining"
  /\ joining = Thread
  /\ \A t \in Thread : pc[t] = "exit"
  /\ owner' = "destroyed"
  /\ UNCHANGED <<joining, unsignalled, pc, status, todo, queue, syncVars, kernelVars,
                 missed, delivered>>

(* The wait fails at once on a NULL handle, or times out after five seconds; either is
   traced, and the destructor goes on to free the object. *)
DestructorGivesUp ==
  /\ owner = "joining"
  /\ owner' = "destroyed"
  /\ UNCHANGED <<joining, unsignalled, pc, status, todo, queue, syncVars, kernelVars,
                 missed, delivered>>

OwnerWaits == ConstructorReturns \/ DestructorJoins \/ DestructorGivesUp
-----------------------------------------------------------------------------
(***************************************************************************)
(* The system around the monitor.                                          *)
(***************************************************************************)
(* The directory handle records changes from its first successful read on. *)
Registered == io # "none" \/ pc["handler"] # "unborn"

(* A slip of BufferHasRoom: one record too many. *)
MutBufferHasRoom == ~overflowed /\ Len(kernel) <= KernelCapacity

BufferHasRoom == ~overflowed /\ Len(kernel) < KernelCapacity

(* Nothing is recorded before the first read. *)
ChangeUnrecorded ==
  /\ ~Registered
  /\ missed' = missed \cup {happened'}
  /\ UNCHANGED <<io, records, kernel, overflowed>>

(* A pending read completes with the change. *)
ChangeCompletesRead ==
  /\ io = "pending"
  /\ io' = "records"
  /\ records' = <<happened'>>
  /\ UNCHANGED <<kernel, overflowed, missed>>

(* Otherwise the handle buffers the record for the next read. *)
ChangeBuffered ==
  /\ Registered /\ io # "pending"
  /\ BufferHasRoom
  /\ kernel' = Append(kernel, happened')
  /\ UNCHANGED <<io, records, overflowed, missed>>

(* A full buffer overflows: its records are discarded, and those to come until then. *)
ChangeOverflows ==
  /\ Registered /\ io # "pending"
  /\ ~BufferHasRoom
  /\ kernel' = <<>>
  /\ overflowed' = TRUE
  /\ missed' = missed \cup {happened'} \cup ToSet(kernel)
  /\ UNCHANGED <<io, records>>

(* A file of the directory changes. *)
Change ==
  /\ happened < MaxChanges
  /\ happened' = happened + 1
  /\ \/ ChangeUnrecorded
     \/ ChangeCompletesRead
     \/ ChangeBuffered
     \/ ChangeOverflows
  /\ UNCHANGED <<ownerVars, unsignalled, pc, status, todo, queue, syncVars, delivered>>

TimerFires ==
  /\ timer = "set"
  /\ timer' = "due"
  /\ UNCHANGED <<ownerVars, unsignalled, pc, status, todo, queue, lock, stopEvent,
                 startedEvent,
                 workerEvent, kernelVars, missed, delivered>>

Next ==
  \/ OwnerWaits \/ ConstructorThrows \/ DestructorStops \/ DestructorFails
  \/ DirStep \/ DirFault \/ DirOpening
  \/ HandlerStep \/ HandlerFault
  \/ Change \/ TimerFires

(***************************************************************************)
(* The scheduler runs every thread that can run, and a timer that is set   *)
(* comes due.  No failure, no change and no destruction is bound to        *)
(* happen.  The wait for the directory is only bound to end on stop.       *)
(***************************************************************************)
Fairness ==
  /\ WF_vars(DirStep)
  /\ WF_vars(HandlerStep)
  /\ WF_vars(OwnerWaits)
  /\ WF_vars(stopEvent /\ DirOpening)
  /\ WF_vars(TimerFires)

Spec == Init /\ [][Next]_vars

FairSpec == Spec /\ Fairness
-----------------------------------------------------------------------------
(* Every variable has its type, and the kernel's buffer is never over its capacity. *)
TypeOK ==
  /\ owner \in {"construct", "running", "joining", "destroyed"}
  /\ joining \subseteq Thread
  /\ pc \in [Thread -> DirLabel \cup HandlerLabel]
  /\ pc["dir"] \in DirLabel /\ pc["handler"] \in HandlerLabel
  /\ status \in {"ok", "error"}
  /\ todo \in [Thread -> Seq(Event)]
  /\ queue \in Seq(Event)
  /\ lock \in Thread \cup {Free}
  /\ stopEvent \in BOOLEAN /\ startedEvent \in BOOLEAN /\ workerEvent \in BOOLEAN
  /\ timer \in {"off", "set", "due"}
  /\ io \in {"none", "pending", "records", "empty"}
  /\ records \in Seq(Number)
  /\ kernel \in Seq(Number) /\ Len(kernel) <= KernelCapacity
  /\ overflowed \in BOOLEAN
  /\ happened \in 0 .. MaxChanges
  /\ missed \subseteq Number
  /\ delivered \in Seq(Event)
  /\ unsignalled \in BOOLEAN

(* Whenever the queue is not empty and nobody is in the middle of changing it, the worker
   event is signalled: the handler cannot go to sleep on a queue that holds events.  The
   code signals only when the queue grows to one event (EnqueueDirChangeEvents), and
   resets only when it finds the queue empty (LogFilesChangeHandler).  The one exception is
   a SetEvent that failed while the handler was asleep, and that is for good: no later event
   wakes it, for the queue does not grow to one event again. *)
NoLostWakeup == queue # <<>> /\ lock = Free => (workerEvent <=> ~unsignalled)

(* m_logFilesInformation, m_longPaths and m_fileIds are read and written by both threads,
   and by the handler without the lock.  The two are never at it together: the
   directory thread is done with the maps before it creates the handler. *)
TouchesMaps(t) == pc[t] \in {"scan", "scanSignal", "drain", "dispatch", "readAll"}

MapsHaveOneUser == ~(TouchesMaps("dir") /\ TouchesMaps("handler"))

(* The changes on their way through the monitor, oldest first, those delivered included. *)
Pipeline == delivered \o queue \o todo["dir"] \o records \o kernel

Rising(s) == \A i, j \in DOMAIN s : i < j /\ {s[i], s[j]} \subseteq Matching => s[i] < s[j]

(* Across the kernel's buffer, the batch, the queue and the handler, changes of matching
   files stay in the order they were made, each appears once, and one goes missing only
   where the code gives it up: before registration, by overflow, by a failed read, or
   when the queue is cleared on stop. *)
NothingLostOrReordered ==
  /\ ToSet(Pipeline) \cap Matching = (Matching \cap 1 .. happened) \ missed
  /\ Rising(Pipeline)

(* The queue with its lock and its worker event implements a first-in first-out channel
   that discards events only after stop. *)
Channel == INSTANCE EventChannel WITH inFlight <- queue, open <- ~stopEvent

ImplementsChannel == Channel!Spec

Ended(t) == pc[t] \in {"exit", "unborn"}
LockLeaked == \E t \in Thread : lock = t /\ pc[t] = "exit"

(* Once the stop event is set both threads end, whatever events are queued and whatever
   failed before, unless one died holding the lock. *)
StopEndsThreads == stopEvent ~> (\A t \in Thread : Ended(t)) \/ LockLeaked

(* A change the directory handle has recorded is handled in the end, unless the buffer
   overflows, a SetEvent fails for the handler asleep, or the monitor is stopped or one of
   its threads has failed. *)
EveryChangeHandled ==
  \A c \in Matching :
    c \in ToSet(Pipeline) ~> \/ c \in ToSet(delivered) \cup missed \/ unsignalled
                            \/ stopEvent \/ \E t \in Thread : pc[t] = "exit"

(* LogFileMonitor.cpp:407: "The change buffer was full and all events were discarded. Scan
   the directory again".  With no file for the other scans to find, the one synthetic
   event is the ReInit that asks for the rescan. *)
OverflowIsRescanned ==
  overflowed ~> \/ Synthetic \in ToSet(queue \o delivered)
                \/ stopEvent \/ \E t \in Thread : pc[t] = "exit"
=============================================================================
