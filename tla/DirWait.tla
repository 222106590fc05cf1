------------------------------ MODULE DirWait ------------------------------
(***************************************************************************)
(* How a monitor waits for a log directory that does not exist yet:        *)
(* FileMonitorUtilities::GetLogDirHandle and                               *)
(* _RetryOpenDirectoryWithInterval.  The thread of the monitor waits for   *)
(* the stop event, a timer and a change notification of the parent         *)
(* directory, tries to open the directory at each timer or change, and     *)
(* counts the time it has waited.                                          *)
(*                                                                         *)
(* Time is counted in whole seconds; it passes only while the thread       *)
(* waits, and not beyond a timer that is due.                              *)
(***************************************************************************)
EXTENDS Naturals

CONSTANTS
  Waits,         \* the values of waitInSeconds that are explored
  Forever,       \* waitInSeconds is INFINITY
  Interval,      \* WAIT_INTERVAL, 15 in the code
  MaxTime,       \* bound: seconds above this one are not told apart
  MaxDirChanges  \* bound: changes of the directories around the log directory

ASSUME DirWaitAssumption ==
  /\ MaxTime \in Nat /\ MaxDirChanges \in Nat
  /\ Interval \in Nat \ {0}
  /\ Waits \subseteq 0 .. MaxTime
  /\ Forever \notin Nat

VARIABLES
  call,       \* the call the thread is about to make or is blocked in
  wait,       \* waitInSeconds
  faulty,     \* TRUE iff calls of the operating system may fail
  dir,        \* the log directory: missing, there, or there but not to be opened
  parent,     \* TRUE iff its parent directory exists
  changes,    \* how often these directories have changed
  stop,       \* m_stopEvent
  notified,   \* the change notification handle is signalled
  watching,   \* the change notification handle is open
  timerEvent, \* the timer handle: none, open, closed, or closed twice
  due,        \* seconds until the timer fires
  elapsed,    \* elapsedTime
  now,        \* seconds since startTick
  outcome     \* status, or how the wait ended

thread == <<call, watching, timerEvent, elapsed, outcome>>
world == <<dir, parent, changes>>
waitVars == <<thread, world, wait, faulty, stop, notified, due, now>>

None == "none"
Directory == {"missing", "there", "denied"}
AtMost(x, y) == IF x < y THEN x ELSE y
Cap == MaxTime + Interval

(***************************************************************************)
(* _IsFileErrorStatus, the condition of the loop, and GetWaitInterval.     *)
(***************************************************************************)
IsFileErrorStatus == outcome = "missing"
Expired == wait # Forever /\ elapsed >= wait

\* A mistake: the interval is not limited to the one of the code.
MutGetWaitInterval ==
  IF wait = Forever THEN Interval
  ELSE IF wait < Interval THEN wait
  ELSE wait - elapsed

GetWaitInterval ==
  IF wait = Forever THEN Interval
  ELSE IF wait < Interval THEN wait
  ELSE AtMost(wait - elapsed, Interval)

(***************************************************************************)
(* GetLogDirHandle.  It closes the timer whatever the loop has done.       *)
(***************************************************************************)
WaitInit ==
  /\ call = "open" /\ wait \in Waits \cup {Forever} /\ faulty \in BOOLEAN
  /\ parent \in BOOLEAN
  /\ dir \in IF parent THEN Directory ELSE {"missing"}
  /\ changes = 0 /\ stop = FALSE /\ notified = FALSE /\ watching = FALSE
  /\ timerEvent = None /\ due = 0 /\ elapsed = 0 /\ now = 0 /\ outcome = None

Returns(how) == call' = "done" /\ outcome' = how

OpensAtOnce ==
  /\ call = "open" /\ dir # "missing"
  /\ Returns(IF dir = "there" THEN "opened" ELSE "denied")
  /\ UNCHANGED <<world, wait, faulty, stop, notified, watching, timerEvent, due, elapsed, now>>

CreatesTimer ==
  /\ call = "open" /\ dir = "missing"
  /\ call' = "watch" /\ timerEvent' = "open" /\ outcome' = "missing"
  /\ UNCHANGED <<world, wait, faulty, stop, notified, watching, due, elapsed, now>>

CreateTimerFails ==
  /\ call = "open" /\ dir = "missing" /\ faulty
  /\ Returns("failed")
  /\ UNCHANGED <<world, wait, faulty, stop, notified, watching, timerEvent, due, elapsed, now>>

(***************************************************************************)
(* _RetryOpenDirectoryWithInterval.                                        *)
(***************************************************************************)
Watches ==
  /\ call = "watch" /\ parent
  /\ call' = "loop" /\ watching' = TRUE
  /\ UNCHANGED <<world, wait, faulty, stop, notified, timerEvent, due, elapsed, now, outcome>>

WatchFails ==
  /\ call = "watch" /\ (~parent \/ faulty)
  /\ Returns("failed") /\ timerEvent' = "closed"
  /\ UNCHANGED <<world, wait, faulty, stop, notified, watching, due, elapsed, now>>

(***************************************************************************)
(* The end of the loop: the notification handle is closed here, the timer  *)
(* by GetLogDirHandle.                                                     *)
(***************************************************************************)
LeavesLoop(how) == Returns(how) /\ watching' = FALSE /\ timerEvent' = "closed"

GivesUp ==
  /\ call = "loop" /\ (Expired \/ ~IsFileErrorStatus)
  /\ LeavesLoop(outcome)
  /\ UNCHANGED <<world, wait, faulty, stop, notified, due, elapsed, now>>

\* A mistake: the notification is asked for again when the wait begins.
MutSetsTimer ==
  /\ call = "loop" /\ ~Expired /\ IsFileErrorStatus
  /\ call' = "waiting" /\ due' = GetWaitInterval /\ notified' = FALSE
  /\ UNCHANGED <<world, wait, faulty, stop, watching, timerEvent, elapsed, now, outcome>>

SetsTimer ==
  /\ call = "loop" /\ ~Expired /\ IsFileErrorStatus
  /\ call' = "waiting" /\ due' = GetWaitInterval
  /\ UNCHANGED <<world, wait, faulty, stop, notified, watching, timerEvent, elapsed, now, outcome>>

SetTimerFails ==
  /\ call = "loop" /\ ~Expired /\ IsFileErrorStatus /\ faulty
  /\ LeavesLoop("failed")
  /\ UNCHANGED <<world, wait, faulty, stop, notified, due, elapsed, now>>

(***************************************************************************)
(* WaitForMultipleObjects takes the first signalled handle: the stop       *)
(* event, the timer, the notification.  A return from inside the loop      *)
(* closes the timer, which GetLogDirHandle then closes again, and leaves   *)
(* the notification handle open.                                           *)
(***************************************************************************)
Abandons(how) == Returns(how) /\ timerEvent' = "twice"

\* A mistake: the stop event leaves the switch and not the function.
MutSeesStop ==
  /\ call = "waiting" /\ stop
  /\ call' = "retry"
  /\ UNCHANGED <<world, wait, faulty, stop, notified, watching, timerEvent, due,
                 elapsed, now, outcome>>

SeesStop ==
  /\ call = "waiting" /\ stop
  /\ Abandons("stopped")
  /\ UNCHANGED <<world, wait, faulty, stop, notified, watching, due, elapsed, now>>

\* A mistake: a timer continues the loop without trying the directory.
MutTimerRings ==
  /\ call = "waiting" /\ ~stop /\ due = 0
  /\ call' = "loop"
  /\ UNCHANGED <<world, wait, faulty, stop, notified, watching, timerEvent, due,
                 elapsed, now, outcome>>

TimerRings ==
  /\ call = "waiting" /\ ~stop /\ due = 0
  /\ call' = "retry"
  /\ UNCHANGED <<world, wait, faulty, stop, notified, watching, timerEvent, due,
                 elapsed, now, outcome>>

SeesChange ==
  /\ call = "waiting" /\ ~stop /\ due > 0 /\ notified
  /\ notified' = FALSE  \* FindNextChangeNotification
  /\ call' = "retry" /\ elapsed' = now
  /\ UNCHANGED <<world, wait, faulty, stop, watching, timerEvent, due, now, outcome>>

WaitFails ==
  /\ call = "waiting" /\ faulty
  /\ Abandons("failed")
  /\ UNCHANGED <<world, wait, faulty, stop, notified, watching, due, elapsed, now>>

RetryOpens ==
  /\ call = "retry" /\ dir = "there"
  /\ LeavesLoop("opened")
  /\ UNCHANGED <<world, wait, faulty, stop, notified, due, elapsed, now>>

\* A mistake: a retry does not count.
MutRetryFails ==
  /\ call = "retry" /\ dir # "there"
  /\ call' = "loop" /\ outcome' = dir
  /\ UNCHANGED <<world, wait, faulty, stop, notified, watching, timerEvent, due, elapsed, now>>

RetryFails ==
  /\ call = "retry" /\ dir # "there"
  /\ call' = "loop" /\ outcome' = dir
  /\ elapsed' = AtMost(elapsed + Interval, Cap)
  /\ UNCHANGED <<world, wait, faulty, stop, notified, watching, timerEvent, due, now>>

Step == \/ OpensAtOnce \/ CreatesTimer \/ CreateTimerFails \/ Watches \/ WatchFails
        \/ GivesUp \/ SetsTimer \/ SetTimerFails
        \/ SeesStop \/ TimerRings \/ SeesChange \/ WaitFails
        \/ RetryOpens \/ RetryFails

(***************************************************************************)
(* Surroundings: other processes make, remove and restrict directories,    *)
(* the main thread sets the stop event, and time passes.  A directory made *)
(* or removed under the parent signals the notification, whatever its      *)
(* name; a change of its permissions does not.  The parent is not removed  *)
(* while it is watched.                                                    *)
(***************************************************************************)
Changes == changes < MaxDirChanges /\ changes' = changes + 1

MakeOrRemove ==
  /\ Changes /\ parent
  /\ dir' \in IF dir = "missing" THEN Directory ELSE {dir, "missing"}
  /\ notified' = watching
  /\ UNCHANGED <<thread, parent, wait, faulty, stop, due, now>>

RestrictOrFree ==
  /\ Changes /\ dir # "missing"
  /\ dir' = IF dir = "there" THEN "denied" ELSE "there"
  /\ UNCHANGED <<thread, parent, wait, faulty, stop, notified, due, now>>

MakeParent ==
  /\ Changes /\ ~parent /\ parent' = TRUE
  /\ UNCHANGED <<thread, dir, wait, faulty, stop, notified, due, now>>

SetStop ==
  /\ ~stop /\ stop' = TRUE
  /\ UNCHANGED <<thread, world, wait, faulty, notified, due, now>>

Tick ==
  /\ call = "waiting" /\ due > 0
  /\ due' = due - 1 /\ now' = AtMost(now + 1, Cap)
  /\ UNCHANGED <<thread, world, wait, faulty, stop, notified>>

WaitNext == Step \/ MakeOrRemove \/ RestrictOrFree \/ MakeParent \/ SetStop \/ Tick

(***************************************************************************)
(* The thread is scheduled and time passes; nobody else has to do anything.*)
(***************************************************************************)
WaitSpec == WaitInit /\ [][WaitNext]_waitVars
FairWaitSpec == WaitSpec /\ WF_waitVars(Step) /\ WF_waitVars(Tick)

-----------------------------------------------------------------------------

(***************************************************************************)
(* Every variable has its type; a wait is never set to more than the       *)
(* interval.                                                               *)
(***************************************************************************)
WaitTypeOK ==
  /\ call \in {"open", "watch", "loop", "waiting", "retry", "done"}
  /\ wait \in Waits \cup {Forever} /\ faulty \in BOOLEAN
  /\ dir \in Directory /\ parent \in BOOLEAN /\ changes \in 0 .. MaxDirChanges
  /\ stop \in BOOLEAN /\ notified \in BOOLEAN /\ watching \in BOOLEAN
  /\ timerEvent \in {None, "open", "closed", "twice"}
  /\ due \in 0 .. Interval /\ elapsed \in 0 .. Cap /\ now \in 0 .. Cap
  /\ outcome \in Directory \cup {None, "opened", "failed", "stopped"}

(***************************************************************************)
(* However timers and notifications alternate, the thread never waits past *)
(* waitInSeconds: elapsedTime mixes real seconds with intervals added at   *)
(* each retry, and never falls behind the clock.                           *)
(***************************************************************************)
WaitIsBounded ==
  wait # Forever => /\ now <= wait
                    /\ call = "waiting" => now + due <= wait

(***************************************************************************)
(* No creation is missed between a failed retry and the next wait: the     *)
(* notification is asked for again before the directory is tried, so that  *)
(* a thread that has retried once and waits is woken if the directory is   *)
(* there.                                                                  *)
(***************************************************************************)
CreationWakesWait ==
  call = "waiting" /\ elapsed > 0 /\ dir # "missing" => notified

(***************************************************************************)
(* A stop is answered by the thread, even in a wait without end.           *)
(***************************************************************************)
StopAnswered == stop ~> call = "done"

(***************************************************************************)
(* A wait without end opens a directory that stays, if nobody stops it and *)
(* the parent was there when the wait began: created before the parent was *)
(* watched, it is found at the next timer.                                 *)
(***************************************************************************)
EventuallyOpened ==
  wait = Forever /\ ~faulty /\ parent /\ [](~stop) /\ <>[](dir = "there")
    => <>(outcome \in {"opened", "denied"})
=============================================================================
