----------------------------- MODULE LogMonitor -----------------------------
(***************************************************************************)
(* The life of the process: wmain and its control handler (Main.cpp), with *)
(* the process that it may run (ProcessMonitor).  The main thread waits    *)
(* for the child or for the stop event, each control event is handled by a *)
(* thread of its own, and the reader prints the output of the child until  *)
(* the process ends.                                                       *)
(***************************************************************************)
EXTENDS ProcessMonitor

CONSTANTS
  Controls,   \* the control events that arrive: "C", "break", "close"
  MaxCtrl     \* bound: control events that are handled

ASSUME LogMonitorAssumption ==
  Controls \subseteq {"C", "break", "close"} /\ MaxCtrl \in Nat

VARIABLES
  main,       \* the call the main thread is about to make or is blocked in
  command,    \* TRUE iff there is a command to run
  hStop,      \* g_hStopEvent: the event, or INVALID_HANDLE_VALUE
  signaled,   \* the stop event is signalled
  waitsFor,   \* the handle the main thread waits for
  installed,  \* ControlHandle is installed
  ignoring,   \* the process ignores control-C
  handler,    \* the next call of each run of ControlHandle
  control     \* dwCtrlType of each run

stopping == <<hStop, signaled, waitsFor>>
handling == <<installed, ignoring, handler, control>>
settings == <<habit, command, faulty>>
vars == <<main, settings, stopping, handling, process, reading>>

Invalid == "INVALID_HANDLE_VALUE"
Handlers == 1 .. MaxCtrl

Init ==
  /\ ProcessInit /\ main = "start"
  /\ habit \in Habits /\ command \in BOOLEAN /\ faulty \in BOOLEAN
  /\ hStop = "event" /\ signaled = FALSE /\ waitsFor = None
  /\ installed = FALSE /\ ignoring = FALSE
  /\ handler = [h \in Handlers |-> "idle"] /\ control = [h \in Handlers |-> None]

Alive == main # "exited"

-----------------------------------------------------------------------------
(***************************************************************************)
(* The main thread.                                                        *)
(***************************************************************************)
\* An event that is not created, a call for help, or an argument that is refused.
ReturnsEarly ==
  /\ main = "start"
  /\ main' = "exiting"
  /\ UNCHANGED <<settings, stopping, handling, process, reading>>

InstallsHandler ==
  /\ main = "start"
  /\ main' = IF command THEN "create" ELSE "wait"
  /\ installed' = TRUE
  /\ UNCHANGED <<settings, stopping, ignoring, handler, control, process, reading>>

(***************************************************************************)
(* CreateAndMonitorProcess.  The child inherits that control-C is ignored. *)
(* Whether the thread of the reader was created is not looked at.          *)
(***************************************************************************)
CreatesChild ==
  /\ main = "create"
  /\ main' = "wait child" /\ child' = IF ignoring THEN "immune" ELSE "running"
  /\ \/ reader' = "read"
     \/ faulty /\ reader' = None
  /\ UNCHANGED <<settings, stopping, handling, childCtrl, output, read, partial, printed>>

CreateChildFails ==
  /\ main = "create" /\ faulty
  /\ main' = "close"
  /\ UNCHANGED <<settings, stopping, handling, process, reading>>

SeesChildExit ==
  /\ main = "wait child" /\ child = "exited"
  /\ main' = "close"
  /\ UNCHANGED <<settings, stopping, handling, process, reading>>

\* A wait that fails is not told from one that ends.
ChildWaitFails ==
  /\ main = "wait child" /\ faulty
  /\ main' = "close"
  /\ UNCHANGED <<settings, stopping, handling, process, reading>>

(***************************************************************************)
(* Without a command, the main thread waits for the handle that            *)
(* g_hStopEvent holds when it calls.  INVALID_HANDLE_VALUE is also the     *)
(* pseudo handle of the process itself, which is a valid handle to wait    *)
(* for and is not signalled as long as the process lives.                  *)
(***************************************************************************)
Waits ==
  /\ main = "wait"
  /\ main' = "waiting" /\ waitsFor' = hStop
  /\ UNCHANGED <<settings, hStop, signaled, handling, process, reading>>

SeesStop ==
  /\ main = "waiting" /\ waitsFor = "event" /\ signaled
  /\ main' = "close"
  /\ UNCHANGED <<settings, stopping, handling, process, reading>>

WaitFails ==
  /\ main = "waiting" /\ faulty
  /\ main' = "close"
  /\ UNCHANGED <<settings, stopping, handling, process, reading>>

Closes ==
  /\ main = "close"
  /\ main' = "exiting" /\ hStop' = Invalid
  /\ UNCHANGED <<settings, signaled, waitsFor, handling, process, reading>>

(***************************************************************************)
(* The monitors are destroyed, and the other threads end with the process. *)
(***************************************************************************)
Exits ==
  /\ main = "exiting"
  /\ main' = "exited"
  /\ UNCHANGED <<settings, stopping, handling, process, reading>>

Main == \/ ReturnsEarly \/ InstallsHandler
        \/ CreatesChild \/ CreateChildFails \/ SeesChildExit \/ ChildWaitFails
        \/ Waits \/ SeesStop \/ WaitFails \/ Closes \/ Exits

-----------------------------------------------------------------------------
(***************************************************************************)
(* A control event goes to every process of the console.  A process        *)
(* without a handler ends; one that ignores control-C does not see it.     *)
(***************************************************************************)
Sees(type) == type # "C" \/ ~ignoring

ToChild(type) ==
  childCtrl' = (childCtrl \/ child = "running" \/ (child = "immune" /\ type # "C"))

ToHandler(handlers, type) ==
  \E h \in Handlers :
    /\ handler[h] = "idle" /\ \A g \in 1 .. h - 1 : handler[g] # "idle"
    /\ handler' = [handlers EXCEPT ![h] = "set"]
    /\ control' = [control EXCEPT ![h] = type]

CtrlArrives(type) ==
  /\ Alive /\ habit = "controls"
  /\ ToChild(type)
  /\ IF installed
     THEN /\ IF Sees(type) THEN ToHandler(handler, type) ELSE UNCHANGED <<handler, control>>
          /\ main' = main
     ELSE main' = "exited" /\ UNCHANGED <<handler, control>>
  /\ UNCHANGED <<settings, stopping, installed, ignoring, child, output, reading>>

(***************************************************************************)
(* ControlHandle, one call at a time.                                      *)
(***************************************************************************)
Handling(h, call) == Alive /\ handler[h] = call

\* A mistake: the handle is forgotten before the event is set.
MutHandlerSetsEvent(h) ==
  /\ Handling(h, "set")
  /\ handler' = [handler EXCEPT ![h] = "forget"]
  /\ hStop' = Invalid
  /\ UNCHANGED <<main, settings, signaled, waitsFor, installed, ignoring, control, process, reading>>

HandlerSetsEvent(h) ==
  /\ Handling(h, "set")
  /\ handler' = [handler EXCEPT ![h] = "forget"]
  /\ signaled' = (signaled \/ hStop = "event")
  /\ UNCHANGED <<main, settings, hStop, waitsFor, installed, ignoring, control, process, reading>>

HandlerForgetsEvent(h) ==
  /\ Handling(h, "forget")
  /\ handler' = [handler EXCEPT ![h] = "ignore"]
  /\ hStop' = Invalid
  /\ UNCHANGED <<main, settings, signaled, waitsFor, installed, ignoring, control, process, reading>>

HandlerIgnores(h) ==
  /\ Handling(h, "ignore")
  /\ handler' = [handler EXCEPT ![h] = "generate"] /\ ignoring' = TRUE
  /\ UNCHANGED <<main, settings, stopping, installed, control, process, reading>>

(***************************************************************************)
(* GenerateConsoleCtrlEvent takes control-C, which this process ignores by *)
(* now, and control-break, which it handles once more.                     *)
(***************************************************************************)
HandlerGenerates(h) ==
  LET returned == [handler EXCEPT ![h] = "done"] IN
  /\ Handling(h, "generate") /\ control[h] # "close"
  /\ ToChild(control[h])
  /\ IF Sees(control[h]) /\ handler[MaxCtrl] = "idle"
     THEN ToHandler(returned, control[h])
     ELSE handler' = returned /\ control' = control
  /\ UNCHANGED <<main, settings, stopping, installed, ignoring, child, output, reading>>

(***************************************************************************)
(* The system ends the process when the handler of a close event, or of a  *)
(* logoff or shutdown, returns.                                            *)
(***************************************************************************)
HandlerEndsProcess(h) ==
  /\ Handling(h, "generate") /\ control[h] = "close"
  /\ handler' = [handler EXCEPT ![h] = "done"] /\ main' = "exited"
  /\ UNCHANGED <<settings, stopping, installed, ignoring, control, process, reading>>

ControlHandle(h) ==
  \/ HandlerSetsEvent(h) \/ HandlerForgetsEvent(h) \/ HandlerIgnores(h)
  \/ HandlerGenerates(h) \/ HandlerEndsProcess(h)

-----------------------------------------------------------------------------
(***************************************************************************)
(* The reader runs as long as the process does; what the child does later  *)
(* is left out.                                                            *)
(***************************************************************************)
Reader == Alive /\ ReadFromPipe /\ UNCHANGED <<main, settings, stopping, handling>>

Others == Alive /\ Child /\ UNCHANGED <<main, settings, stopping, handling>>

Next == \/ Main \/ Reader \/ Others
        \/ \E h \in Handlers : ControlHandle(h)
        \/ \E type \in Controls : CtrlArrives(type)

(***************************************************************************)
(* The threads of the process are scheduled.  The child owes nothing.      *)
(***************************************************************************)
Spec == Init /\ [][Next]_vars
FairSpec == /\ Spec /\ WF_vars(Main) /\ WF_vars(Reader)
            /\ \A h \in Handlers : WF_vars(ControlHandle(h))

-----------------------------------------------------------------------------

(***************************************************************************)
(* Every variable has its type.                                            *)
(***************************************************************************)
TypeOK ==
  /\ ProcessTypeOK
  /\ main \in {"start", "create", "wait child", "wait", "waiting", "close", "exiting", "exited"}
  /\ command \in BOOLEAN
  /\ hStop \in {"event", Invalid} /\ signaled \in BOOLEAN
  /\ waitsFor \in {None, "event", Invalid}
  /\ installed \in BOOLEAN /\ ignoring \in BOOLEAN
  /\ handler \in [Handlers -> {"idle", "set", "forget", "ignore", "generate", "done"}]
  /\ control \in [Handlers -> Controls \cup {None}]

EmptyRead == \E n \in 1 .. read : output[n] = "empty"

(***************************************************************************)
(* While the process lives, a line is printed without a further write of   *)
(* the child; unless a write of no bytes has ended the reader, or a zero   *)
(* byte has cut a chunk.                                                   *)
(***************************************************************************)
LinesArePrinted ==
  []<>(~faulty =>
         \/ ~Alive \/ EmptyRead
         \/ \A n \in 1 .. Len(output) :
              output[n] = "eol" /\ (\A i \in 1 .. n : output[i] # "zero") => Handled >= n)

(***************************************************************************)
(* A child that is blocked on a full pipe goes on: the reader empties it,  *)
(* whatever its chunks hold, unless a write of no bytes has ended it.      *)
(***************************************************************************)
FullPipeIsRead ==
  []<>(~faulty /\ PipeFull /\ ChildRuns => ~Alive \/ EmptyRead)

(***************************************************************************)
(* A control event ends a process that already waits for the stop event,   *)
(* though several handlers run and each forgets the handle.                *)
(***************************************************************************)
CtrlEndsWait ==
  main = "waiting" /\ waitsFor = "event" /\ (\E h \in Handlers : handler[h] # "idle") ~> ~Alive

(***************************************************************************)
(* Main.cpp: "CTRL signal received. The process will now terminate."  It   *)
(* does not if the handler runs before the main thread waits: the wait is  *)
(* for the process itself, and control-C is ignored from then on.          *)
(***************************************************************************)
CtrlTerminates == ~command /\ (\E h \in Handlers : handler[h] = "set") ~> ~Alive

=============================================================================
