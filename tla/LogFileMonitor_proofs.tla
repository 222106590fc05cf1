----------------------- MODULE LogFileMonitor_proofs -----------------------
(***************************************************************************)
(* Theorems about LogFileMonitor, for every number of changes and files,   *)
(* every filter and every kernel buffer, with and without failures; and,   *)
(* at the end, about DirWait, the wait in which its directory thread       *)
(* begins, for every interval and every waitInSeconds.                     *)
(***************************************************************************)
EXTENDS LogFileMonitor, DirWait, TLAPS

Label(t) == IF t = "dir" THEN DirLabel ELSE HandlerLabel

(* The part of TypeOK that a change of a program counter can disturb. *)
PcTypeOK ==
  /\ pc \in [Thread -> DirLabel \cup HandlerLabel]
  /\ pc["dir"] \in DirLabel /\ pc["handler"] \in HandlerLabel

LEMMA GotoType ==
  ASSUME PcTypeOK, NEW t \in Thread, NEW label \in Label(t), Goto(t, label)
  PROVE  PcTypeOK'
BY DEF PcTypeOK, Goto, Label, Thread

LEMMA LabelsExist ==
  /\ \A l \in {"scan", "scanSignal", "scanLock", "scanDir", "exit", "wait"} :
       \A t \in Thread : l \in Label(t)
  /\ \A l \in {"open", "arm", "spawn", "batch", "lock", "emplace", "signal", "unlock",
                "clearLock", "clear"} : l \in Label("dir")
  /\ \A l \in {"createTimer", "setTimer", "drainLock", "drain", "dispatch", "reset",
                "rearm", "readAll"} : l \in Label("handler")
  /\ \A t \in Thread : AfterScan(t) \in Label(t)
BY DEF Label, DirLabel, HandlerLabel, Thread, AfterScan
-----------------------------------------------------------------------------
(***************************************************************************)
(* Type correctness, action by action.                                     *)
(***************************************************************************)
LEMMA TypeOKSplit ==
  /\ TypeOK => PcTypeOK
  /\ \A t \in Thread : TypeOK /\ todo[t] # <<>> =>
       Head(todo[t]) \in Event /\ Tail(todo[t]) \in Seq(Event)
BY DEF TypeOK, PcTypeOK, Thread

LEMMA NoEvents == <<>> \in Seq(Event) /\ <<>> \in Seq(Number) /\ Len(<<>>) = 0
OBVIOUS

LEMMA NumbersAreEvents ==
  ASSUME NEW s \in Seq(Number)
  PROVE  s \in Seq(Event)
BY DEF Event

LEMMA ElementsOf ==
  ASSUME NEW S, NEW s \in Seq(S)
  PROVE  ToSet(s) \subseteq S
BY DEF ToSet

LEMMA ChangesInType ==
  ASSUME NEW s \in Seq(Event)
  PROVE  ChangesIn(s) \subseteq Number
BY ElementsOf DEF ChangesIn, Event

(* A step that only moves a program counter. *)
LEMMA MoveType ==
  ASSUME TypeOK, NEW t \in Thread, NEW label \in Label(t), Goto(t, label),
         UNCHANGED <<ownerVars, unsignalled, status, todo, queue, syncVars, kernelVars,
                     missed, delivered>>
  PROVE  TypeOK'
<1>1. PcTypeOK'
  BY TypeOKSplit, GotoType
<1>2. QED
  BY <1>1 DEF TypeOK, PcTypeOK, ownerVars, syncVars, kernelVars

LEMMA QueueType ==
  ASSUME TypeOK, NEW t \in Thread, NEW at, NEW next \in Label(t)
  PROVE  /\ Acquire(t, at, next) => TypeOK'
         /\ Release(t, at, next) => TypeOK'
         /\ SignalWorker(t, at, next) \/ SignalFails(t, at, next) => TypeOK'
         /\ \A signal \in Label(t) : Emplace(t, at, signal, next) => TypeOK'
<1>1. ASSUME Goto(t, next) PROVE PcTypeOK'
  BY <1>1, TypeOKSplit, GotoType
<1>2. Acquire(t, at, next) => TypeOK'
  BY <1>1 DEF Acquire, TypeOK, PcTypeOK, ownerVars, kernelVars
<1>3. Release(t, at, next) => TypeOK'
  BY <1>1 DEF Release, TypeOK, PcTypeOK, ownerVars, kernelVars
<1>4. SignalWorker(t, at, next) \/ SignalFails(t, at, next) => TypeOK'
  BY <1>1 DEF SignalWorker, SignalFails, TypeOK, PcTypeOK, ownerVars, syncVars, kernelVars
<1>5. ASSUME NEW signal \in Label(t), Emplace(t, at, signal, next) PROVE TypeOK'
  <2>1. PcTypeOK'
    BY <1>5, TypeOKSplit, GotoType DEF Emplace
  <2>2. queue' \in Seq(Event) /\ todo' \in [Thread -> Seq(Event)]
    BY <1>5, TypeOKSplit DEF Emplace, TypeOK
  <2>3. QED
    BY <1>5, <2>1, <2>2 DEF Emplace, TypeOK, PcTypeOK, ownerVars, syncVars, kernelVars
<1>6. QED
  BY <1>2, <1>3, <1>4, <1>5

LEMMA ScanType ==
  ASSUME TypeOK, NEW t \in Thread
  PROVE  Scan(t) \/ ScanFails(t) \/ Throws(t) => TypeOK'
<1>1. ASSUME ScanLists(t) PROVE TypeOK'
  <2>1. PcTypeOK'
    BY <1>1, TypeOKSplit, GotoType, LabelsExist DEF ScanLists
  <2>2. todo' \in [Thread -> Seq(Event)]
    <3>1. PICK n \in 0 .. MaxFiles : todo' = [todo EXCEPT ![t] = [i \in 1 .. n |-> Synthetic]]
      BY <1>1 DEF ScanLists
    <3>2. [i \in 1 .. n |-> Synthetic] \in Seq(Event)
      BY LogFileMonitorAssumption DEF Synthetic, Event
    <3>3. QED
      BY <3>1, <3>2 DEF TypeOK
  <2>3. QED
    BY <1>1, <2>1, <2>2 DEF ScanLists, TypeOK, PcTypeOK, ownerVars, syncVars, kernelVars
<1>2. ASSUME ScanFails(t) PROVE TypeOK'
  <2>1. PcTypeOK'
    BY <1>2, TypeOKSplit, GotoType, LabelsExist DEF ScanFails
  <2>2. QED
    BY <1>2, <2>1 DEF ScanFails, TypeOK, PcTypeOK, ownerVars, syncVars, kernelVars
<1>3. Throws(t) => TypeOK'
  BY MoveType, LabelsExist DEF Throws
<1>4. Scan(t) => TypeOK'
  BY <1>1, QueueType, LabelsExist DEF Scan, ScanEnds
<1>5. QED
  BY <1>2, <1>3, <1>4

LEMMA DirType ==
  ASSUME TypeOK
  PROVE  DirStep \/ DirFault \/ DirOpening => TypeOK'
<1>1. "dir" \in Thread
  BY DEF Thread
<1>2. ASSUME NEW label \in DirLabel, Goto("dir", label) PROVE PcTypeOK'
  BY <1>1, <1>2, TypeOKSplit, GotoType DEF Label
<1>3. DirOpens \/ DirOpenFails \/ DirSeesStop \/ DirBatchEnds => TypeOK'
  BY <1>1, MoveType, LabelsExist DEF DirOpens, DirOpenFails, DirSeesStop, DirBatchEnds
<1>4. DirSignalsStarted => TypeOK'
  <2>1. DirSignalsStarted => PcTypeOK'
    BY <1>2 DEF DirSignalsStarted, DirLabel
  <2>2. QED
    BY <2>1 DEF DirSignalsStarted, TypeOK, PcTypeOK, ownerVars, kernelVars
<1>5. ASSUME DirArms PROVE TypeOK'
  <2>1. PcTypeOK'
    BY <1>2, <1>5 DEF DirArms, DirLabel
  <2>2. kernel' \in Seq(Number) /\ Len(kernel') <= KernelCapacity
    BY <1>5, NoEvents, LogFileMonitorAssumption DEF DirArms
  <2>3. io' \in {"none", "pending", "records", "empty"}
    BY <1>5 DEF DirArms
  <2>4. QED
    BY <1>5, <2>1, <2>2, <2>3 DEF DirArms, TypeOK, PcTypeOK, ownerVars, syncVars
<1>6. DirArmOverflows => TypeOK'
  <2>1. DirArmOverflows => PcTypeOK'
    BY <1>2 DEF DirArmOverflows, DirLabel
  <2>2. <<Synthetic>> \in Seq(Event)
    BY LogFileMonitorAssumption DEF Synthetic, Event
  <2>3. DirArmOverflows => todo' \in [Thread -> Seq(Event)]
    BY <2>2 DEF DirArmOverflows, TypeOK
  <2>4. QED
    BY <2>1, <2>3 DEF DirArmOverflows, TypeOK, PcTypeOK, ownerVars, syncVars
<1>7. DirArmFails \/ DirSpawnFails \/ DirWaitFails => TypeOK'
  <2>1. DirArmFails \/ DirSpawnFails \/ DirWaitFails => PcTypeOK'
    BY <1>2 DEF DirArmFails, DirSpawnFails, DirWaitFails, DirLabel
  <2>2. QED
    BY <2>1
    DEF DirArmFails, DirSpawnFails, DirWaitFails, TypeOK, PcTypeOK, ownerVars, syncVars, kernelVars
<1>8. DirSpawnsHandler => TypeOK'
  BY DEF DirSpawnsHandler, TypeOK, Thread, DirLabel, HandlerLabel, ownerVars, syncVars, kernelVars
<1>9. DirTakesRecords => TypeOK'
  <2>1. DirTakesRecords => PcTypeOK'
    BY <1>2 DEF DirTakesRecords, DirLabel
  <2>2. QED
    BY <2>1, NoEvents, NumbersAreEvents DEF DirTakesRecords, TypeOK, PcTypeOK, ownerVars, syncVars
<1>10. DirTakesEmpty => TypeOK'
  <2>1. DirTakesEmpty => PcTypeOK'
    BY <1>2 DEF DirTakesEmpty, DirLabel
  <2>2. QED
    BY <2>1 DEF DirTakesEmpty, TypeOK, PcTypeOK, ownerVars, syncVars
<1>11. DirTakeFails => TypeOK'
  <2>1. ChangesIn(records) \subseteq Number
    BY ChangesInType, NumbersAreEvents DEF TypeOK
  <2>2. DirTakeFails => PcTypeOK'
    BY <1>2 DEF DirTakeFails, DirLabel
  <2>3. QED
    BY <2>1, <2>2, NoEvents DEF DirTakeFails, TypeOK, PcTypeOK, ownerVars, syncVars
<1>12. DirFilters => TypeOK'
  <2>1. DirFilters => PcTypeOK'
    BY <1>2, TypeOKSplit DEF DirFilters, PcTypeOK, DirLabel
  <2>2. DirFilters => todo' \in [Thread -> Seq(Event)]
    BY <1>1, TypeOKSplit DEF DirFilters, TypeOK
  <2>3. QED
    BY <2>1, <2>2 DEF DirFilters, TypeOK, PcTypeOK, ownerVars, syncVars, kernelVars
<1>13. DirClears => TypeOK'
  <2>1. ChangesIn(queue) \subseteq Number
    BY ChangesInType DEF TypeOK
  <2>2. DirClears => PcTypeOK'
    BY <1>2 DEF DirClears, DirLabel
  <2>3. QED
    BY <2>1, <2>2, NoEvents DEF DirClears, TypeOK, PcTypeOK, ownerVars, kernelVars
<1>14. QED
  BY <1>1, <1>3, <1>4, <1>5, <1>6, <1>7, <1>8, <1>9, <1>10, <1>11, <1>12, <1>13,
     ScanType, QueueType, LabelsExist
  DEF DirStep, DirFault, DirOpening

LEMMA HandlerType ==
  ASSUME TypeOK
  PROVE  HandlerStep \/ HandlerFault => TypeOK'
<1>1. "handler" \in Thread
  BY DEF Thread
<1>2. ASSUME NEW label \in HandlerLabel, Goto("handler", label) PROVE PcTypeOK'
  BY <1>1, <1>2, TypeOKSplit, GotoType DEF Label
<1>3. HandlerCreatesTimer \/ HandlerTimerFails \/ HandlerSeesWork \/ HandlerWaitFails
      \/ HandlerDispatches \/ HandlerFindsEmpty \/ HandlerReadsAll => TypeOK'
  BY <1>1, MoveType, LabelsExist
  DEF HandlerCreatesTimer, HandlerTimerFails, HandlerSeesWork, HandlerWaitFails,
      HandlerDispatches, HandlerFindsEmpty, HandlerReadsAll
<1>4. HandlerSetsTimer \/ HandlerSeesStop \/ HandlerSeesTimer \/ HandlerResets
      \/ HandlerResetFails \/ HandlerRearms => TypeOK'
  <2>1. HandlerSetsTimer \/ HandlerSeesStop \/ HandlerSeesTimer \/ HandlerResets
        \/ HandlerResetFails \/ HandlerRearms => PcTypeOK'
    BY <1>2
    DEF HandlerSetsTimer, HandlerSeesStop, HandlerSeesTimer, HandlerResets, HandlerResetFails,
        HandlerRearms, HandlerLabel
  <2>2. QED
    BY <2>1
    DEF HandlerSetsTimer, HandlerSeesStop, HandlerSeesTimer, HandlerResets, HandlerResetFails,
        HandlerRearms, Free, TypeOK, PcTypeOK, ownerVars, kernelVars
<1>5. HandlerPops => TypeOK'
  <2>1. HandlerPops => PcTypeOK'
    BY <1>2 DEF HandlerPops, HandlerLabel
  <2>2. HandlerPops => queue' \in Seq(Event) /\ delivered' \in Seq(Event)
    BY DEF HandlerPops, TypeOK
  <2>3. QED
    BY <2>1, <2>2 DEF HandlerPops, TypeOK, PcTypeOK, ownerVars, kernelVars
<1>6. QED
  BY <1>1, <1>3, <1>4, <1>5, ScanType, QueueType, LabelsExist
  DEF HandlerStep, HandlerFault

OwnerStep == OwnerWaits \/ ConstructorThrows \/ DestructorStops \/ DestructorFails

LEMMA EnvironmentType ==
  ASSUME TypeOK
  PROVE  OwnerStep \/ Change \/ TimerFires => TypeOK'
<1>1. OwnerWaits \/ ConstructorThrows \/ DestructorFails => TypeOK'
  BY DEF OwnerWaits, ConstructorReturns, DestructorJoins, DestructorGivesUp,
         ConstructorThrows, DestructorFails, TypeOK, syncVars, kernelVars
<1>2. DestructorStops => TypeOK'
  BY DEF DestructorStops, TypeOK, kernelVars
<1>3. TimerFires => TypeOK'
  BY DEF TimerFires, TypeOK, ownerVars, kernelVars
<1>4. ASSUME Change PROVE TypeOK'
  <2>1. happened' \in Number /\ happened' \in 0 .. MaxChanges
    BY <1>4, LogFileMonitorAssumption DEF Change, TypeOK, Number
  <2>2. CASE ChangeUnrecorded
    BY <1>4, <2>1, <2>2 DEF Change, ChangeUnrecorded, TypeOK, ownerVars, syncVars
  <2>3. CASE ChangeCompletesRead
    BY <1>4, <2>1, <2>3 DEF Change, ChangeCompletesRead, TypeOK, ownerVars, syncVars
  <2>4. CASE ChangeBuffered
    <3>1. kernel' \in Seq(Number) /\ Len(kernel') <= KernelCapacity
      BY <2>1, <2>4, LogFileMonitorAssumption DEF ChangeBuffered, BufferHasRoom, TypeOK
    <3>2. QED
      BY <1>4, <2>1, <2>4, <3>1 DEF Change, ChangeBuffered, TypeOK, ownerVars, syncVars
  <2>5. CASE ChangeOverflows
    <3>1. missed' \subseteq Number
      BY <2>1, <2>5, ElementsOf DEF ChangeOverflows, TypeOK
    <3>2. kernel' \in Seq(Number) /\ Len(kernel') <= KernelCapacity
      BY <2>5, NoEvents, LogFileMonitorAssumption DEF ChangeOverflows
    <3>3. QED
      BY <1>4, <2>1, <2>5, <3>1, <3>2 DEF Change, ChangeOverflows, TypeOK, ownerVars, syncVars
  <2>6. QED
    BY <1>4, <2>2, <2>3, <2>4, <2>5 DEF Change
<1>5. QED
  BY <1>1, <1>2, <1>3, <1>4 DEF OwnerStep

(* Every variable keeps its type. *)
THEOREM TypeCorrect == Spec => []TypeOK
<1>1. Init => TypeOK
  <2>1. Init => pc \in [Thread -> DirLabel \cup HandlerLabel] /\ pc["dir"] \in DirLabel
                /\ pc["handler"] \in HandlerLabel
    BY DEF Init, Thread, DirLabel, HandlerLabel
  <2>2. Init => kernel \in Seq(Number) /\ Len(kernel) <= KernelCapacity /\ happened \in 0 .. MaxChanges
    BY NoEvents, LogFileMonitorAssumption DEF Init
  <2>3. Init => todo \in [Thread -> Seq(Event)]
    BY NoEvents DEF Init
  <2>4. QED
    BY <2>1, <2>2, <2>3, NoEvents DEF Init, TypeOK
<1>2. TypeOK /\ [Next]_vars => TypeOK'
  <2>1. TypeOK /\ Next => TypeOK'
    BY DirType, HandlerType, EnvironmentType DEF Next, OwnerStep
  <2>2. TypeOK /\ UNCHANGED vars => TypeOK'
    BY DEF TypeOK, vars
  <2>3. QED
    BY <2>1, <2>2
<1>3. QED
  BY <1>1, <1>2, PTL DEF Spec
-----------------------------------------------------------------------------
(***************************************************************************)
(* The inductive invariant behind the worker event and the maps.           *)
(***************************************************************************)
(* The labels at which a thread is inside its critical section. *)
Locked == {"scan", "scanSignal", "emplace", "signal", "unlock", "clear", "drain", "reset", "rearm"}

LockInv == \A t \in Thread : pc[t] \in Locked => lock = t

(* The event is signalled, or a thread is just about to signal it, or that has failed. *)
SignalInv ==
  /\ queue # <<>> =>
       workerEvent \/ unsignalled \/ \E t \in Thread : pc[t] \in {"scanSignal", "signal"}
  /\ pc["dir"] = "signal" => queue # <<>>

(* Only the handler resets the event, in its loop: elsewhere it is signalled. *)
SleepInv == ~workerEvent => pc["handler"] \in {"rearm", "wait", "setTimer", "readAll", "exit"}

(* Once a SetEvent has failed for the handler asleep, the event stays unsignalled: the queue
   is not empty again before the directory thread ends, so that nobody signals. *)
FailureInv ==
  unsignalled => /\ ~workerEvent
                 /\ pc["handler"] \in {"wait", "setTimer", "readAll", "exit"}
                 /\ pc["dir"] \notin {"scanSignal", "signal"}
                 /\ queue # <<>> \/ pc["dir"] = "exit"

ResetInv == pc["handler"] = "reset" => queue = <<>>

(* The handler does not exist before the directory thread has made its scan. *)
SpawnInv ==
  pc["dir"] \in {"entry", "open", "scanDir", "scanLock", "scan", "scanSignal", "spawn"}
    => pc["handler"] = "unborn"

IInv == PcTypeOK /\ LockInv /\ SignalInv /\ SleepInv /\ FailureInv /\ ResetInv /\ SpawnInv

LEMMA QueueInv ==
  ASSUME IInv, TypeOK, NEW t \in Thread, PcTypeOK'
  PROVE  /\ Acquire(t, "scanLock", "scan") => IInv'
         /\ Emplace(t, "scan", "scanSignal", "scan") => IInv'
         /\ SignalWorker(t, "scanSignal", "scan") => IInv'
         /\ SignalFails(t, "scanSignal", "scan") => IInv'
         /\ ScanLists(t) \/ ScanFails(t) \/ ScanEnds(t) \/ Throws(t) => IInv'
<1>. USE DEF IInv, PcTypeOK, LockInv, SignalInv, SleepInv, FailureInv, ResetInv, SpawnInv,
            Locked, Thread, Goto, Free
<1>1. Acquire(t, "scanLock", "scan") => IInv'
  BY DEF Acquire
<1>2. Emplace(t, "scan", "scanSignal", "scan") => IInv'
  BY DEF Emplace, TypeOK, syncVars
<1>3. SignalWorker(t, "scanSignal", "scan") => IInv'
  BY DEF SignalWorker
<1>4. ScanLists(t) \/ ScanFails(t) => IInv'
  BY DEF ScanLists, ScanFails, AfterScan, syncVars
<1>5. ScanEnds(t) => IInv'
  BY DEF ScanEnds, Release, AfterScan
<1>6. Throws(t) => IInv'
  BY DEF Throws, syncVars
<1>7. ASSUME SignalFails(t, "scanSignal", "scan") PROVE IInv'
  <2>1. workerEvent
    BY <1>7 DEF SignalFails, DirLabel, HandlerLabel
  <2>2. ~unsignalled /\ ~unsignalled'
    BY <1>7, <2>1 DEF SignalFails
  <2>3. UNCHANGED <<queue, lock, workerEvent>> /\ pc' = [pc EXCEPT ![t] = "scan"]
        /\ pc[t] = "scanSignal"
    BY <1>7 DEF SignalFails, syncVars
  <2> QED BY <2>1, <2>2, <2>3
<1>8. QED
  BY <1>1, <1>2, <1>3, <1>4, <1>5, <1>6, <1>7

LEMMA DirInv ==
  ASSUME IInv, TypeOK, PcTypeOK'
  PROVE  DirStep \/ DirFault \/ DirOpening => IInv'
<1>. USE DEF IInv, PcTypeOK, LockInv, SignalInv, SleepInv, FailureInv, ResetInv, SpawnInv,
            Locked, Thread, Goto, Free,
            TypeOK, syncVars
<1>1. DirSignalsStarted => IInv'
  BY DEF DirSignalsStarted
<1>2. DirOpens => IInv'
  BY DEF DirOpens
<1>3. DirOpenFails => IInv'
  BY DEF DirOpenFails
<1>4. DirArms => IInv'
  BY DEF DirArms
<1>5. DirArmOverflows => IInv'
  BY DEF DirArmOverflows
<1>6. DirArmFails => IInv'
  BY DEF DirArmFails
<1>7. DirSpawnsHandler => IInv'
  BY DEF DirSpawnsHandler
<1>8. DirSpawnFails => IInv'
  BY DEF DirSpawnFails
<1>9. DirSeesStop => IInv'
  BY DEF DirSeesStop
<1>10. DirTakesRecords => IInv'
  BY DEF DirTakesRecords
<1>11. DirTakesEmpty => IInv'
  BY DEF DirTakesEmpty
<1>12. DirTakeFails => IInv'
  BY DEF DirTakeFails
<1>13. DirWaitFails => IInv'
  BY DEF DirWaitFails
<1>14. DirFilters => IInv'
  BY DEF DirFilters
<1>15. DirBatchEnds => IInv'
  BY DEF DirBatchEnds
<1>16. DirClears => IInv'
  BY DEF DirClears
<1>17. Acquire("dir", "lock", "emplace") => IInv'
  BY DEF Acquire
<1>18. Acquire("dir", "clearLock", "clear") => IInv'
  BY DEF Acquire
<1>19. Emplace("dir", "emplace", "signal", "unlock") => IInv'
  BY DEF Emplace
<1>20. SignalWorker("dir", "signal", "unlock") => IInv'
  BY DEF SignalWorker
<1>21. Release("dir", "unlock", "batch") => IInv'
  BY DEF Release
<1>22. ASSUME SignalFails("dir", "signal", "unlock") PROVE IInv'
  <2>1. /\ UNCHANGED <<queue, lock, workerEvent>> /\ pc' = [pc EXCEPT !["dir"] = "unlock"]
        /\ pc["dir"] = "signal" /\ queue # <<>>
    BY <1>22 DEF SignalFails
  <2>2. CASE workerEvent
    <3>1. ~unsignalled /\ ~unsignalled'
      BY <1>22, <2>2 DEF SignalFails
    <3> QED BY <2>1, <2>2, <3>1
  <2>3. CASE ~workerEvent
    <3>1. unsignalled' /\ pc["handler"] \in {"wait", "setTimer", "readAll", "exit"}
      BY <1>22, <2>1, <2>3 DEF SignalFails
    <3> QED BY <2>1, <2>3, <3>1
  <2> QED BY <2>2, <2>3
<1>23. QED
  BY <1>1, <1>2, <1>3, <1>4, <1>5, <1>6, <1>7, <1>8, <1>9, <1>10, <1>11, <1>12, <1>13, <1>14,
     <1>15, <1>16, <1>17, <1>18, <1>19, <1>20, <1>21, <1>22, QueueInv
  DEF DirStep, DirFault, DirOpening, Scan

LEMMA HandlerInv ==
  ASSUME IInv, TypeOK, PcTypeOK'
  PROVE  HandlerStep \/ HandlerFault => IInv'
<1>. USE DEF IInv, PcTypeOK, LockInv, SignalInv, SleepInv, FailureInv, ResetInv, SpawnInv,
            Locked, Thread, Goto, Free,
            TypeOK, syncVars
<1>1. HandlerCreatesTimer => IInv'
  BY DEF HandlerCreatesTimer
<1>2. HandlerTimerFails => IInv'
  BY DEF HandlerTimerFails
<1>3. HandlerSetsTimer => IInv'
  BY DEF HandlerSetsTimer
<1>4. HandlerSeesStop => IInv'
  BY DEF HandlerSeesStop
<1>5. HandlerSeesWork => IInv'
  BY DEF HandlerSeesWork
<1>6. HandlerSeesTimer => IInv'
  BY DEF HandlerSeesTimer
<1>7. HandlerWaitFails => IInv'
  BY DEF HandlerWaitFails
<1>8. HandlerPops => IInv'
  BY DEF HandlerPops
<1>9. HandlerDispatches => IInv'
  BY DEF HandlerDispatches
<1>10. HandlerFindsEmpty => IInv'
  BY DEF HandlerFindsEmpty
<1>11. HandlerResets => IInv'
  BY DEF HandlerResets
<1>12. HandlerRearms => IInv'
  BY DEF HandlerRearms
<1>13. HandlerReadsAll => IInv'
  BY DEF HandlerReadsAll
<1>14. Acquire("handler", "drainLock", "drain") => IInv'
  BY DEF Acquire
<1>15. HandlerResetFails => IInv'
  BY DEF HandlerResetFails
<1>16. QED
  BY <1>1, <1>2, <1>3, <1>4, <1>5, <1>6, <1>7, <1>8, <1>9, <1>10, <1>11, <1>12, <1>13, <1>14,
     <1>15, QueueInv
  DEF HandlerStep, HandlerFault, Scan

LEMMA EnvironmentInv ==
  ASSUME IInv, TypeOK, PcTypeOK'
  PROVE  OwnerStep \/ Change \/ TimerFires => IInv'
<1>. USE DEF IInv, PcTypeOK, LockInv, SignalInv, SleepInv, FailureInv, ResetInv, SpawnInv,
            Locked, Thread, Goto, Free,
            TypeOK, syncVars
<1>1. OwnerWaits \/ ConstructorThrows \/ DestructorFails => IInv'
  BY DEF OwnerWaits, ConstructorReturns, DestructorJoins, DestructorGivesUp,
         ConstructorThrows, DestructorFails
<1>2. DestructorStops => IInv'
  BY DEF DestructorStops
<1>3. Change => IInv'
  BY DEF Change
<1>4. TimerFires => IInv'
  BY DEF TimerFires
<1>5. QED
  BY <1>1, <1>2, <1>3, <1>4 DEF OwnerStep

LEMMA InvCorrect == Spec => []IInv
<1>1. Init => IInv
  BY DEF Init, IInv, PcTypeOK, LockInv, SignalInv, SleepInv, FailureInv, ResetInv, SpawnInv,
         Locked, Thread,
         DirLabel, HandlerLabel
<1>2. TypeOK /\ TypeOK' /\ IInv /\ [Next]_vars => IInv'
  <2>1. TypeOK' => PcTypeOK'
    BY DEF TypeOK, PcTypeOK
  <2>2. TypeOK /\ TypeOK' /\ IInv /\ Next => IInv'
    BY <2>1, DirInv, HandlerInv, EnvironmentInv DEF Next, OwnerStep
  <2>3. IInv /\ UNCHANGED vars => IInv'
    BY DEF vars, IInv, PcTypeOK, LockInv, SignalInv, SleepInv, FailureInv, ResetInv, SpawnInv
  <2>4. QED
    BY <2>2, <2>3
<1>3. QED
  BY <1>1, <1>2, TypeCorrect, PTL DEF Spec

(* The handler never sleeps on a queue that holds events, unless a SetEvent has failed for
   it: no other step of either thread leaves events in the queue, the lock free and the
   worker event unset; and after one that failed no later event of the queue wakes it. *)
THEOREM WorkerEventCorrect == Spec => []NoLostWakeup
<1>1. IInv => NoLostWakeup
  BY DEF IInv, LockInv, SignalInv, FailureInv, NoLostWakeup, Locked, Free, Thread
<1>2. QED
  BY <1>1, InvCorrect, PTL

(* The maps of tracked files are never used by both threads at the same time. *)
THEOREM MapsCorrect == Spec => []MapsHaveOneUser
<1>1. IInv => MapsHaveOneUser
  BY DEF IInv, PcTypeOK, SpawnInv, MapsHaveOneUser, TouchesMaps, DirLabel
<1>2. QED
  BY <1>1, InvCorrect, PTL
-----------------------------------------------------------------------------
(***************************************************************************)
(* The queue implements the channel.                                       *)
(***************************************************************************)
(* The directory thread clears the queue on stop only. *)
ClearInv == pc["dir"] \in {"clearLock", "clear"} => stopEvent

LEMMA ClearCorrect == Spec => []ClearInv
<1>1. Init => ClearInv
  BY DEF Init, ClearInv
<1>2. TypeOK /\ ClearInv /\ [Next]_vars => ClearInv'
  <2>. SUFFICES ASSUME TypeOK, ClearInv, [Next]_vars PROVE ClearInv'
    OBVIOUS
  <2>. USE DEF ClearInv, TypeOK, Goto, Thread, syncVars
  <2>1. ASSUME NEW t \in Thread, \/ Scan(t) \/ ScanFails(t) \/ Throws(t)
                                     \/ SignalFails(t, "scanSignal", "scan")
        PROVE  ClearInv'
    BY <2>1 DEF SignalFails, Scan, ScanLists, Acquire, Emplace, SignalWorker, ScanEnds,
                Release, AfterScan,
                ScanFails, Throws
  <2>2. CASE DirStep
    <3>0. CASE DirSignalsStarted
      BY <3>0 DEF DirSignalsStarted
    <3>1. CASE DirArms \/ DirArmOverflows \/ DirSpawnsHandler
      BY <3>1 DEF DirArms, DirArmOverflows, DirSpawnsHandler
    <3>2. CASE DirSeesStop \/ DirTakesRecords \/ DirTakesEmpty \/ DirFilters \/ DirBatchEnds
      BY <3>2 DEF DirSeesStop, DirTakesRecords, DirTakesEmpty, DirFilters, DirBatchEnds
    <3>3. CASE \/ Acquire("dir", "lock", "emplace")
               \/ Emplace("dir", "emplace", "signal", "unlock")
               \/ SignalWorker("dir", "signal", "unlock")
               \/ Release("dir", "unlock", "batch")
               \/ Acquire("dir", "clearLock", "clear")
      BY <3>3 DEF Acquire, Emplace, SignalWorker, Release
    <3>4. CASE DirClears
      BY <3>4 DEF DirClears
    <3>5. QED
      BY <2>1, <2>2, <3>0, <3>1, <3>2, <3>3, <3>4 DEF DirStep
  <2>3. CASE DirFault \/ DirOpening
    BY <2>1, <2>3 DEF DirFault, DirOpening, SignalFails, DirArmFails, DirSpawnFails, DirTakeFails,
                      DirWaitFails, DirOpens, DirOpenFails
  <2>4. CASE HandlerStep \/ HandlerFault
    <3>1. pc' = [pc EXCEPT !["handler"] = pc'["handler"]] /\ stopEvent' = stopEvent
      <4>1. ASSUME \/ Scan("handler") \/ ScanFails("handler") \/ Throws("handler")
                   \/ SignalFails("handler", "scanSignal", "scan")
            PROVE  pc' = [pc EXCEPT !["handler"] = pc'["handler"]] /\ stopEvent' = stopEvent
        BY <4>1 DEF SignalFails, Scan, ScanLists, Acquire, Emplace, SignalWorker, ScanEnds, Release,
                    AfterScan, ScanFails, Throws
      <4>2. ASSUME \/ HandlerCreatesTimer \/ HandlerSetsTimer \/ HandlerSeesStop
                   \/ HandlerSeesWork \/ HandlerSeesTimer \/ HandlerTimerFails
                   \/ HandlerWaitFails \/ HandlerResetFails
            PROVE  pc' = [pc EXCEPT !["handler"] = pc'["handler"]] /\ stopEvent' = stopEvent
        BY <4>2 DEF HandlerCreatesTimer, HandlerSetsTimer, HandlerSeesStop, HandlerSeesWork,
                    HandlerSeesTimer, HandlerTimerFails, HandlerWaitFails, HandlerResetFails
      <4>3. ASSUME \/ Acquire("handler", "drainLock", "drain")
                   \/ HandlerPops \/ HandlerDispatches \/ HandlerFindsEmpty
                   \/ HandlerResets \/ HandlerRearms \/ HandlerReadsAll
            PROVE  pc' = [pc EXCEPT !["handler"] = pc'["handler"]] /\ stopEvent' = stopEvent
        BY <4>3 DEF Acquire, HandlerPops, HandlerDispatches, HandlerFindsEmpty, HandlerResets,
                    HandlerRearms, HandlerReadsAll
      <4>4. QED
        BY <2>4, <4>1, <4>2, <4>3 DEF HandlerStep, HandlerFault
    <3>2. QED
      BY <3>1
  <2>5. CASE OwnerStep \/ Change \/ TimerFires
    BY <2>5 DEF OwnerStep, ConstructorThrows, DestructorFails, OwnerWaits,
                ConstructorReturns, DestructorJoins, DestructorGivesUp,
                DestructorStops, Change, TimerFires
  <2>6. CASE UNCHANGED vars
    BY <2>6 DEF vars
  <2>7. QED
    BY <2>2, <2>3, <2>4, <2>5, <2>6 DEF Next, OwnerStep
<1>3. QED
  BY <1>1, <1>2, TypeCorrect, PTL DEF Spec

(* Each step of the monitor is a step of the channel, or leaves the channel alone. *)
LEMMA StepOfChannel ==
  ASSUME TypeOK, ClearInv, [Next]_vars
  PROVE  [Channel!Next]_(Channel!vars)
<1>. DEFINE Stutter == UNCHANGED <<queue, delivered, stopEvent>>
<1>1. Stutter => [Channel!Next]_(Channel!vars)
  BY DEF Channel!vars
<1>2. ASSUME NEW t \in Thread, NEW at, NEW signal, NEW next, Emplace(t, at, signal, next)
      PROVE  Channel!Post
  BY <1>2, TypeOKSplit DEF Emplace, syncVars, Channel!Post
<1>3. HandlerPops => Channel!Deliver
  BY DEF HandlerPops, Channel!Deliver
<1>4. DirClears => Channel!Discard
  BY DEF DirClears, ClearInv, Channel!Discard
<1>5. DestructorStops => Channel!Shut
  BY DEF DestructorStops, Channel!Shut
<1>6. ASSUME NEW t \in Thread, NEW at, NEW next,
             \/ Acquire(t, at, next) \/ Release(t, at, next)
             \/ SignalWorker(t, at, next) \/ SignalFails(t, at, next)
      PROVE  Stutter
  BY <1>6 DEF Acquire, Release, SignalWorker, SignalFails, syncVars
<1>7. ASSUME NEW t \in Thread, ScanLists(t) \/ ScanFails(t) \/ Throws(t) PROVE Stutter
  BY <1>7 DEF ScanLists, ScanFails, Throws, syncVars
<1>8. ASSUME \/ DirSignalsStarted \/ DirArms \/ DirArmOverflows \/ DirSpawnsHandler
             \/ DirSeesStop \/ DirTakesRecords \/ DirTakesEmpty \/ DirFilters \/ DirBatchEnds
             \/ DirArmFails \/ DirSpawnFails \/ DirTakeFails \/ DirWaitFails
             \/ DirOpens \/ DirOpenFails
      PROVE  Stutter
  BY <1>8 DEF DirSignalsStarted, DirArms, DirArmOverflows, DirSpawnsHandler, DirSeesStop,
              DirTakesRecords, DirTakesEmpty, DirFilters, DirBatchEnds, DirArmFails,
              DirSpawnFails, DirTakeFails, DirWaitFails, DirOpens, DirOpenFails, syncVars
<1>9. ASSUME \/ HandlerCreatesTimer \/ HandlerSetsTimer \/ HandlerSeesStop \/ HandlerSeesWork
             \/ HandlerSeesTimer \/ HandlerDispatches \/ HandlerFindsEmpty \/ HandlerResets
             \/ HandlerRearms \/ HandlerReadsAll \/ HandlerTimerFails \/ HandlerWaitFails
             \/ HandlerResetFails
      PROVE  Stutter
  BY <1>9 DEF HandlerCreatesTimer, HandlerSetsTimer, HandlerSeesStop, HandlerSeesWork,
              HandlerSeesTimer, HandlerDispatches, HandlerFindsEmpty, HandlerResets,
              HandlerRearms, HandlerReadsAll, HandlerTimerFails, HandlerWaitFails,
              HandlerResetFails, syncVars
<1>10. ASSUME \/ OwnerWaits \/ ConstructorThrows \/ DestructorFails \/ Change \/ TimerFires
       PROVE  Stutter
  BY <1>10 DEF ConstructorThrows, DestructorFails, OwnerWaits, ConstructorReturns,
               DestructorJoins, DestructorGivesUp, Change,
               TimerFires, syncVars
<1>11. UNCHANGED vars => Stutter
  BY DEF vars
<1>12. "dir" \in Thread /\ "handler" \in Thread
  BY DEF Thread
<1>13. ASSUME NEW t \in Thread, Scan(t) PROVE Channel!Post \/ Stutter
  BY <1>2, <1>6, <1>7, <1>13 DEF Scan, ScanEnds
<1>14. DirStep \/ DirFault \/ DirOpening => Channel!Next \/ Stutter
  BY <1>2, <1>4, <1>6, <1>7, <1>8, <1>12, <1>13
  DEF DirStep, DirFault, DirOpening, Channel!Next
<1>15. HandlerStep \/ HandlerFault => Channel!Next \/ Stutter
  BY <1>3, <1>6, <1>7, <1>9, <1>12, <1>13 DEF HandlerStep, HandlerFault, Channel!Next
<1>16. QED
  BY <1>1, <1>5, <1>10, <1>11, <1>14, <1>15 DEF Next, Channel!Next

(* The queue, its lock and its worker event deliver each event at most once, in the order
   of posting, and discard events only after stop: they implement EventChannel. *)
THEOREM ChannelCorrect == Spec => ImplementsChannel
<1>1. Init => Channel!Init
  BY DEF Init, Channel!Init
<1>2. QED
  BY <1>1, StepOfChannel, TypeCorrect, ClearCorrect, PTL DEF Spec, ImplementsChannel, Channel!Spec

-----------------------------------------------------------------------------
(***************************************************************************)
(* No change is lost or overtakes another between the directory handle and *)
(* the handler thread: NothingLostOrReordered for every number of changes, *)
(* every filter and every buffer, with and without failures.               *)
(***************************************************************************)

(* The changes of matching files in a part of the pipeline. *)
In(s) == ToSet(s) \cap Matching

Before(A, B) == \A a \in A, b \in B : a < b

LEMMA MatchingAreNumbers ==
  /\ Matching \subseteq Nat /\ Synthetic \notin Matching
  /\ Matching \subseteq Number /\ Number \subseteq Event
BY LogFileMonitorAssumption DEF Synthetic, Number, Event
-----------------------------------------------------------------------------
(***************************************************************************)
(* What the operations on sequences do to In and Rising.                   *)
(***************************************************************************)
LEMMA NothingInEmpty == In(<<>>) = {} /\ Rising(<<>>)
BY DEF In, Rising, ToSet

LEMMA JoinParts ==
  ASSUME NEW s \in Seq(Event), NEW t \in Seq(Event)
  PROVE  /\ s \o t \in Seq(Event)
         /\ In(s \o t) = In(s) \cup In(t)
         /\ Rising(s) /\ Rising(t) /\ Before(In(s), In(t)) => Rising(s \o t)
<1>1. /\ s \o t \in Seq(Event) /\ DOMAIN (s \o t) = 1 .. Len(s) + Len(t)
      /\ DOMAIN s = 1 .. Len(s) /\ DOMAIN t = 1 .. Len(t)
      /\ Len(s) \in Nat /\ Len(t) \in Nat
  OBVIOUS
<1>2. /\ \A i \in DOMAIN s : (s \o t)[i] = s[i]
      /\ \A i \in DOMAIN t : (s \o t)[Len(s) + i] = t[i]
  OBVIOUS
<1>3. \A i \in DOMAIN (s \o t) : i \in DOMAIN s \/ \E k \in DOMAIN t : i = Len(s) + k
  <2>1. ASSUME NEW i \in DOMAIN (s \o t), i \notin DOMAIN s
        PROVE  i - Len(s) \in DOMAIN t /\ i = Len(s) + (i - Len(s))
    BY <1>1, <2>1
  <2> QED BY <2>1
<1>4. In(s \o t) = In(s) \cup In(t)
  <2>1. ToSet(s \o t) \subseteq ToSet(s) \cup ToSet(t)
    BY <1>2, <1>3 DEF ToSet
  <2>2. ToSet(s) \subseteq ToSet(s \o t)
    BY <1>1, <1>2 DEF ToSet
  <2>3. \A i \in DOMAIN t : Len(s) + i \in DOMAIN (s \o t)
    BY <1>1
  <2>4. ToSet(t) \subseteq ToSet(s \o t)
    BY <1>2, <2>3 DEF ToSet
  <2> QED BY <2>1, <2>2, <2>4 DEF In
<1>5. ASSUME Rising(s), Rising(t), Before(In(s), In(t)) PROVE Rising(s \o t)
  <2> SUFFICES ASSUME NEW i \in DOMAIN (s \o t), NEW j \in DOMAIN (s \o t), i < j,
                      (s \o t)[i] \in Matching, (s \o t)[j] \in Matching
               PROVE  (s \o t)[i] < (s \o t)[j]
    BY DEF Rising
  <2>1. CASE i \in DOMAIN s /\ j \in DOMAIN s
    BY <1>2, <1>5, <2>1 DEF Rising
  <2>2. CASE i \notin DOMAIN s /\ j \notin DOMAIN s
    <3>1. PICK k \in DOMAIN t : i = Len(s) + k
      BY <1>3, <2>2
    <3>2. PICK l \in DOMAIN t : j = Len(s) + l
      BY <1>3, <2>2
    <3>3. k < l
      BY <1>1, <3>1, <3>2
    <3> QED BY <1>2, <1>5, <3>1, <3>2, <3>3 DEF Rising
  <2>3. CASE i \in DOMAIN s /\ j \notin DOMAIN s
    <3>1. (s \o t)[i] \in In(s)
      BY <1>2, <2>3 DEF In, ToSet
    <3>2. (s \o t)[j] \in In(t)
      BY <1>2, <1>3, <2>3 DEF In, ToSet
    <3> QED BY <1>5, <3>1, <3>2 DEF Before
  <2>4. ~(i \notin DOMAIN s /\ j \in DOMAIN s)
    BY <1>1
  <2> QED BY <2>1, <2>2, <2>3, <2>4
<1> QED BY <1>1, <1>4, <1>5

LEMMA AddLast ==
  ASSUME NEW s \in Seq(Event), NEW x \in Event
  PROVE  /\ In(Append(s, x)) = In(s) \cup ({x} \cap Matching)
         /\ Rising(s) /\ Before(In(s), {x} \cap Matching) => Rising(Append(s, x))
<1>1. <<x>> \in Seq(Event) /\ Append(s, x) = s \o <<x>>
  OBVIOUS
<1>2. In(<<x>>) = {x} \cap Matching
  BY DEF In, ToSet
<1>3. Rising(<<x>>)
  BY DEF Rising
<1> QED BY <1>1, <1>2, <1>3, JoinParts

LEMMA TakeFirst ==
  ASSUME NEW s \in Seq(Event), s # <<>>
  PROVE  /\ In(s) = ({Head(s)} \cap Matching) \cup In(Tail(s))
         /\ Rising(s) => Rising(Tail(s)) /\ Before({Head(s)} \cap Matching, In(Tail(s)))
<1>1. /\ Head(s) = s[1] /\ 1 \in DOMAIN s /\ DOMAIN s = 1 .. Len(s)
      /\ DOMAIN Tail(s) = 1 .. Len(s) - 1 /\ Len(s) \in Nat
      /\ \A i \in DOMAIN Tail(s) : i + 1 \in DOMAIN s /\ Tail(s)[i] = s[i + 1]
  OBVIOUS
<1>2. \A i \in DOMAIN s : i = 1 \/ \E k \in DOMAIN Tail(s) : i = k + 1
  <2>1. ASSUME NEW i \in DOMAIN s, i # 1
        PROVE  i - 1 \in DOMAIN Tail(s) /\ i = (i - 1) + 1
    BY <1>1, <2>1
  <2> QED BY <2>1
<1>3. ToSet(s) = {Head(s)} \cup ToSet(Tail(s))
  BY <1>1, <1>2 DEF ToSet
<1>4. ASSUME Rising(s) PROVE Rising(Tail(s))
  <2> SUFFICES ASSUME NEW i \in DOMAIN Tail(s), NEW j \in DOMAIN Tail(s), i < j,
                      Tail(s)[i] \in Matching, Tail(s)[j] \in Matching
               PROVE  Tail(s)[i] < Tail(s)[j]
    BY DEF Rising
  <2>1. i + 1 < j + 1
    BY <1>1
  <2> QED BY <1>1, <1>4, <2>1 DEF Rising
<1>5. ASSUME Rising(s) PROVE Before({Head(s)} \cap Matching, In(Tail(s)))
  <2> SUFFICES ASSUME Head(s) \in Matching, NEW j \in DOMAIN Tail(s), Tail(s)[j] \in Matching
               PROVE  Head(s) < Tail(s)[j]
    BY DEF Before, In, ToSet
  <2>1. 1 < j + 1
    BY <1>1
  <2> QED BY <1>1, <1>5, <2>1 DEF Rising
<1> QED BY <1>3, <1>4, <1>5 DEF In
-----------------------------------------------------------------------------
(***************************************************************************)
(* The inductive invariant: where a change can be, and in which order.     *)
(***************************************************************************)
(* The labels at which the directory thread may have changes to enqueue, and at which
   its read may be under way. *)
Enqueuing == {"batch", "lock", "emplace", "signal", "unlock", "exit"}
Reading == {"spawn", "wait", "clearLock", "clear", "exit"}

Places ==
  /\ In(todo["handler"]) = {}
  /\ pc["dir"] \notin Enqueuing => In(todo["dir"]) = {}
  /\ pc["dir"] \notin Reading => io = "none"
  /\ io # "records" => records = <<>>
  /\ io = "pending" \/ overflowed => kernel = <<>>

(* Each part is in order, and before the parts behind it. *)
PartsRise ==
  /\ Rising(delivered) /\ Rising(queue) /\ Rising(todo["dir"])
  /\ Rising(records) /\ Rising(kernel)

PartsFollow ==
  LET D == In(delivered)  Q == In(queue)  T == In(todo["dir"])
      R == In(records)  K == In(kernel)
  IN  /\ Before(D, Q \cup T \cup R \cup K)
      /\ Before(Q, T \cup R \cup K)
      /\ Before(T, R \cup K)
      /\ Before(R, K)

(* Together they are what has happened and is not given up. *)
PartsComplete ==
  /\ In(delivered) \cup In(queue) \cup In(todo["dir"]) \cup In(records) \cup In(kernel)
       = (Matching \cap 1 .. happened) \ missed
  /\ missed \cap Matching \subseteq 1 .. happened

OInv == Places /\ PartsRise /\ PartsFollow /\ PartsComplete

LEMMA OInvImplies ==
  ASSUME TypeOK, OInv
  PROVE  NothingLostOrReordered
<1>1. /\ delivered \in Seq(Event) /\ queue \in Seq(Event) /\ todo["dir"] \in Seq(Event)
      /\ records \in Seq(Event) /\ kernel \in Seq(Event)
  BY NumbersAreEvents DEF TypeOK, Thread
<1> DEFINE p2 == delivered \o queue
           p3 == p2 \o todo["dir"]
           p4 == p3 \o records
<1>2. p2 \in Seq(Event) /\ In(p2) = In(delivered) \cup In(queue) /\ Rising(p2)
  BY <1>1, JoinParts DEF OInv, PartsRise, PartsFollow, Before
<1> HIDE DEF p2
<1>3. p3 \in Seq(Event) /\ In(p3) = In(p2) \cup In(todo["dir"]) /\ Rising(p3)
  <2>1. Before(In(p2), In(todo["dir"]))
    BY <1>2 DEF OInv, PartsFollow, Before
  <2> QED BY <1>1, <1>2, <2>1, JoinParts DEF OInv, PartsRise
<1> HIDE DEF p3
<1>4. p4 \in Seq(Event) /\ In(p4) = In(p3) \cup In(records) /\ Rising(p4)
  <2>1. Before(In(p3), In(records))
    BY <1>2, <1>3 DEF OInv, PartsFollow, Before
  <2> QED BY <1>1, <1>3, <2>1, JoinParts DEF OInv, PartsRise
<1> HIDE DEF p4
<1>5. In(p4 \o kernel) = In(p4) \cup In(kernel) /\ Rising(p4 \o kernel)
  <2>1. Before(In(p4), In(kernel))
    BY <1>2, <1>3, <1>4 DEF OInv, PartsFollow, Before
  <2> QED BY <1>1, <1>4, <2>1, JoinParts DEF OInv, PartsRise
<1>6. Pipeline = p4 \o kernel
  BY DEF Pipeline, p2, p3, p4
<1> QED BY <1>2, <1>3, <1>4, <1>5, <1>6 DEF NothingLostOrReordered, OInv, PartsComplete, In

(* A step that moves no change. *)
LEMMA NothingMoves ==
  ASSUME OInv, Places', UNCHANGED <<delivered, queue, todo, records, kernel, happened, missed>>
  PROVE  OInv'
BY DEF OInv, PartsRise, PartsFollow, PartsComplete
-----------------------------------------------------------------------------
(***************************************************************************)
(* The steps on the queue.                                                 *)
(***************************************************************************)
LEMMA EmplaceOrder ==
  ASSUME TypeOK, OInv, NEW t \in Thread, NEW at, NEW signal, NEW next, Emplace(t, at, signal, next),
         t = "dir" => (at \in Enqueuing <=> signal \in Enqueuing) /\ (at \in Enqueuing <=> next \in Enqueuing)
                      /\ {at, signal, next} \cap Reading = {}
  PROVE  OInv'
<1>1. /\ todo[t] \in Seq(Event) /\ todo[t] # <<>> /\ Head(todo[t]) \in Event
      /\ Tail(todo[t]) \in Seq(Event) /\ queue \in Seq(Event)
  BY TypeOKSplit DEF TypeOK, Emplace
<1> DEFINE h == {Head(todo[t])} \cap Matching
<1>2. In(todo[t]) = h \cup In(Tail(todo[t]))
  BY <1>1, TakeFirst
<1>3. In(queue') = In(queue) \cup h /\ (Before(In(queue), h) /\ Rising(queue) => Rising(queue'))
  BY <1>1, AddLast DEF Emplace
<1>4. /\ todo'[t] = Tail(todo[t]) /\ \A u \in Thread : u # t => todo'[u] = todo[u]
      /\ pc'[t] \in {signal, next} /\ \A u \in Thread : u # t => pc'[u] = pc[u]
      /\ pc[t] = at
  BY DEF Emplace, TypeOK, Goto
<1>5. UNCHANGED <<delivered, io, records, kernel, overflowed, happened, missed>>
  BY DEF Emplace, kernelVars
<1> HIDE DEF h
<1>6. CASE t = "dir"
  <2>1. Rising(todo["dir"]) /\ Rising(queue)
    BY DEF OInv, PartsRise
  <2>2. Rising(todo'["dir"]) /\ Before(h, In(todo'["dir"]))
    BY <1>1, <1>4, <1>6, <2>1, TakeFirst DEF h
  <2>3. In(todo["dir"]) = h \cup In(todo'["dir"])
    BY <1>2, <1>4, <1>6
  <2>4. Before(In(queue), h)
    BY <2>3 DEF OInv, PartsFollow, Before
  <2>5. PartsRise'
    BY <1>3, <1>5, <2>1, <2>2, <2>4 DEF OInv, PartsRise
  <2>6. PartsFollow'
    BY <1>3, <1>5, <2>2, <2>3 DEF OInv, PartsFollow, Before
  <2>7. PartsComplete'
    BY <1>3, <1>5, <2>3 DEF OInv, PartsComplete
  <2>8. Places'
    BY <1>4, <1>5, <1>6, <2>3 DEF OInv, Places, Thread
  <2> QED BY <2>5, <2>6, <2>7, <2>8 DEF OInv
<1>7. CASE t = "handler"
  <2>1. h = {} /\ In(todo'["handler"]) = {}
    BY <1>2, <1>4, <1>7 DEF OInv, Places
  <2>2. In(queue') = In(queue) /\ Rising(queue')
    BY <1>3, <2>1 DEF OInv, PartsRise, Before
  <2>3. UNCHANGED <<todo["dir"], pc["dir"]>>
    BY <1>4, <1>7 DEF Thread
  <2> QED BY <1>5, <2>1, <2>2, <2>3
          DEF OInv, Places, PartsRise, PartsFollow, PartsComplete
<1> QED BY <1>6, <1>7 DEF Thread

LEMMA ScanOrder ==
  ASSUME TypeOK, OInv, NEW t \in Thread
  PROVE  \/ Scan(t) \/ ScanFails(t) \/ Throws(t) \/ SignalFails(t, "scanSignal", "scan")
         => OInv'
<1>1. ASSUME ScanLists(t) PROVE OInv'
  <2>1. PICK n \in 0 .. MaxFiles : todo' = [todo EXCEPT ![t] = [i \in 1 .. n |-> Synthetic]]
    BY <1>1 DEF ScanLists
  <2> DEFINE found == [i \in 1 .. n |-> Synthetic]
  <2>2. In(found) = {} /\ Rising(found)
    <3>1. ToSet(found) \subseteq {Synthetic}
      BY DEF ToSet
    <3>2. \A i \in DOMAIN found : found[i] \notin Matching
      BY MatchingAreNumbers
    <3> QED BY <3>1, <3>2, MatchingAreNumbers DEF In, Rising
  <2>3. todo'[t] = found /\ \A u \in Thread : u # t => todo'[u] = todo[u]
    BY <2>1 DEF TypeOK
  <2> HIDE DEF found
  <2>4. /\ pc[t] = "scanDir" /\ pc'[t] = "scanLock" /\ \A u \in Thread : u # t => pc'[u] = pc[u]
        /\ UNCHANGED <<delivered, queue, io, records, kernel, overflowed, happened, missed>>
    BY <1>1 DEF ScanLists, Goto, TypeOK, kernelVars
  <2>5. Places' /\ In(todo'["dir"]) = In(todo["dir"]) /\ Rising(todo'["dir"])
    BY <2>2, <2>3, <2>4 DEF OInv, Places, PartsRise, Enqueuing, Reading, Thread
  <2> QED BY <2>4, <2>5 DEF OInv, PartsRise, PartsFollow, PartsComplete
<1>2. Acquire(t, "scanLock", "scan") \/ SignalWorker(t, "scanSignal", "scan") \/ ScanEnds(t)
      \/ ScanFails(t) \/ SignalFails(t, "scanSignal", "scan") => OInv'
  <2> SUFFICES ASSUME Acquire(t, "scanLock", "scan") \/ SignalWorker(t, "scanSignal", "scan")
                      \/ ScanEnds(t) \/ ScanFails(t) \/ SignalFails(t, "scanSignal", "scan")
               PROVE  OInv'
    OBVIOUS
  <2>1. UNCHANGED <<delivered, queue, todo, io, records, kernel, overflowed, happened, missed>>
    BY DEF Acquire, SignalWorker, SignalFails, ScanEnds, Release, ScanFails, kernelVars
  <2>2. \E label \in {"scan", AfterScan(t)} : Goto(t, label)
    BY DEF Acquire, SignalWorker, SignalFails, ScanEnds, Release, ScanFails
  <2>3. pc[t] \in {"scanDir", "scanLock", "scanSignal", "scan"}
    BY DEF Acquire, SignalWorker, SignalFails, ScanEnds, Release, ScanFails
  <2>4. \/ pc'["dir"] = pc["dir"]
        \/ {pc["dir"], pc'["dir"]} \cap (Enqueuing \cup Reading) = {}
    <3>1. CASE t = "dir"
      <4>1. pc'["dir"] \in {"scan", "arm"}
        BY <2>2, <3>1 DEF Goto, AfterScan, TypeOK
      <4> QED BY <2>3, <3>1, <4>1 DEF Enqueuing, Reading
    <3>2. CASE t = "handler"
      BY <2>2, <3>2 DEF Goto, TypeOK
    <3> QED BY <3>1, <3>2 DEF Thread
  <2>5. Places'
    BY <2>1, <2>4 DEF OInv, Places
  <2> QED BY <2>1, <2>5, NothingMoves
<1>3. Emplace(t, "scan", "scanSignal", "scan") => OInv'
  BY EmplaceOrder DEF Enqueuing, Reading
<1>4. ASSUME Throws(t) PROVE OInv'
  <2>1. UNCHANGED <<delivered, queue, todo, io, records, kernel, overflowed, happened, missed>>
    BY <1>4 DEF Throws, kernelVars
  <2>2. pc'["dir"] \in {pc["dir"], "exit"}
    BY <1>4 DEF Throws, Goto, TypeOK, Thread
  <2>3. Places'
    BY <2>1, <2>2 DEF OInv, Places, Enqueuing, Reading
  <2> QED BY <2>1, <2>3, NothingMoves
<1> QED BY <1>1, <1>2, <1>3, <1>4 DEF Scan
-----------------------------------------------------------------------------
(***************************************************************************)
(* The steps of the directory thread.                                      *)
(***************************************************************************)
LEMMA DirArmOrder ==
  ASSUME TypeOK, OInv
  PROVE  DirArms \/ DirArmOverflows => OInv'
<1>1. ASSUME DirArms PROVE OInv'
  <2>1. /\ records = <<>> /\ records' = kernel /\ kernel' = <<>> /\ ~overflowed'
        /\ UNCHANGED <<delivered, queue, todo, happened, missed>>
    BY <1>1 DEF DirArms, OInv, Places, Reading
  <2>2. In(todo["dir"]) = {} /\ pc'["dir"] \in Reading
    BY <1>1 DEF DirArms, OInv, Places, Enqueuing, Reading, Goto, TypeOK, Thread
  <2>3. io' # "records" => records' = <<>>
    BY <1>1, <2>1 DEF DirArms, OInv, Places
  <2>4. Places'
    BY <2>1, <2>2, <2>3 DEF OInv, Places
  <2>5. PartsRise'
    BY <2>1, NothingInEmpty DEF OInv, PartsRise
  <2>6. In(records) = {} /\ In(kernel') = {}
    BY <2>1, NothingInEmpty
  <2>7. PartsFollow'
    BY <2>1, <2>6 DEF OInv, PartsFollow, Before
  <2>8. PartsComplete'
    BY <2>1, <2>6 DEF OInv, PartsComplete
  <2> QED BY <2>4, <2>5, <2>7, <2>8 DEF OInv
<1>2. ASSUME DirArmOverflows PROVE OInv'
  <2>1. /\ todo'["dir"] = <<Synthetic>> /\ todo'["handler"] = todo["handler"] /\ pc'["dir"] = "lock"
        /\ pc["dir"] = "arm" /\ ~overflowed'
        /\ UNCHANGED <<delivered, queue, io, records, kernel, happened, missed>>
    BY <1>2 DEF DirArmOverflows, Goto, TypeOK, Thread
  <2>2. In(<<Synthetic>>) = {} /\ Rising(<<Synthetic>>)
    BY MatchingAreNumbers DEF In, Rising, ToSet
  <2>3. In(todo["dir"]) = {}
    BY <2>1 DEF OInv, Places, Enqueuing
  <2>4. Places'
    BY <2>1 DEF OInv, Places, Enqueuing, Reading
  <2> QED BY <2>1, <2>2, <2>3, <2>4 DEF OInv, PartsRise, PartsFollow, PartsComplete
<1> QED BY <1>1, <1>2

LEMMA DirTakeOrder ==
  ASSUME TypeOK, OInv
  PROVE  DirTakesRecords \/ DirTakesEmpty \/ DirTakeFails => OInv'
<1>1. ASSUME DirTakesRecords PROVE OInv'
  <2>1. /\ todo'["dir"] = records /\ records' = <<>> /\ todo'["handler"] = todo["handler"]
        /\ pc["dir"] = "wait" /\ pc'["dir"] = "batch" /\ io = "records" /\ io' = "none"
        /\ UNCHANGED <<delivered, queue, kernel, overflowed, happened, missed>>
    BY <1>1 DEF DirTakesRecords, Goto, TypeOK, Thread
  <2>2. In(todo["dir"]) = {} /\ In(records') = {} /\ In(todo'["dir"]) = In(records)
    BY <2>1, NothingInEmpty DEF OInv, Places, Enqueuing
  <2>3. Places'
    BY <2>1 DEF OInv, Places, Enqueuing
  <2>4. PartsRise'
    BY <2>1, NothingInEmpty DEF OInv, PartsRise
  <2>5. PartsFollow'
    BY <2>1, <2>2 DEF OInv, PartsFollow, Before
  <2>6. PartsComplete'
    BY <2>1, <2>2 DEF OInv, PartsComplete
  <2> QED BY <2>3, <2>4, <2>5, <2>6 DEF OInv
<1>2. ASSUME DirTakesEmpty PROVE OInv'
  <2>1. /\ pc["dir"] = "wait" /\ pc'["dir"] = "arm" /\ io = "empty" /\ io' = "none"
        /\ UNCHANGED <<delivered, queue, todo, records, kernel, overflowed, happened, missed>>
    BY <1>2 DEF DirTakesEmpty, Goto, TypeOK, Thread
  <2>2. Places'
    BY <2>1 DEF OInv, Places, Enqueuing
  <2> QED BY <2>1, <2>2, NothingMoves
<1>3. ASSUME DirTakeFails PROVE OInv'
  <2>1. /\ pc["dir"] = "wait" /\ pc'["dir"] = "arm" /\ io \in {"records", "empty"} /\ io' = "none"
        /\ records' = <<>> /\ missed' = missed \cup ChangesIn(records)
        /\ UNCHANGED <<delivered, queue, todo, kernel, overflowed, happened>>
    BY <1>3 DEF DirTakeFails, Goto, TypeOK, Thread
  <2>2. Places'
    BY <2>1 DEF OInv, Places, Enqueuing
  <2>3. In(records') = {} /\ Rising(records') /\ ChangesIn(records) \cap Matching = In(records)
    BY <2>1, NothingInEmpty, MatchingAreNumbers DEF ChangesIn, In
  <2>4. PartsRise' /\ PartsFollow'
    BY <2>1, <2>3 DEF OInv, PartsRise, PartsFollow, Before
  <2>5. /\ In(delivered) \cap In(records) = {} /\ In(queue) \cap In(records) = {}
        /\ In(todo["dir"]) \cap In(records) = {} /\ In(kernel) \cap In(records) = {}
    <3>1. In(records) \subseteq Nat
      BY MatchingAreNumbers DEF In
    <3> QED BY <3>1 DEF OInv, PartsFollow, Before
  <2>6. PartsComplete'
    BY <2>1, <2>3, <2>5 DEF OInv, PartsComplete
  <2> QED BY <2>2, <2>4, <2>6 DEF OInv
<1> QED BY <1>1, <1>2, <1>3

LEMMA DirBatchOrder ==
  ASSUME TypeOK, OInv
  PROVE  DirFilters \/ DirBatchEnds \/ DirClears => OInv'
<1>1. ASSUME DirFilters PROVE OInv'
  <2>1. /\ pc["dir"] = "batch" /\ pc'["dir"] \in {"batch", "lock"}
        /\ UNCHANGED <<delivered, queue, io, records, kernel, overflowed, happened, missed>>
    BY <1>1 DEF DirFilters, Goto, TypeOK, Thread, kernelVars
  <2>2. In(todo'["dir"]) = In(todo["dir"]) /\ Rising(todo'["dir"]) /\ todo'["handler"] = todo["handler"]
    <3>1. CASE Head(todo["dir"]) \in Matching
      BY <1>1, <3>1 DEF DirFilters, OInv, PartsRise
    <3>2. CASE Head(todo["dir"]) \notin Matching
      <4>1. todo["dir"] \in Seq(Event) /\ todo["dir"] # <<>>
        BY <1>1 DEF DirFilters, TypeOK, Thread
      <4>2. todo'["dir"] = Tail(todo["dir"]) /\ todo'["handler"] = todo["handler"]
        BY <1>1, <3>2 DEF DirFilters, TypeOK, Thread
      <4>3. {Head(todo["dir"])} \cap Matching = {} /\ Rising(todo["dir"])
        BY <3>2 DEF OInv, PartsRise
      <4>4. In(Tail(todo["dir"])) = In(todo["dir"]) /\ Rising(Tail(todo["dir"]))
        BY <4>1, <4>3, TakeFirst
      <4> QED BY <4>2, <4>4
    <3> QED BY <3>1, <3>2
  <2>3. Places'
    BY <2>1, <2>2 DEF OInv, Places, Enqueuing, Reading
  <2> QED BY <2>1, <2>2, <2>3 DEF OInv, PartsRise, PartsFollow, PartsComplete
<1>2. ASSUME DirBatchEnds PROVE OInv'
  <2>1. /\ pc["dir"] = "batch" /\ pc'["dir"] = "arm" /\ In(todo["dir"]) = {}
        /\ UNCHANGED <<delivered, queue, todo, io, records, kernel, overflowed, happened, missed>>
    BY <1>2, NothingInEmpty DEF DirBatchEnds, Goto, TypeOK, Thread, kernelVars
  <2>2. Places'
    BY <2>1 DEF OInv, Places, Enqueuing, Reading
  <2> QED BY <2>1, <2>2, NothingMoves
<1>3. ASSUME DirClears PROVE OInv'
  <2>1. /\ pc'["dir"] = "exit" /\ queue' = <<>> /\ missed' = missed \cup ChangesIn(queue)
        /\ UNCHANGED <<delivered, todo, io, records, kernel, overflowed, happened>>
    BY <1>3 DEF DirClears, Goto, TypeOK, Thread, kernelVars
  <2>2. Places'
    BY <2>1 DEF OInv, Places, Enqueuing, Reading
  <2>3. In(queue') = {} /\ Rising(queue') /\ ChangesIn(queue) \cap Matching = In(queue)
    BY <2>1, NothingInEmpty, MatchingAreNumbers DEF ChangesIn, In
  <2>4. PartsRise' /\ PartsFollow'
    BY <2>1, <2>3 DEF OInv, PartsRise, PartsFollow, Before
  <2>5. /\ In(delivered) \cap In(queue) = {} /\ In(records) \cap In(queue) = {}
        /\ In(todo["dir"]) \cap In(queue) = {} /\ In(kernel) \cap In(queue) = {}
    <3>1. In(queue) \subseteq Nat
      BY MatchingAreNumbers DEF In
    <3> QED BY <3>1 DEF OInv, PartsFollow, Before
  <2>6. PartsComplete'
    BY <2>1, <2>3, <2>5 DEF OInv, PartsComplete
  <2> QED BY <2>2, <2>4, <2>6 DEF OInv
<1> QED BY <1>1, <1>2, <1>3

LEMMA DirOrder ==
  ASSUME TypeOK, OInv
  PROVE  DirStep \/ DirFault \/ DirOpening => OInv'
<1>1. "dir" \in Thread
  BY DEF Thread
<1> DEFINE Moves == \/ DirSignalsStarted \/ DirOpening \/ DirArmFails \/ DirSpawnFails
                    \/ DirWaitFails \/ DirSpawnsHandler \/ DirSeesStop
                    \/ Acquire("dir", "lock", "emplace") \/ SignalWorker("dir", "signal", "unlock")
                    \/ SignalFails("dir", "signal", "unlock")
                    \/ Release("dir", "unlock", "batch") \/ Acquire("dir", "clearLock", "clear")
<1>2. ASSUME Moves PROVE OInv'
  <2> USE DEF DirSignalsStarted, DirOpening, DirOpens, DirOpenFails, DirArmFails, DirSpawnFails,
              DirWaitFails, DirSpawnsHandler, DirSeesStop, Acquire, SignalWorker, SignalFails,
              Release
  <2>1. UNCHANGED <<delivered, queue, todo, io, records, kernel, overflowed, happened, missed>>
    BY <1>2 DEF kernelVars
  <2>2. \/ pc'["dir"] = "exit"
        \/ pc'["dir"] \notin Enqueuing \cup Reading /\ pc["dir"] \notin Enqueuing \cup Reading
        \/ {pc["dir"], pc'["dir"]} \subseteq Enqueuing \ Reading
        \/ {pc["dir"], pc'["dir"]} \subseteq Reading \ Enqueuing
    <3> USE DEF Goto, TypeOK, Thread, Enqueuing, Reading
    <3>1. CASE DirSignalsStarted
      BY <3>1
    <3>2. CASE DirOpening \/ DirArmFails \/ DirSpawnFails \/ DirWaitFails \/ DirSpawnsHandler
      BY <3>2
    <3>3. CASE \/ DirSeesStop
               \/ Acquire("dir", "lock", "emplace") \/ SignalWorker("dir", "signal", "unlock")
               \/ SignalFails("dir", "signal", "unlock")
               \/ Release("dir", "unlock", "batch") \/ Acquire("dir", "clearLock", "clear")
      BY <3>3
    <3> QED BY <1>2, <3>1, <3>2, <3>3
  <2>3. "exit" \in Enqueuing \cap Reading
    BY DEF Enqueuing, Reading
  <2>4. Places'
    BY <2>1, <2>2, <2>3 DEF OInv, Places
  <2> QED BY <2>1, <2>4, NothingMoves
<1>3. Emplace("dir", "emplace", "signal", "unlock") => OInv'
  BY <1>1, EmplaceOrder DEF Enqueuing, Reading
<1> QED BY <1>1, <1>2, <1>3, ScanOrder, DirArmOrder, DirTakeOrder, DirBatchOrder
        DEF DirStep, DirFault
-----------------------------------------------------------------------------
(***************************************************************************)
(* The steps of the handler thread and of what is around the monitor.      *)
(***************************************************************************)
LEMMA HandlerOrder ==
  ASSUME TypeOK, OInv
  PROVE  HandlerStep \/ HandlerFault => OInv'
<1>1. "handler" \in Thread
  BY DEF Thread
<1> DEFINE Moves == \/ HandlerCreatesTimer \/ HandlerTimerFails \/ HandlerSetsTimer
                    \/ HandlerSeesStop \/ HandlerSeesWork \/ HandlerSeesTimer \/ HandlerWaitFails
                    \/ HandlerDispatches \/ HandlerFindsEmpty \/ HandlerResets \/ HandlerResetFails
                    \/ HandlerRearms \/ HandlerReadsAll \/ Acquire("handler", "drainLock", "drain")
<1>2. ASSUME Moves PROVE OInv'
  <2> USE DEF HandlerCreatesTimer, HandlerTimerFails, HandlerSetsTimer, HandlerSeesStop,
              HandlerSeesWork, HandlerSeesTimer, HandlerWaitFails, HandlerDispatches,
              HandlerFindsEmpty, HandlerResets, HandlerResetFails, HandlerRearms,
              HandlerReadsAll, Acquire
  <2>1. UNCHANGED <<delivered, queue, todo, io, records, kernel, overflowed, happened, missed>>
    BY <1>2 DEF kernelVars
  <2>2. pc'["dir"] = pc["dir"]
    BY <1>2 DEF Goto, TypeOK, Thread
  <2>3. Places'
    BY <2>1, <2>2 DEF OInv, Places
  <2> QED BY <2>1, <2>3, NothingMoves
<1>3. ASSUME HandlerPops PROVE OInv'
  <2> DEFINE h == {Head(queue)} \cap Matching
  <2>1. /\ queue \in Seq(Event) /\ queue # <<>> /\ Head(queue) \in Event /\ delivered \in Seq(Event)
        /\ delivered' = Append(delivered, Head(queue)) /\ queue' = Tail(queue)
        /\ pc'["dir"] = pc["dir"]
        /\ UNCHANGED <<todo, io, records, kernel, overflowed, happened, missed>>
    BY <1>3 DEF HandlerPops, Goto, TypeOK, Thread, kernelVars
  <2>2. /\ In(queue) = h \cup In(queue') /\ Rising(queue') /\ Before(h, In(queue'))
    BY <2>1, TakeFirst DEF OInv, PartsRise
  <2>3. /\ In(delivered') = In(delivered) \cup h
        /\ Before(In(delivered), h) /\ Rising(delivered) => Rising(delivered')
    BY <2>1, AddLast
  <2> HIDE DEF h
  <2>4. Before(In(delivered), h)
    BY <2>2 DEF OInv, PartsFollow, Before
  <2>5. PartsRise'
    BY <2>1, <2>2, <2>3, <2>4 DEF OInv, PartsRise
  <2>6. PartsFollow'
    BY <2>1, <2>2, <2>3 DEF OInv, PartsFollow, Before
  <2>7. PartsComplete'
    BY <2>1, <2>2, <2>3 DEF OInv, PartsComplete
  <2>8. Places'
    BY <2>1 DEF OInv, Places
  <2> QED BY <2>5, <2>6, <2>7, <2>8 DEF OInv
<1> QED BY <1>1, <1>2, <1>3, ScanOrder DEF HandlerStep, HandlerFault

LEMMA ChangeOrder ==
  ASSUME TypeOK, OInv, Change
  PROVE  OInv'
<1> DEFINE new == {happened'} \cap Matching
<1>1. /\ happened \in Nat /\ happened' = happened + 1 /\ happened' \in Event
      /\ records \in Seq(Event) /\ kernel \in Seq(Event)
  <2>1. happened' \in Number
    BY LogFileMonitorAssumption DEF Change, TypeOK, Number
  <2> QED BY <2>1, LogFileMonitorAssumption, NumbersAreEvents DEF Change, TypeOK, Event
<1>2. UNCHANGED <<pc, todo, queue, delivered>>
  BY DEF Change
<1>3. /\ Before(In(delivered), new) /\ Before(In(queue), new) /\ Before(In(todo["dir"]), new)
      /\ Before(In(records), new) /\ Before(In(kernel), new)
  BY <1>1 DEF OInv, PartsComplete, Before
<1>4. /\ Matching \cap 1 .. happened' = (Matching \cap 1 .. happened) \cup new
      /\ new \cap (1 .. happened) = {}
  BY <1>1, MatchingAreNumbers
<1>5. CASE ChangeUnrecorded
  <2>1. missed' \cap Matching = (missed \cap Matching) \cup new
    BY <1>5 DEF ChangeUnrecorded
  <2>2. PartsComplete'
    BY <1>2, <1>4, <1>5, <2>1 DEF ChangeUnrecorded, OInv, PartsComplete
  <2> QED BY <1>2, <1>5, <2>2 DEF ChangeUnrecorded, OInv, Places, PartsRise, PartsFollow
<1>6. CASE ChangeCompletesRead
  <2>1. /\ io = "pending" /\ io' = "records" /\ records = <<>> /\ kernel = <<>>
        /\ records' = <<happened'>> /\ UNCHANGED <<kernel, overflowed, missed>>
    BY <1>6 DEF ChangeCompletesRead, OInv, Places
  <2>2. /\ In(records) = {} /\ In(kernel) = {} /\ In(records') = new /\ Rising(records')
    BY <2>1, NothingInEmpty DEF In, Rising, ToSet
  <2> HIDE DEF new
  <2>3. Places'
    BY <1>2, <2>1 DEF OInv, Places
  <2>4. PartsRise'
    BY <1>2, <2>1, <2>2 DEF OInv, PartsRise
  <2>5. PartsFollow'
    BY <1>2, <1>3, <2>1, <2>2 DEF OInv, PartsFollow, Before
  <2>6. PartsComplete'
    BY <1>2, <1>4, <2>1, <2>2 DEF OInv, PartsComplete
  <2> QED BY <2>3, <2>4, <2>5, <2>6 DEF OInv
<1>7. CASE ChangeBuffered
  <2>1. /\ io # "pending" /\ ~overflowed /\ kernel' = Append(kernel, happened')
        /\ UNCHANGED <<io, records, overflowed, missed>>
    BY <1>7 DEF ChangeBuffered, BufferHasRoom
  <2>2. In(kernel') = In(kernel) \cup new /\ Rising(kernel')
    BY <1>1, <1>3, <2>1, AddLast DEF OInv, PartsRise
  <2> HIDE DEF new
  <2>3. Places'
    BY <1>2, <2>1 DEF OInv, Places
  <2>4. PartsRise'
    BY <1>2, <2>1, <2>2 DEF OInv, PartsRise
  <2>5. PartsFollow'
    BY <1>2, <1>3, <2>1, <2>2 DEF OInv, PartsFollow, Before
  <2>6. PartsComplete'
    BY <1>2, <1>4, <2>1, <2>2 DEF OInv, PartsComplete
  <2> QED BY <2>3, <2>4, <2>5, <2>6 DEF OInv
<1>8. CASE ChangeOverflows
  <2>1. /\ kernel' = <<>> /\ missed' = missed \cup {happened'} \cup ToSet(kernel)
        /\ UNCHANGED <<io, records>>
    BY <1>8 DEF ChangeOverflows
  <2>2. In(kernel') = {} /\ Rising(kernel') /\ missed' \cap Matching = (missed \cap Matching) \cup new \cup In(kernel)
    BY <2>1, NothingInEmpty DEF In
  <2>3. /\ In(delivered) \cap In(kernel) = {} /\ In(queue) \cap In(kernel) = {}
        /\ In(todo["dir"]) \cap In(kernel) = {} /\ In(records) \cap In(kernel) = {}
    <3>1. In(kernel) \subseteq Nat
      BY MatchingAreNumbers DEF In
    <3> QED BY <3>1 DEF OInv, PartsFollow, Before
  <2> HIDE DEF new
  <2>4. Places'
    BY <1>2, <2>1 DEF OInv, Places
  <2>5. PartsRise' /\ PartsFollow'
    BY <1>2, <2>1, <2>2 DEF OInv, PartsRise, PartsFollow, Before
  <2>6. PartsComplete'
    BY <1>2, <1>4, <2>1, <2>2, <2>3 DEF OInv, PartsComplete
  <2> QED BY <2>4, <2>5, <2>6 DEF OInv
<1> QED BY <1>5, <1>6, <1>7, <1>8 DEF Change

(* Changes of matching files reach the handler in their order, each once, and none is
   lost but where the code gives it up. *)
THEOREM OrderCorrect == Spec => []NothingLostOrReordered
<1>1. Init => OInv
  <2>1. Init => Places
    BY NothingInEmpty DEF Init, Places, Thread
  <2>2. Init => PartsRise /\ PartsFollow
    BY NothingInEmpty DEF Init, PartsRise, PartsFollow, Before, Thread
  <2>3. Init => PartsComplete
    BY NothingInEmpty, MatchingAreNumbers DEF Init, PartsComplete, Thread
  <2> QED BY <2>1, <2>2, <2>3 DEF OInv
<1>2. TypeOK /\ OInv /\ [Next]_vars => OInv'
  <2> SUFFICES ASSUME TypeOK, OInv, [Next]_vars PROVE OInv'
    OBVIOUS
  <2>1. CASE UNCHANGED vars
    BY <2>1, NothingMoves DEF vars, OInv, Places
  <2>2. CASE OwnerStep \/ TimerFires
    <3>1. UNCHANGED <<pc, delivered, queue, todo, io, records, kernel, overflowed, happened, missed>>
      BY <2>2 DEF OwnerStep, OwnerWaits, ConstructorReturns, ConstructorThrows,
                  DestructorJoins, DestructorGivesUp, DestructorStops, DestructorFails,
                  TimerFires, kernelVars
    <3> QED BY <3>1, NothingMoves DEF OInv, Places
  <2> QED BY <2>1, <2>2, DirOrder, HandlerOrder, ChangeOrder DEF Next, OwnerStep
<1>3. TypeOK /\ OInv => NothingLostOrReordered
  BY OInvImplies
<1> QED BY <1>1, <1>2, <1>3, TypeCorrect, PTL DEF Spec

-----------------------------------------------------------------------------
(***************************************************************************)
(* DirWait.                                                                *)
(***************************************************************************)

(***************************************************************************)
(* Every variable keeps its type: in particular the timer is never set to  *)
(* more than WAIT_INTERVAL.                                                *)
(***************************************************************************)
THEOREM WaitTypeCorrect == WaitSpec => []WaitTypeOK
<1> USE DirWaitAssumption DEF Cap, Directory, None
<1>1. WaitInit => WaitTypeOK
  <2> SUFFICES ASSUME WaitInit PROVE WaitTypeOK
    OBVIOUS
  <2>1. dir \in Directory /\ parent \in BOOLEAN /\ faulty \in BOOLEAN
    BY DEF WaitInit
  <2>2. /\ due \in 0 .. Interval /\ elapsed \in 0 .. Cap /\ now \in 0 .. Cap
        /\ changes \in 0 .. MaxDirChanges
    BY DEF WaitInit
  <2> QED BY <2>1, <2>2 DEF WaitInit, WaitTypeOK
<1>2. WaitTypeOK /\ [WaitNext]_waitVars => WaitTypeOK'
  <2> SUFFICES ASSUME WaitTypeOK, [WaitNext]_waitVars PROVE WaitTypeOK'
    OBVIOUS
  <2>1. CASE OpensAtOnce
    BY <2>1 DEF WaitTypeOK, OpensAtOnce, Returns, world
  <2>2. CASE CreatesTimer \/ CreateTimerFails
    <3>1. CASE CreatesTimer
      BY <3>1 DEF WaitTypeOK, CreatesTimer, world
    <3>2. CASE CreateTimerFails
      BY <3>2 DEF WaitTypeOK, CreateTimerFails, Returns, world
    <3> QED BY <2>2, <3>1, <3>2
  <2>3. CASE Watches \/ WatchFails
    <3>1. CASE Watches
      BY <3>1 DEF WaitTypeOK, Watches, world
    <3>2. CASE WatchFails
      BY <3>2 DEF WaitTypeOK, WatchFails, Returns, world
    <3> QED BY <2>3, <3>1, <3>2
  <2>4. CASE GivesUp \/ SetTimerFails
    <3>1. CASE GivesUp
      BY <3>1 DEF WaitTypeOK, GivesUp, LeavesLoop, Returns, world
    <3>2. CASE SetTimerFails
      BY <3>2 DEF WaitTypeOK, SetTimerFails, LeavesLoop, Returns, world
    <3> QED BY <2>4, <3>1, <3>2
  <2>5. CASE SetsTimer
    <3>1. GetWaitInterval \in 0 .. Interval
      BY <2>5 DEF WaitTypeOK, SetsTimer, Expired, GetWaitInterval, AtMost
    <3> QED BY <2>5, <3>1 DEF WaitTypeOK, SetsTimer, world
  <2>6. CASE SeesStop \/ WaitFails
    <3>1. CASE SeesStop
      BY <3>1 DEF WaitTypeOK, SeesStop, Abandons, Returns, world
    <3>2. CASE WaitFails
      BY <3>2 DEF WaitTypeOK, WaitFails, Abandons, Returns, world
    <3> QED BY <2>6, <3>1, <3>2
  <2>7. CASE TimerRings \/ SeesChange
    <3>1. CASE TimerRings
      BY <3>1 DEF WaitTypeOK, TimerRings, world
    <3>2. CASE SeesChange
      BY <3>2 DEF WaitTypeOK, SeesChange, world
    <3> QED BY <2>7, <3>1, <3>2
  <2>8. CASE RetryOpens
    BY <2>8 DEF WaitTypeOK, RetryOpens, LeavesLoop, Returns, world
  <2>9. CASE RetryFails
    BY <2>9 DEF WaitTypeOK, RetryFails, AtMost, world
  <2>10. CASE MakeOrRemove \/ RestrictOrFree \/ MakeParent
    <3>1. changes' \in 0 .. MaxDirChanges
      BY <2>10 DEF WaitTypeOK, MakeOrRemove, RestrictOrFree, MakeParent, Changes
    <3>2. CASE MakeOrRemove
      BY <3>1, <3>2 DEF WaitTypeOK, MakeOrRemove, thread
    <3>3. CASE RestrictOrFree
      BY <3>1, <3>3 DEF WaitTypeOK, RestrictOrFree, thread
    <3>4. CASE MakeParent
      BY <3>1, <3>4 DEF WaitTypeOK, MakeParent, thread
    <3> QED BY <2>10, <3>2, <3>3, <3>4
  <2>11. CASE SetStop \/ Tick
    <3>1. CASE SetStop
      BY <3>1 DEF WaitTypeOK, SetStop, thread, world
    <3>2. CASE Tick
      <4>1. due' \in 0 .. Interval /\ now' \in 0 .. Cap
        BY <3>2 DEF WaitTypeOK, Tick, AtMost
      <4> QED BY <3>2, <4>1 DEF WaitTypeOK, Tick, thread, world
    <3> QED BY <2>11, <3>1, <3>2
  <2>12. CASE UNCHANGED waitVars
    BY <2>12 DEF WaitTypeOK, waitVars, thread, world
  <2> QED
    BY <2>1, <2>2, <2>3, <2>4, <2>5, <2>6, <2>7, <2>8, <2>9, <2>10, <2>11, <2>12
    DEF WaitNext, Step
<1> QED BY <1>1, <1>2, PTL DEF WaitSpec

(***************************************************************************)
(* elapsedTime against the clock, at each call.  When the loop tests its   *)
(* condition elapsedTime is not behind the clock, and it is zero or a      *)
(* whole interval at least, so that the interval of a short wait is only   *)
(* used once.                                                              *)
(***************************************************************************)
Counted ==
  /\ call \in {"open", "watch"} => elapsed = 0 /\ now = 0
  /\ call = "loop" => elapsed = 0 \/ elapsed >= Interval
  /\ wait # Forever =>
       /\ now <= wait
       /\ call = "loop" => now <= elapsed
       /\ call = "waiting" => now + due <= wait /\ now + due <= elapsed + Interval
       /\ call = "retry" => now <= elapsed + Interval

LEMMA CountCorrect == WaitSpec => []Counted
<1> USE DirWaitAssumption DEF Cap
<1>1. WaitInit => Counted
  BY DEF WaitInit, Counted
<1>2. WaitTypeOK /\ Counted /\ [WaitNext]_waitVars => Counted'
  <2> SUFFICES ASSUME WaitTypeOK, Counted, [WaitNext]_waitVars PROVE Counted'
    OBVIOUS
  <2>1. CASE OpensAtOnce \/ CreatesTimer \/ CreateTimerFails
    BY <2>1 DEF Counted, OpensAtOnce, CreatesTimer, CreateTimerFails, Returns, world
  <2>2. CASE Watches \/ WatchFails
    BY <2>2 DEF WaitTypeOK, Counted, Watches, WatchFails, Returns, world
  <2>3. CASE GivesUp \/ SetTimerFails
    BY <2>3 DEF Counted, GivesUp, SetTimerFails, LeavesLoop, Returns, world
  <2>4. CASE SetsTimer
    <3>1. wait # Forever => /\ now + GetWaitInterval <= wait
                            /\ now + GetWaitInterval <= elapsed + Interval
      BY <2>4 DEF WaitTypeOK, Counted, SetsTimer, Expired, GetWaitInterval, AtMost
    <3> QED BY <2>4, <3>1 DEF Counted, SetsTimer, world
  <2>5. CASE SeesStop \/ WaitFails
    BY <2>5 DEF Counted, SeesStop, WaitFails, Abandons, Returns, world
  <2>6. CASE TimerRings
    BY <2>6 DEF WaitTypeOK, Counted, TimerRings, world
  <2>7. CASE SeesChange
    BY <2>7 DEF WaitTypeOK, Counted, SeesChange, world
  <2>8. CASE RetryOpens
    BY <2>8 DEF Counted, RetryOpens, LeavesLoop, Returns, world
  <2>9. CASE RetryFails
    BY <2>9 DEF WaitTypeOK, Counted, RetryFails, AtMost, world
  <2>10. CASE MakeOrRemove \/ RestrictOrFree \/ MakeParent
    BY <2>10 DEF Counted, MakeOrRemove, RestrictOrFree, MakeParent, thread
  <2>11. CASE SetStop
    BY <2>11 DEF Counted, SetStop, thread
  <2>12. CASE Tick
    BY <2>12 DEF WaitTypeOK, Counted, Tick, AtMost, thread, world
  <2>13. CASE UNCHANGED waitVars
    BY <2>13 DEF Counted, waitVars, thread
  <2> QED
    BY <2>1, <2>2, <2>3, <2>4, <2>5, <2>6, <2>7, <2>8, <2>9, <2>10, <2>11, <2>12, <2>13
    DEF WaitNext, Step
<1> QED BY <1>1, <1>2, WaitTypeCorrect, PTL DEF WaitSpec

(***************************************************************************)
(* No wait lasts longer than waitInSeconds, whatever notifications come    *)
(* between the timers.                                                     *)
(***************************************************************************)
THEOREM WaitCorrect == WaitSpec => []WaitIsBounded
<1>1. Counted => WaitIsBounded
  BY DEF Counted, WaitIsBounded
<1> QED BY <1>1, CountCorrect, PTL

(***************************************************************************)
(* From the failed retry on, a directory that has appeared has signalled   *)
(* the notification.                                                       *)
(***************************************************************************)
Watched ==
  /\ call \in {"loop", "waiting", "retry"} => watching
  /\ call = "loop" /\ elapsed > 0 /\ outcome = "missing" /\ dir # "missing" => notified
  /\ CreationWakesWait

(***************************************************************************)
(* A directory created at any moment after a retry has failed wakes the    *)
(* thread: FindNextChangeNotification comes before CreateFile.             *)
(***************************************************************************)
THEOREM WakeupCorrect == WaitSpec => []CreationWakesWait
<1>1. WaitInit => Watched
  BY DEF WaitInit, Watched, CreationWakesWait
<1>2. Counted /\ Watched /\ [WaitNext]_waitVars => Watched'
  <2> SUFFICES ASSUME Counted, Watched, [WaitNext]_waitVars PROVE Watched'
    OBVIOUS
  <2> USE DEF Watched, CreationWakesWait
  <2>1. CASE OpensAtOnce \/ CreatesTimer \/ CreateTimerFails
    BY <2>1 DEF OpensAtOnce, CreatesTimer, CreateTimerFails, Returns
  <2>2. CASE Watches \/ WatchFails
    BY <2>2 DEF Counted, Watches, WatchFails, Returns
  <2>3. CASE GivesUp \/ SetTimerFails \/ RetryOpens
    BY <2>3 DEF GivesUp, SetTimerFails, RetryOpens, LeavesLoop, Returns
  <2>4. CASE SetsTimer
    BY <2>4 DEF SetsTimer, IsFileErrorStatus, world
  <2>5. CASE SeesStop \/ WaitFails
    BY <2>5 DEF SeesStop, WaitFails, Abandons, Returns
  <2>6. CASE TimerRings \/ SeesChange
    BY <2>6 DEF TimerRings, SeesChange
  <2>7. CASE RetryFails
    BY <2>7 DEF RetryFails, world
  <2>8. CASE MakeOrRemove \/ RestrictOrFree
    BY <2>8 DEF MakeOrRemove, RestrictOrFree, thread
  <2>9. CASE MakeParent \/ SetStop \/ Tick
    BY <2>9 DEF MakeParent, SetStop, Tick, thread, world
  <2>10. CASE UNCHANGED waitVars
    BY <2>10 DEF waitVars, thread, world
  <2> QED
    BY <2>1, <2>2, <2>3, <2>4, <2>5, <2>6, <2>7, <2>8, <2>9, <2>10 DEF WaitNext, Step
<1>3. Watched => CreationWakesWait
  BY DEF Watched
<1> QED BY <1>1, <1>2, <1>3, CountCorrect, PTL DEF WaitSpec
=============================================================================
