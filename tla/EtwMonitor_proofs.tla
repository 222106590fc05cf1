-------------------------- MODULE EtwMonitor_proofs --------------------------
(***************************************************************************)
(* Proofs about EtwMonitor, for any number of processes, providers and     *)
(* events, and all habits: where the destructor and the thread are when    *)
(* the session is stopped, the order of the events, the types, and the     *)
(* providers of the session.                                               *)
(***************************************************************************)
EXTENDS EtwMonitor, Selections_proofs, TLAPS

Starting == {"resize", "start", "stop", "restart"}
Unopened == Starting \cup {"enable", "open"}
Late == {"enable", "open", "process", "trace", "record", "write"}
InSignal == {"signal", "exit", "second exit"}
Idle == {None, "ended", "terminated"}

(***************************************************************************)
(* The types that the destructor depends on.                               *)
(***************************************************************************)
IsSession(s) == s.owner \in Processes /\ s = [owner |-> s.owner, on |-> s.on, kept |-> s.kept]

Shape ==
  /\ main \in [Processes -> MainCalls \cup {None}]
  /\ thread \in [Processes -> ThreadCalls \cup {None}]
  /\ signal \in [Processes -> Raised \cup {None}]
  /\ handle \in [Processes -> Handles \cup {None}]
  /\ missed \in [Processes -> SUBSET {"session", "trace"}]
  /\ shared \in [Processes -> BOOLEAN] /\ stalled \in [Processes -> BOOLEAN]
  /\ session # None => IsSession(session)

(***************************************************************************)
(* Once the destructor has looked for the session, and the thread had      *)
(* begun to start it, the session is not this process's any more.          *)
(***************************************************************************)
EndSafe(p) ==
  main[p] \in {"close", "flag", "join", "gone", "stuck"} /\ "session" \notin missed[p]
    => thread[p] \notin Starting /\ (~Faulty => Owner # p)

InThread(p) == thread[p] \in InSignal => signal[p] = "thread"

HandleNew(p) == main[p] = None \/ thread[p] \in Unopened => handle[p] = None

TraceClosed(p) ==
  main[p] \in {"flag", "join"} /\ handle[p] # "closed" => "trace" \in missed[p]

DeadIdle(p) == ~Alive(p) => thread[p] \in Idle

Alone(p) ==
  Alive(p) /\ ~shared[p] =>
    /\ \A q \in Processes : q # p => ~Alive(q)
    /\ thread[p] \in Late => Owner \in {None, p}

Place(p) == EndSafe(p) /\ InThread(p) /\ HandleNew(p) /\ TraceClosed(p) /\ DeadIdle(p) /\ Alone(p)

JInv == Shape /\ \A p \in Processes : Place(p)

LEMMA NoneIsNoProcess == \A p \in Processes : p # None
  BY EtwMonitorAssumption

LEMMA NoneIsNoLabel == None \notin MainCalls /\ None \notin ThreadCalls /\ None \notin Raised \cup Handles
  BY EtwMonitorAssumption

(***************************************************************************)
(* What a step of the monitor thread may change.                           *)
(***************************************************************************)
SessionKept ==
  \/ session' \in {session, None}
  \/ session # None /\ \E x : session' = [session EXCEPT !.on = x]
  \/ session # None /\ \E x : session' = [session EXCEPT !.kept = x]

LEMMA OwnerKept ==
  ASSUME Shape, SessionKept
  PROVE  (session' # None => IsSession(session')) /\ Owner' \in {Owner, None}
<1>1. session # None => IsSession(session)
  BY DEF Shape
<1>2. CASE session' \in {session, None}
  BY <1>1, <1>2 DEF Owner
<1>3. CASE session # None /\ \E x : session' = [session EXCEPT !.on = x]
  BY <1>1, <1>3 DEF Owner, IsSession
<1>4. CASE session # None /\ \E x : session' = [session EXCEPT !.kept = x]
  BY <1>1, <1>4 DEF Owner, IsSession
<1> QED BY <1>2, <1>3, <1>4 DEF SessionKept

LEMMA OwnerNew ==
  ASSUME NEW p \in Processes, session' = NewSession(p)
  PROVE  (session' # None => IsSession(session')) /\ Owner' \in {None, p}
BY DEF Owner, NewSession, IsSession

ThreadGoes(p, c) ==
  /\ thread[p] \in Starting \cup Late /\ thread' = [thread EXCEPT ![p] = c]
  /\ c \in Starting => thread[p] \in Starting
  /\ c \in Unopened => thread[p] \in Unopened
  /\ IF thread[p] \in Starting /\ c \in Late THEN session' = NewSession(p) ELSE SessionKept
  /\ IF thread[p] = "open" /\ c = "process"
     THEN handle' = [handle EXCEPT ![p] = "consumer"] ELSE handle' = handle
  /\ UNCHANGED <<main, signal, missed, shared, stalled, habits>>

LEMMA ThreadShape ==
  ASSUME NEW p \in Processes, Shape, Thread(p)
  PROVE  \E c \in Starting \cup Late \cup {"ended"} : ThreadGoes(p, c)
<1> USE DEF Goes, Starting, Late, Unopened, object, work, world, SessionKept
<1>1. CASE Resizes(p) \/ StartTrace(p) \/ StartFindsSession(p) \/ StopTrace(p)
  BY <1>1 DEF Resizes, StartTrace, StartFindsSession, StopTrace, ThreadGoes
<1>2. CASE StartFails(p) \/ ProcessTraceFails(p) \/ ProcessTraceReturns(p)
  BY <1>2 DEF StartFails, ProcessTraceFails, ProcessTraceReturns, ThreadGoes
<1>3. CASE Enables(p)
  BY <1>3 DEF Shape, Enables, ThreadGoes
<1>4. CASE OpenTrace(p) \/ TakesBuffer(p) \/ AcquiresLock(p) \/ WritesEvent(p)
  BY <1>4 DEF OpenTrace, TakesBuffer, AcquiresLock, WritesEvent, ThreadGoes
<1>5. CASE ProcessTrace(p)
  BY <1>5 DEF ProcessTrace, ThreadGoes
<1>6. CASE SkipsEvent(p)
  BY <1>6 DEF Shape, SkipsEvent, ThreadGoes
<1>7. CASE BufferEventCallback(p)
  BY <1>7 DEF BufferEventCallback, ThreadGoes
<1> QED BY <1>1, <1>2, <1>3, <1>4, <1>5, <1>6, <1>7 DEF Thread

\* A step of a living process keeps the invariant for every other process.
LEMMA OthersKeep ==
  ASSUME JInv, NEW p \in Processes, Alive(p), UNCHANGED Faulty, Owner' \in {Owner, None, p},
         \A q \in Processes : q # p =>
           UNCHANGED <<main[q], thread[q], signal[q], handle[q], missed[q], shared[q]>>
  PROVE  \A q \in Processes : q # p => Place(q)'
<1> SUFFICES ASSUME NEW q \in Processes, q # p PROVE Place(q)'
  OBVIOUS
<1>1. UNCHANGED <<main[q], thread[q], signal[q], handle[q], missed[q], shared[q]>>
  OBVIOUS
<1>2. Place(q)
  BY DEF JInv
<1>3. Owner' = q => Owner = q
  BY NoneIsNoProcess
<1>4. Alive(q) => shared[q]
  BY <1>2 DEF Place, Alone
<1>5. UNCHANGED Alive(q)
  BY <1>1 DEF Alive, Over
<1> QED BY <1>1, <1>2, <1>3, <1>4, <1>5
        DEF Place, EndSafe, InThread, HandleNew, TraceClosed, DeadIdle, Alone

LEMMA ThreadKeeps ==
  ASSUME JInv, NEW p \in Processes, Thread(p)
  PROVE  JInv'
<1>0. PICK c \in Starting \cup Late \cup {"ended"} : ThreadGoes(p, c)
  BY ThreadShape DEF JInv
<1>1. ThreadGoes(p, c)!:
  BY <1>0 DEF ThreadGoes
<1>2. /\ session' # None => IsSession(session')
      /\ Owner' \in {Owner, None, p}
      /\ ~(thread[p] \in Starting /\ c \in Late) => Owner' \in {Owner, None}
      /\ thread[p] \in Starting /\ c \in Late => Owner' \in {None, p}
  BY <1>1, OwnerKept, OwnerNew DEF JInv
<1>3. Shape'
  BY <1>1, <1>2 DEF JInv, Shape, Starting, Late, ThreadCalls, Handles
<1>4. Alive(p)
  BY <1>1, NoneIsNoLabel DEF JInv, Place, DeadIdle, Idle, Starting, Late, ThreadCalls
<1>5. \A q \in Processes : q # p => Place(q)'
  <2>1. \A q \in Processes : q # p =>
          UNCHANGED <<main[q], thread[q], signal[q], handle[q], missed[q], shared[q]>>
    BY <1>1 DEF JInv, Shape
  <2> QED BY <1>1, <1>2, <1>4, <2>1, OthersKeep DEF Faulty
<1>6. Place(p)'
  <2>1. /\ thread'[p] = c /\ thread[p] \in Starting \cup Late
        /\ UNCHANGED <<main[p], signal[p], missed[p], shared[p], Faulty>>
    BY <1>1 DEF JInv, Shape, Faulty
  <2>2. Place(p)
    BY DEF JInv
  <2>3. EndSafe(p)'
    BY <1>1, <1>2, <2>1, <2>2, NoneIsNoProcess DEF Place, EndSafe
  <2>4. InThread(p)'
    BY <1>1, <2>1 DEF InThread, InSignal, Starting, Late
  <2>5. TraceClosed(p)'
    <3>1. CASE thread[p] = "open" /\ c = "process"
      BY <1>1, <2>1, <2>2, <3>1, NoneIsNoLabel
      DEF Place, HandleNew, TraceClosed, Unopened, Handles, JInv, Shape
    <3>2. CASE ~(thread[p] = "open" /\ c = "process")
      BY <1>1, <2>1, <2>2, <3>2 DEF Place, TraceClosed
    <3> QED BY <3>1, <3>2
  <2>6. Alive(p)'
    BY <1>1, <1>4 DEF Alive, Over
  <2>7. Alone(p)'
    <3>1. \A q \in Processes : Alive(q)' = Alive(q)
      BY <1>1 DEF Alive, Over
    <3> QED BY <1>1, <1>2, <1>4, <2>1, <2>2, <3>1 DEF Place, Alone
  <2>8. HandleNew(p)'
    BY <1>1, <1>4, <2>1, <2>2 DEF Place, HandleNew, Unopened, Starting, Alive
  <2> QED BY <2>3, <2>4, <2>5, <2>6, <2>7, <2>8 DEF Place, DeadIdle
<1> QED BY <1>3, <1>5, <1>6 DEF JInv

\* The end of a process.
LEMMA EndsKeeps ==
  ASSUME JInv, NEW p \in Processes, Alive(p),
         NEW how \in {"gone", "killed"}, NEW left \in {"ended", "terminated"},
         Ends(p, how, left), UNCHANGED <<session, missed>>, how = "gone" => main[p] = "join"
  PROVE  JInv'
<1>1. /\ main' = [main EXCEPT ![p] = how] /\ thread' = [thread EXCEPT ![p] = left]
      /\ signal' = [signal EXCEPT ![p] = None] /\ handle' = [handle EXCEPT ![p] = None]
      /\ stalled' = [stalled EXCEPT ![p] = FALSE]
      /\ UNCHANGED <<session, missed, shared, habits>>
  BY DEF Ends, Calls, Goes
<1>2. Shape'
  BY <1>1 DEF JInv, Shape, MainCalls, ThreadCalls
<1>3. \A q \in Processes : q # p => Place(q)'
  <2>1. \A q \in Processes : q # p =>
          UNCHANGED <<main[q], thread[q], signal[q], handle[q], missed[q], shared[q]>>
    BY <1>1 DEF JInv, Shape
  <2>2. Owner' = Owner /\ Faulty' = Faulty
    BY <1>1 DEF Owner, Faulty
  <2> QED BY <2>1, <2>2, OthersKeep
<1>4. Place(p)'
  <2>1. /\ main'[p] = how /\ thread'[p] = left /\ handle'[p] = None
        /\ UNCHANGED <<missed[p], Owner, Faulty>>
    BY <1>1 DEF JInv, Shape, Owner, Faulty
  <2>2. EndSafe(p)'
    BY <2>1 DEF JInv, Place, EndSafe, Starting
  <2>3. ~Alive(p)'
    BY <2>1 DEF Alive, Over
  <2> QED BY <2>1, <2>2, <2>3
          DEF Place, InThread, HandleNew, TraceClosed, DeadIdle, Alone, InSignal, Idle
<1> QED BY <1>2, <1>3, <1>4 DEF JInv

\* The steps of exit, and those that lead to it.
LEMMA ExitKeeps ==
  ASSUME JInv, NEW p \in Processes,
         \/ HandlesSignal(p) \/ StopsSession(p) \/ StopFails(p) \/ ClosesTrace(p) \/ SetsFlag(p)
         \/ TerminatesItself(p) \/ MainReturns(p) \/ SignalInMain(p) \/ SignalInThread(p)
  PROVE  JInv'
<1> USE DEF Calls, Goes, object, work, world
<1>1. Place(p)
  BY DEF JInv
<1>2. Alive(p) /\ Alive(p)'
  <2>1. main \in [Processes -> MainCalls \cup {None}] /\ None \notin MainCalls \cup ThreadCalls
    BY NoneIsNoLabel DEF JInv, Shape
  <2>2. thread[p] \in {"signal", "record"} => Alive(p)
    BY <1>1, <2>1 DEF Place, DeadIdle, Idle, ThreadCalls
  <2>3. CASE HandlesSignal(p)
    BY <2>1, <2>2, <2>3 DEF HandlesSignal, Alive, Over, MainCalls
  <2>4. CASE StopsSession(p) \/ StopFails(p) \/ ClosesTrace(p) \/ SetsFlag(p)
    BY <2>1, <2>4 DEF StopsSession, StopFails, ClosesTrace, SetsFlag, Alive, Over, MainCalls
  <2>5. CASE TerminatesItself(p) \/ MainReturns(p) \/ SignalInMain(p)
    BY <2>1, <2>5 DEF TerminatesItself, MainReturns, SignalInMain, Alive, Over, MainCalls
  <2>6. CASE SignalInThread(p)
    BY <2>1, <2>2, <2>6 DEF SignalInThread, Alive, Over
  <2> QED BY <2>3, <2>4, <2>5, <2>6
<1>3. Shape'
  <2>1. CASE HandlesSignal(p)
    BY <2>1 DEF HandlesSignal, JInv, Shape, MainCalls, ThreadCalls
  <2>2. CASE StopsSession(p)
    BY <2>2 DEF StopsSession, MissesSession, JInv, Shape, MainCalls
  <2>3. CASE StopFails(p)
    BY <2>3 DEF StopFails, MissesSession, JInv, Shape, MainCalls
  <2>4. CASE ClosesTrace(p)
    BY <2>4 DEF ClosesTrace, JInv, Shape, MainCalls, Handles
  <2>5. CASE SetsFlag(p) \/ MainReturns(p) \/ TerminatesItself(p)
    BY <2>5 DEF SetsFlag, MainReturns, TerminatesItself, JInv, Shape, MainCalls, ThreadCalls
  <2>6. CASE SignalInMain(p) \/ SignalInThread(p)
    BY <2>6 DEF SignalInMain, SignalInThread, JInv, Shape, MainCalls, ThreadCalls, Raised
  <2> QED BY <2>1, <2>2, <2>3, <2>4, <2>5, <2>6
<1>4. UNCHANGED <<Faulty, shared>> /\ Owner' \in {Owner, None}
  <2>1. UNCHANGED shared /\ session' \in {session, None}
    <3>1. CASE HandlesSignal(p) \/ TerminatesItself(p) \/ SignalInMain(p) \/ SignalInThread(p)
      BY <3>1 DEF HandlesSignal, TerminatesItself, SignalInMain, SignalInThread
    <3>2. CASE StopsSession(p) \/ StopFails(p)
      BY <3>2 DEF StopsSession, StopFails
    <3>3. CASE ClosesTrace(p) \/ SetsFlag(p) \/ MainReturns(p)
      BY <3>3 DEF ClosesTrace, SetsFlag, MainReturns
    <3> QED BY <3>1, <3>2, <3>3
  <2>2. Owner' \in {Owner, None}
    BY <2>1 DEF Owner
  <2>3. UNCHANGED Faulty
    <3>1. CASE HandlesSignal(p) \/ TerminatesItself(p) \/ SignalInMain(p) \/ SignalInThread(p)
      BY <3>1 DEF HandlesSignal, TerminatesItself, SignalInMain, SignalInThread, Faulty
    <3>2. CASE StopsSession(p) \/ StopFails(p)
      BY <3>2 DEF StopsSession, StopFails, Faulty
    <3>3. CASE ClosesTrace(p) \/ SetsFlag(p) \/ MainReturns(p)
      BY <3>3 DEF ClosesTrace, SetsFlag, MainReturns, Faulty
    <3> QED BY <3>1, <3>2, <3>3
  <2> QED BY <2>1, <2>2, <2>3
<1>5. \A q \in Processes : q # p =>
        UNCHANGED <<main[q], thread[q], signal[q], handle[q], missed[q], shared[q]>>
  <2> SUFFICES ASSUME NEW q \in Processes, q # p
               PROVE  UNCHANGED <<main[q], thread[q], signal[q], handle[q], missed[q], shared[q]>>
    OBVIOUS
  <2>1. CASE HandlesSignal(p) \/ TerminatesItself(p) \/ SignalInMain(p) \/ SignalInThread(p)
    BY <2>1 DEF HandlesSignal, TerminatesItself, SignalInMain, SignalInThread, JInv, Shape
  <2>2. CASE StopsSession(p) \/ StopFails(p)
    BY <2>2 DEF StopsSession, StopFails, JInv, Shape, MissesSession
  <2>3. CASE ClosesTrace(p) \/ SetsFlag(p) \/ MainReturns(p)
    BY <2>3 DEF ClosesTrace, SetsFlag, MainReturns, JInv, Shape
  <2> QED BY <2>1, <2>2, <2>3
<1>6. \A q \in Processes : q # p => Place(q)'
  BY <1>2, <1>4, <1>5, OthersKeep
<1>7. EndSafe(p)'
  <2>1. CASE HandlesSignal(p) \/ MainReturns(p) \/ SignalInMain(p) \/ SignalInThread(p)
    BY <1>1, <1>3, <2>1
    DEF HandlesSignal, MainReturns, SignalInMain, SignalInThread, JInv, Shape, Place, EndSafe,
        Starting, Owner, Faulty
  <2>2. CASE StopsSession(p) \/ StopFails(p)
    BY <1>3, <2>2, NoneIsNoProcess
    DEF StopsSession, StopFails, MissesSession, JInv, Shape, EndSafe, Starting, Owner, Faulty
  <2>3. CASE ClosesTrace(p) \/ SetsFlag(p) \/ TerminatesItself(p)
    <3>1. CASE ClosesTrace(p)
      BY <1>1, <1>3, <3>1 DEF ClosesTrace, JInv, Shape, Place, EndSafe, Starting, Owner, Faulty
    <3>2. CASE SetsFlag(p)
      BY <1>1, <1>3, <3>2 DEF SetsFlag, JInv, Shape, Place, EndSafe, Starting, Owner, Faulty
    <3>3. CASE TerminatesItself(p)
      BY <1>1, <1>3, <3>3 DEF TerminatesItself, JInv, Shape, Place, EndSafe, Starting, Owner, Faulty
    <3> QED BY <2>3, <3>1, <3>2, <3>3
  <2> QED BY <2>1, <2>2, <2>3
<1>8. InThread(p)'
  BY <1>1, NoneIsNoLabel
  DEF HandlesSignal, StopsSession, StopFails, ClosesTrace, SetsFlag, TerminatesItself,
      MainReturns, SignalInMain, SignalInThread, JInv, Shape, Place, InThread, InSignal, Raised
<1>9. HandleNew(p)'
  BY <1>1, <1>2, NoneIsNoLabel
  DEF HandlesSignal, StopsSession, StopFails, ClosesTrace, SetsFlag, TerminatesItself,
      MainReturns, SignalInMain, SignalInThread, JInv, Shape, Place, HandleNew, Alive,
      Unopened, Starting, Handles
<1>10. TraceClosed(p)'
  <2>1. CASE ClosesTrace(p)
    BY <2>1 DEF ClosesTrace, JInv, Shape, TraceClosed, Handles
  <2>2. CASE SetsFlag(p)
    BY <1>1, <2>2 DEF SetsFlag, JInv, Shape, Place, TraceClosed
  <2>3. CASE \/ HandlesSignal(p) \/ StopsSession(p) \/ StopFails(p) \/ TerminatesItself(p)
             \/ MainReturns(p) \/ SignalInMain(p)
    BY <1>1, <2>3
    DEF HandlesSignal, StopsSession, StopFails, TerminatesItself, MainReturns, SignalInMain,
        JInv, Shape, Place, TraceClosed
  <2>4. CASE SignalInThread(p)
    BY <1>1, <2>4 DEF SignalInThread, Place, TraceClosed
  <2> QED BY <2>1, <2>2, <2>3, <2>4
<1>11. Alone(p)'
  <2>1. \A q \in Processes : q # p => UNCHANGED Alive(q)
    BY <1>5 DEF Alive, Over
  <2>2. shared'[p] = shared[p] /\ (thread'[p] \in Late => thread[p] \in Late)
    BY <1>4
    DEF HandlesSignal, StopsSession, StopFails, ClosesTrace, SetsFlag, TerminatesItself,
        MainReturns, SignalInMain, SignalInThread, JInv, Shape, Late
  <2> QED BY <1>1, <1>2, <1>4, <2>1, <2>2 DEF Place, Alone
<1> QED BY <1>2, <1>3, <1>6, <1>7, <1>8, <1>9, <1>10, <1>11 DEF JInv, Place, DeadIdle

LEMMA ConstructKeeps ==
  ASSUME JInv, NEW p \in Processes, Construct(p)
  PROVE  JInv'
<1>1. /\ main[p] = None /\ UNCHANGED <<session, signal, handle, missed, stalled, habits>>
      /\ \/ /\ main' = [main EXCEPT ![p] = "up"] /\ thread' = [thread EXCEPT ![p] = "resize"]
         \/ main' = [main EXCEPT ![p] = "off"] /\ thread' = thread
      /\ shared' = [q \in Processes |->
           shared[q] \/ (Alive(q) /\ q # p) \/ (q = p /\ \E r \in Processes : Alive(r))]
  BY DEF Construct, world
<1>2. Place(p) /\ ~Alive(p) /\ thread[p] \in Idle /\ handle[p] = None
  BY <1>1 DEF JInv, Place, DeadIdle, HandleNew, Alive
<1>3. Shape'
  <2>1. shared' \in [Processes -> BOOLEAN]
    BY <1>1 DEF JInv, Shape
  <2> QED BY <1>1, <2>1 DEF JInv, Shape, MainCalls, ThreadCalls
<1>4. ASSUME NEW q \in Processes, q # p PROVE Place(q)'
  <2>1. /\ UNCHANGED <<main[q], thread[q], signal[q], handle[q], missed[q], Owner, Faulty>>
        /\ UNCHANGED Alive(q)
    BY <1>1, <1>4 DEF JInv, Shape, Owner, Faulty, Alive, Over
  <2>2. Alive(q) => shared'[q]
    BY <1>1, <1>4
  <2>3. Place(q)
    BY DEF JInv
  <2> QED BY <2>1, <2>2, <2>3
          DEF Place, EndSafe, InThread, HandleNew, TraceClosed, DeadIdle, Alone
<1>5. Place(p)'
  <2>1. /\ main'[p] \in {"up", "off"} /\ handle'[p] = None
        /\ thread'[p] = "resize" \/ thread'[p] \in Idle
        /\ main'[p] = "off" => thread'[p] \in Idle
    BY <1>1, <1>2 DEF JInv, Shape
  <2>2. thread'[p] \notin Late /\ thread'[p] \notin InSignal
    BY <2>1, NoneIsNoLabel DEF Idle, Late, InSignal, ThreadCalls
  <2>3. \A q \in Processes : q # p /\ Alive(q)' => shared'[p]
    <3>1. \A q \in Processes : q # p => Alive(q)' = Alive(q)
      BY <1>1 DEF JInv, Shape, Alive, Over
    <3> QED BY <1>1, <3>1
  <2>4. EndSafe(p)' /\ InThread(p)' /\ TraceClosed(p)' /\ HandleNew(p)'
    BY <2>1, <2>2 DEF EndSafe, InThread, TraceClosed, HandleNew
  <2>5. DeadIdle(p)'
    BY <2>1, NoneIsNoLabel DEF DeadIdle, Alive, Over, MainCalls
  <2>6. Alone(p)'
    BY <2>2, <2>3 DEF Alone
  <2> QED BY <2>4, <2>5, <2>6 DEF Place
<1> QED BY <1>3, <1>4, <1>5 DEF JInv

\* Steps after which the processes are as before.
LEMMA WorldKeeps ==
  ASSUME JInv, UNCHANGED <<main, thread, signal, handle, missed, shared, habits>>,
         stalled' \in [Processes -> BOOLEAN], SessionKept
  PROVE  JInv'
<1>1. (session' # None => IsSession(session')) /\ Owner' \in {Owner, None}
  BY OwnerKept DEF JInv
<1>2. Shape'
  BY <1>1 DEF JInv, Shape
<1>3. ASSUME NEW q \in Processes PROVE Place(q)'
  <2>1. Place(q) /\ UNCHANGED Faulty /\ \A r \in Processes : Alive(r)' = Alive(r)
    BY DEF JInv, Faulty, Alive, Over
  <2> QED BY <1>1, <2>1, NoneIsNoProcess
          DEF Place, EndSafe, InThread, HandleNew, TraceClosed, DeadIdle, Alone
<1> QED BY <1>2, <1>3 DEF JInv

LEMMA JStep == JInv /\ [Next]_vars => JInv'
<1> SUFFICES ASSUME JInv, [Next]_vars PROVE JInv'
  OBVIOUS
<1>1. ASSUME NEW p \in Processes, Exit(p) \/ Killed(p) PROVE JInv'
  <2>1. CASE \/ HandlesSignal(p) \/ StopsSession(p) \/ StopFails(p)
             \/ ClosesTrace(p) \/ SetsFlag(p) \/ TerminatesItself(p)
    BY <2>1, ExitKeeps
  <2>2. CASE Joins(p) \/ Terminates(p)
    <3>1. Alive(p) /\ main[p] = "join"
      BY <2>2, NoneIsNoLabel DEF Joins, Terminates, Alive, Over, MainCalls
    <3> QED BY <2>2, <3>1, EndsKeeps DEF Joins, Terminates
  <2>3. CASE StopCrashes(p)
    <3>1. Alive(p)
      BY <2>3, NoneIsNoLabel DEF StopCrashes, Alive, Over, MainCalls
    <3> QED BY <2>3, <3>1, EndsKeeps DEF StopCrashes
  <2>4. CASE Killed(p)
    BY <2>4, EndsKeeps DEF Killed
  <2> QED BY <1>1, <2>1, <2>2, <2>3, <2>4 DEF Exit
<1>2. ASSUME NEW p \in Processes, Stalls(p) \/ Resumes(p) PROVE JInv'
  BY <1>2, WorldKeeps DEF Stalls, Resumes, object, SessionKept, JInv, Shape
<1>3. ASSUME NEW guid \in Guids, NEW kind \in Kinds, Occurs(guid, kind) PROVE JInv'
  <2>1. SessionKept
    BY <1>3 DEF Occurs, SessionKept
  <2> QED BY <1>3, <2>1, WorldKeeps DEF Occurs, object, JInv, Shape
<1>4. CASE UNCHANGED vars
  BY <1>4, WorldKeeps DEF vars, world, object, SessionKept, JInv, Shape
<1> QED BY <1>1, <1>2, <1>3, <1>4, ConstructKeeps, ThreadKeeps, ExitKeeps DEF Next

LEMMA JInvHolds == Spec => []JInv
<1>1. Init => JInv
  <2> SUFFICES ASSUME Init PROVE JInv
    OBVIOUS
  <2>1. Shape
    BY DEF Init, Shape
  <2>2. ASSUME NEW p \in Processes PROVE Place(p)
    <3>1. main[p] = None /\ thread[p] = None /\ handle[p] = None /\ ~Alive(p)
      BY DEF Init, Alive
    <3> QED BY <3>1, NoneIsNoLabel
            DEF Place, EndSafe, InThread, HandleNew, TraceClosed, DeadIdle, Alone, Idle,
                InSignal, MainCalls, ThreadCalls
  <2> QED BY <2>1, <2>2 DEF JInv
<1> QED BY <1>1, JStep, PTL DEF Spec

(***************************************************************************)
(* A process that ends with its destructor leaves no session of its own,   *)
(* whatever the other processes do with sessions of the same name.         *)
(***************************************************************************)
THEOREM SessionStopped == Spec => []NoSessionLeft
<1>1. JInv => NoSessionLeft
  BY DEF JInv, Place, EndSafe, NoSessionLeft
<1> QED BY <1>1, JInvHolds, PTL

(***************************************************************************)
(* The thread of the monitor is killed only in the four cases named.       *)
(***************************************************************************)
THEOREM ThreadJoined == Spec => JoinedNotKilled
<1>1. JInv /\ [Next]_vars =>
        [\A p \in Processes :
           thread[p] # "terminated" /\ thread'[p] = "terminated"
             => \/ stalled[p] \/ signal[p] = "thread" \/ "session" \in missed[p]
                \/ "trace" \in missed[p] /\ (Faulty \/ shared[p])]_vars
  <2> SUFFICES ASSUME JInv, Next, NEW p \in Processes,
                      thread[p] # "terminated", thread'[p] = "terminated"
               PROVE  \/ stalled[p] \/ signal[p] = "thread" \/ "session" \in missed[p]
                      \/ "trace" \in missed[p] /\ (Faulty \/ shared[p])
    OBVIOUS
  <2>1. Terminates(p) \/ TerminatesItself(p)
    <3>1. ASSUME NEW q \in Processes,
                 \/ \E c \in ThreadCalls \ {"terminated"} : thread' = [thread EXCEPT ![q] = c]
                 \/ q # p /\ \E c \in ThreadCalls : thread' = [thread EXCEPT ![q] = c]
                 \/ thread' = thread
          PROVE  FALSE
      <4>1. thread \in [Processes -> ThreadCalls \cup {None}]
        BY DEF JInv, Shape
      <4>2. CASE \E c \in ThreadCalls \ {"terminated"} : thread' = [thread EXCEPT ![q] = c]
        <5>1. PICK c \in ThreadCalls \ {"terminated"} : thread' = [thread EXCEPT ![q] = c]
          BY <4>2
        <5>2. thread'[p] = c \/ thread'[p] = thread[p]
          BY <4>1, <5>1
        <5> QED BY <5>1, <5>2
      <4>3. CASE q # p /\ \E c \in ThreadCalls : thread' = [thread EXCEPT ![q] = c]
        BY <4>1, <4>3
      <4> QED BY <3>1, <4>2, <4>3
    <3>2. ASSUME NEW q \in Processes, Thread(q) PROVE FALSE
      <4>1. PICK c \in Starting \cup Late \cup {"ended"} : ThreadGoes(q, c)
        BY <3>2, ThreadShape DEF JInv
      <4>2. c \in ThreadCalls \ {"terminated"}
        BY <4>1 DEF Starting, Late, ThreadCalls
      <4>3. thread' = [thread EXCEPT ![q] = c]
        BY <4>1 DEF ThreadGoes
      <4> QED BY <3>1, <4>2, <4>3
    <3>3. ASSUME NEW q \in Processes, Construct(q) \/ Stalls(q) \/ Resumes(q) PROVE FALSE
      BY <3>1, <3>3 DEF Construct, Stalls, Resumes, ThreadCalls
    <3>4. ASSUME NEW q \in Processes,
                 \/ HandlesSignal(q) \/ StopsSession(q) \/ StopFails(q) \/ ClosesTrace(q)
                 \/ SetsFlag(q) \/ MainReturns(q) \/ SignalInMain(q) \/ SignalInThread(q)
          PROVE  FALSE
      BY <3>1, <3>4
      DEF HandlesSignal, StopsSession, StopFails, ClosesTrace, SetsFlag,
          MainReturns, SignalInMain, SignalInThread, Goes, ThreadCalls
    <3>5. ASSUME NEW q \in Processes, StopCrashes(q) \/ Joins(q) \/ Killed(q) PROVE FALSE
      BY <3>1, <3>5 DEF StopCrashes, Joins, Killed, Ends, Goes, ThreadCalls
    <3>6. ASSUME NEW q \in Processes, q # p, Terminates(q) \/ TerminatesItself(q) PROVE FALSE
      BY <3>1, <3>6 DEF Terminates, TerminatesItself, Ends, Goes, ThreadCalls
    <3>7. ASSUME NEW guid \in Guids, NEW kind \in Kinds, Occurs(guid, kind) PROVE FALSE
      BY <3>7 DEF Occurs
    <3> QED BY <3>2, <3>3, <3>4, <3>5, <3>6, <3>7 DEF Next, Exit
  <2>2. CASE TerminatesItself(p)
    BY <2>2 DEF TerminatesItself, JInv, Place, InThread, InSignal
  <2>3. CASE Terminates(p)
    <3>1. CASE thread[p] \in {"write", "signal", "second exit"}
      BY <2>3, <3>1 DEF Terminates, Blocked, JInv, Place, InThread, InSignal
    <3>2. CASE thread[p] \notin {"write", "signal", "second exit"}
      <4>1. main[p] = "join" /\ thread[p] = "trace" /\ session # None /\ handle[p] # "closed"
        BY <2>3, <3>2 DEF Terminates, Blocked, Consumes
      <4>2. "trace" \in missed[p]
        BY <4>1 DEF JInv, Place, TraceClosed
      <4>3. "session" \notin missed[p] /\ ~Faulty => Owner # p
        BY <4>1 DEF JInv, Place, EndSafe
      <4>4. ~shared[p] => Owner = p
        <5>1. Alive(p) /\ Owner # None
          BY <4>1, NoneIsNoLabel, NoneIsNoProcess
          DEF Alive, Over, MainCalls, Owner, JInv, Shape, IsSession
        <5> QED BY <4>1, <5>1 DEF JInv, Place, Alone, Late
      <4> QED BY <4>2, <4>3, <4>4
    <3> QED BY <3>1, <3>2
  <2> QED BY <2>1, <2>2, <2>3
<1> QED BY <1>1, JInvHolds, PTL DEF Spec, JoinedNotKilled

-----------------------------------------------------------------------------
(***************************************************************************)
(* The order of events.  What a process has printed, the buffer it works   *)
(* on and what is on its way to it rise by the numbers of the events, one  *)
(* after the other, and no number is beyond m.                             *)
(***************************************************************************)
Record == [n : Nat, guid : Guids \cup {Header}, kind : {"plain", "wpp"}]

Rising(s) == \A i, j \in 1 .. Len(s) : i < j => s[i].n < s[j].n
Below(s, t) == \A i \in 1 .. Len(s), j \in 1 .. Len(t) : s[i].n < t[j].n
NoneAbove(s, m) == \A i \in 1 .. Len(s) : s[i].n <= m

Ordered(a, b, c, m) ==
  /\ Rising(a) /\ Rising(b) /\ Rising(c)
  /\ Below(a, b) /\ Below(a, c) /\ Below(b, c)
  /\ NoneAbove(a, m) /\ NoneAbove(b, m) /\ NoneAbove(c, m)

LEMMA TailElements ==
  ASSUME NEW S, NEW s \in Seq(S), s # <<>>
  PROVE  /\ Head(s) \in S /\ Head(s) = s[1] /\ 1 \in 1 .. Len(s)
         /\ Tail(s) \in Seq(S) /\ Len(Tail(s)) = Len(s) - 1
         /\ \A i \in 1 .. Len(Tail(s)) :
              Tail(s)[i] = s[i + 1] /\ i + 1 \in 1 .. Len(s) /\ i + 1 > 1
  OBVIOUS

LEMMA AppendElements ==
  ASSUME NEW S, NEW s \in Seq(S), NEW e \in S
  PROVE  /\ Append(s, e) \in Seq(S) /\ Len(Append(s, e)) = Len(s) + 1
         /\ \A i \in 1 .. Len(s) : Append(s, e)[i] = s[i]
         /\ Append(s, e)[Len(s) + 1] = e
  OBVIOUS

LEMMA NumberTyped ==
  ASSUME NEW s \in Seq(Record), NEW i \in 1 .. Len(s)
  PROVE  s[i].n \in Nat
<1>1. s[i] \in Record
  OBVIOUS
<1> QED BY <1>1 DEF Record

LEMMA OrderedSkip ==
  ASSUME NEW a \in Seq(Record), NEW b \in Seq(Record), NEW c \in Seq(Record), NEW m \in Nat,
         Ordered(a, b, c, m), b # <<>>
  PROVE  Ordered(a, Tail(b), c, m)
<1> DEFINE t == Tail(b)
<1>1. /\ Len(t) \in Nat /\ Len(b) \in Nat
      /\ \A i \in 1 .. Len(t) : t[i] = b[i + 1] /\ i + 1 \in 1 .. Len(b) /\ i + 1 > 1
  BY TailElements
<1> HIDE DEF t
<1>2. Rising(t)
  <2> SUFFICES ASSUME NEW i \in 1 .. Len(t), NEW j \in 1 .. Len(t), i < j
               PROVE  t[i].n < t[j].n
    BY DEF Rising
  <2>1. b[i + 1].n < b[j + 1].n
    <3>1. i + 1 \in 1 .. Len(b) /\ j + 1 \in 1 .. Len(b) /\ i + 1 < j + 1
      BY <1>1
    <3> QED BY <3>1 DEF Ordered, Rising
  <2> QED BY <1>1, <2>1
<1>3. Below(a, t)
  BY <1>1 DEF Ordered, Below
<1>4. Below(t, c)
  BY <1>1 DEF Ordered, Below
<1>5. NoneAbove(t, m)
  BY <1>1 DEF Ordered, NoneAbove
<1> QED BY <1>2, <1>3, <1>4, <1>5 DEF Ordered, t

LEMMA OrderedWrite ==
  ASSUME NEW a \in Seq(Record), NEW b \in Seq(Record), NEW c \in Seq(Record), NEW m \in Nat,
         Ordered(a, b, c, m), b # <<>>
  PROVE  Ordered(Append(a, Head(b)), Tail(b), c, m)
<1> DEFINE t == Tail(b)
           w == Append(a, Head(b))
<1>1. /\ Len(t) \in Nat /\ Len(b) \in Nat /\ 1 \in 1 .. Len(b)
      /\ \A i \in 1 .. Len(t) : t[i] = b[i + 1] /\ i + 1 \in 1 .. Len(b) /\ i + 1 > 1
  BY TailElements
<1>2. /\ Len(a) \in Nat /\ Len(w) = Len(a) + 1 /\ w[Len(a) + 1] = b[1]
      /\ \A i \in 1 .. Len(a) : w[i] = a[i]
  BY TailElements, AppendElements
<1>3. Ordered(a, t, c, m)
  BY OrderedSkip
<1> HIDE DEF t, w
<1>4. \A i \in 1 .. Len(w) : i \in 1 .. Len(a) \/ i = Len(a) + 1
  BY <1>2
<1>5. \A i \in 1 .. Len(a) : w[i].n < b[1].n
  BY <1>1, <1>2 DEF Ordered, Below
<1>6. Rising(w)
  <2> SUFFICES ASSUME NEW i \in 1 .. Len(w), NEW j \in 1 .. Len(w), i < j
               PROVE  w[i].n < w[j].n
    BY DEF Rising
  <2>1. i \in 1 .. Len(a)
    BY <1>2
  <2>2. CASE j = Len(a) + 1
    BY <1>2, <1>5, <2>1, <2>2
  <2>3. CASE j \in 1 .. Len(a)
    <3>1. a[i].n < a[j].n
      BY <2>1, <2>3 DEF Ordered, Rising
    <3> QED BY <1>2, <2>1, <2>3, <3>1
  <2> QED BY <1>4, <2>2, <2>3
<1>7. Below(w, t)
  <2> SUFFICES ASSUME NEW i \in 1 .. Len(w), NEW j \in 1 .. Len(t) PROVE w[i].n < t[j].n
    BY DEF Below
  <2>1. CASE i \in 1 .. Len(a)
    BY <1>2, <1>3, <2>1 DEF Ordered, Below
  <2>2. CASE i = Len(a) + 1
    <3>1. j + 1 \in 1 .. Len(b) /\ 1 < j + 1
      BY <1>1
    <3>2. b[1].n < b[j + 1].n
      BY <1>1, <3>1 DEF Ordered, Rising
    <3> QED BY <1>1, <1>2, <2>2, <3>2
  <2> QED BY <1>4, <2>1, <2>2
<1>8. Below(w, c)
  BY <1>1, <1>2, <1>4 DEF Ordered, Below
<1>9. NoneAbove(w, m)
  BY <1>1, <1>2, <1>4 DEF Ordered, NoneAbove
<1> QED BY <1>3, <1>6, <1>7, <1>8, <1>9 DEF Ordered, t, w

LEMMA OrderedTake ==
  ASSUME NEW a, NEW b, NEW c, NEW m, Ordered(a, b, c, m)
  PROVE  Ordered(a, c, <<>>, m)
  BY DEF Ordered, Rising, Below, NoneAbove

LEMMA OrderedArrives ==
  ASSUME NEW a \in Seq(Record), NEW b \in Seq(Record), NEW c \in Seq(Record), NEW m \in Nat,
         Ordered(a, b, c, m), NEW e \in Record, e.n = m + 1
  PROVE  Ordered(a, b, c, m + 1) /\ Ordered(a, b, Append(c, e), m + 1)
<1> DEFINE w == Append(c, e)
<1>1. /\ Len(c) \in Nat /\ Len(w) = Len(c) + 1 /\ w[Len(c) + 1] = e
      /\ \A i \in 1 .. Len(c) : w[i] = c[i]
  BY AppendElements
<1> HIDE DEF w
<1>2. \A i \in 1 .. Len(w) : i \in 1 .. Len(c) \/ i = Len(c) + 1
  BY <1>1
<1>3. /\ \A i \in 1 .. Len(a) : a[i].n \in Nat
      /\ \A i \in 1 .. Len(b) : b[i].n \in Nat
      /\ \A i \in 1 .. Len(c) : c[i].n \in Nat
  BY NumberTyped
<1>4. NoneAbove(a, m + 1) /\ NoneAbove(b, m + 1) /\ NoneAbove(c, m + 1)
  BY <1>3 DEF Ordered, NoneAbove
<1>5. NoneAbove(w, m + 1)
  BY <1>1, <1>2, <1>4 DEF NoneAbove
<1>6. Below(a, w) /\ Below(b, w)
  <2>1. ASSUME NEW s \in {a, b}, NEW i \in 1 .. Len(s), NEW j \in 1 .. Len(w)
        PROVE  s[i].n < w[j].n
    <3>1. CASE j \in 1 .. Len(c)
      BY <1>1, <2>1, <3>1 DEF Ordered, Below
    <3>2. CASE j = Len(c) + 1
      <4>1. s[i].n \in Nat /\ s[i].n <= m
        BY <1>3, <2>1 DEF Ordered, NoneAbove
      <4> QED BY <1>1, <3>2, <4>1
    <3> QED BY <1>2, <3>1, <3>2
  <2> QED BY <2>1 DEF Below
<1>7. Rising(w)
  <2> SUFFICES ASSUME NEW i \in 1 .. Len(w), NEW j \in 1 .. Len(w), i < j
               PROVE  w[i].n < w[j].n
    BY DEF Rising
  <2>1. i \in 1 .. Len(c)
    BY <1>1
  <2>2. CASE j \in 1 .. Len(c)
    BY <1>1, <2>1, <2>2 DEF Ordered, Rising
  <2>3. CASE j = Len(c) + 1
    BY <1>1, <1>3, <2>1, <2>3 DEF Ordered, NoneAbove
  <2> QED BY <1>2, <2>2, <2>3
<1> QED BY <1>4, <1>5, <1>6, <1>7 DEF Ordered, w

\* The event every trace begins with, and after it what the session has kept.
LEMMA OrderedStart ==
  ASSUME NEW k \in Seq(Record), NEW m \in Nat, Rising(k), NoneAbove(k, m),
         \A i \in 1 .. Len(k) : k[i].n > 0, NEW h \in Record, h.n = 0
  PROVE  <<h>> \o k \in Seq(Record) /\ Ordered(<<>>, <<>>, <<h>> \o k, m)
<1> DEFINE w == <<h>> \o k
<1>1. /\ w \in Seq(Record) /\ Len(k) \in Nat /\ Len(w) = Len(k) + 1 /\ w[1] = h
      /\ \A i \in 2 .. Len(w) : w[i] = k[i - 1] /\ i - 1 \in 1 .. Len(k)
  OBVIOUS
<1> HIDE DEF w
<1>2. \A i \in 1 .. Len(w) : i = 1 \/ i \in 2 .. Len(w)
  BY <1>1
<1>3. Rising(w)
  <2> SUFFICES ASSUME NEW i \in 1 .. Len(w), NEW j \in 1 .. Len(w), i < j
               PROVE  w[i].n < w[j].n
    BY DEF Rising
  <2>1. j \in 2 .. Len(w) /\ j \in Nat /\ i \in Nat
    BY <1>1
  <2>2. CASE i = 1
    BY <1>1, <2>1, <2>2
  <2>3. CASE i # 1
    <3>1. i \in 2 .. Len(w)
      BY <1>2, <2>3
    <3>2. /\ w[i] = k[i - 1] /\ i - 1 \in 1 .. Len(k)
          /\ w[j] = k[j - 1] /\ j - 1 \in 1 .. Len(k)
      BY <1>1, <2>1, <3>1
    <3>3. i - 1 < j - 1
      BY <2>1
    <3>4. k[i - 1].n < k[j - 1].n
      BY <3>2, <3>3 DEF Rising
    <3> QED BY <3>2, <3>4
  <2> QED BY <2>2, <2>3
<1>4. NoneAbove(w, m)
  <2> SUFFICES ASSUME NEW i \in 1 .. Len(w) PROVE w[i].n <= m
    BY DEF NoneAbove
  <2>1. CASE i = 1
    BY <1>1, <2>1
  <2>2. CASE i \in 2 .. Len(w)
    <3>1. w[i] = k[i - 1] /\ i - 1 \in 1 .. Len(k)
      BY <1>1, <2>2
    <3> QED BY <3>1 DEF NoneAbove
  <2> QED BY <1>2, <2>1, <2>2
<1>5. Rising(<<>>) /\ Below(<<>>, w) /\ Below(<<>>, <<>>) /\ NoneAbove(<<>>, m)
  BY DEF Rising, Below, NoneAbove
<1> QED BY <1>1, <1>3, <1>4, <1>5 DEF Ordered, w

-----------------------------------------------------------------------------
(***************************************************************************)
(* The queues of a process are in order; before it consumes a session they *)
(* are empty, and what it writes is an event of its providers.             *)
(***************************************************************************)
Untraced == Unopened \cup {"process"}

KeptOK(s) ==
  /\ s.kept \in Seq(Record) /\ Rising(s.kept) /\ NoneAbove(s.kept, events)
  /\ \A i \in 1 .. Len(s.kept) : s.kept[i].n > 0

Queues ==
  /\ events \in Nat /\ valid = [p \in Processes |-> valid[p]]
  /\ printed \in [Processes -> Seq(Record)] /\ buffer \in [Processes -> Seq(Record)]
  /\ pending \in [Processes -> Seq(Record)]
  /\ session # None => KeptOK(session)

InOrder(p) ==
  /\ Ordered(printed[p], buffer[p], pending[p], events)
  /\ main[p] = None \/ thread[p] \in Untraced =>
       printed[p] = <<>> /\ buffer[p] = <<>> /\ pending[p] = <<>>
  /\ thread[p] = "write" => buffer[p] # <<>> /\ Printable(p, Head(buffer[p]))
  /\ \A k \in 1 .. Len(printed[p]) : printed[p][k].guid \in Range(valid[p])

OInv == Queues /\ \A p \in Processes : InOrder(p)

SessionQuiet ==
  \/ session' \in {session, None}
  \/ \E p \in Processes : session' = NewSession(p)
  \/ session # None /\ \E x : session' = [session EXCEPT !.on = x]
  \/ session # None /\ session' = [session EXCEPT !.kept = <<>>]

LEMMA NothingIsOrdered ==
  ASSUME NEW m PROVE Ordered(<<>>, <<>>, <<>>, m)
  BY DEF Ordered, Rising, Below, NoneAbove

LEMMA KeptQuiet ==
  ASSUME Shape, Queues, SessionQuiet, events' = events
  PROVE  session' # None => KeptOK(session)'
<1>0. KeptOK(session)' <=> LET s == session' IN
        /\ s.kept \in Seq(Record) /\ Rising(s.kept) /\ NoneAbove(s.kept, events)
        /\ \A i \in 1 .. Len(s.kept) : s.kept[i].n > 0
  BY DEF KeptOK, Rising, NoneAbove
<1>1. session # None => IsSession(session) /\ KeptOK(session)
  BY DEF Shape, Queues
<1>2. CASE session' \in {session, None}
  BY <1>0, <1>1, <1>2 DEF KeptOK
<1>3. CASE session # None /\ \E x : session' = [session EXCEPT !.on = x]
  <2>1. session'.kept = session.kept
    BY <1>1, <1>3 DEF IsSession
  <2> QED BY <1>0, <1>1, <1>3, <2>1 DEF KeptOK
<1>4. CASE \/ \E p \in Processes : session' = NewSession(p)
           \/ session # None /\ session' = [session EXCEPT !.kept = <<>>]
  <2>1. session'.kept = <<>>
    BY <1>1, <1>4 DEF IsSession, NewSession
  <2> QED BY <1>0, <2>1 DEF Rising, NoneAbove
<1> QED BY <1>2, <1>3, <1>4 DEF SessionQuiet

\* A step that leaves the queues alone.
LEMMA QuietKeeps ==
  ASSUME Shape, OInv, UNCHANGED <<events, valid, printed, buffer, pending>>, SessionQuiet,
         \A p \in Processes :
           /\ main'[p] = None => main[p] = None
           /\ thread'[p] \in Untraced => main[p] = None \/ thread[p] \in Untraced
           /\ thread'[p] = "write" =>
                thread[p] = "write" \/ (buffer[p] # <<>> /\ Printable(p, Head(buffer[p])))
  PROVE  OInv'
<1>1. Queues'
  BY KeptQuiet DEF OInv, Queues
<1>2. ASSUME NEW p \in Processes PROVE InOrder(p)'
  <2>1. InOrder(p)
    BY DEF OInv
  <2> QED BY <2>1 DEF InOrder, Ordered, Rising, Below, NoneAbove, Printable
<1> QED BY <1>1, <1>2 DEF OInv

\* A step of one process that changes its queues.
LEMMA OneMoves ==
  ASSUME Shape, OInv, UNCHANGED events, SessionQuiet, NEW p \in Processes,
         NEW v, valid' = [valid EXCEPT ![p] = v],
         NEW a \in Seq(Record), printed' = [printed EXCEPT ![p] = a],
         NEW b \in Seq(Record), buffer' = [buffer EXCEPT ![p] = b],
         NEW c \in Seq(Record), pending' = [pending EXCEPT ![p] = c],
         \A q \in Processes : q # p => UNCHANGED <<main[q], thread[q]>>,
         Ordered(a, b, c, events),
         main'[p] = None \/ thread'[p] \in Untraced => a = <<>> /\ b = <<>> /\ c = <<>>,
         thread'[p] # "write",
         \A k \in 1 .. Len(a) : a[k].guid \in Range(v)
  PROVE  OInv'
<1>1. Queues'
  BY KeptQuiet DEF OInv, Queues
<1>2. ASSUME NEW q \in Processes, q # p PROVE InOrder(q)'
  <2>1. InOrder(q) /\ UNCHANGED <<printed[q], buffer[q], pending[q], valid[q]>>
    BY <1>2 DEF OInv, Queues
  <2>2. Ordered(printed[q], buffer[q], pending[q], events)'
    <3>1. Ordered(printed[q], buffer[q], pending[q], events) /\ UNCHANGED events
      BY <2>1 DEF InOrder
    <3>2. (Rising(printed[q]) /\ Rising(buffer[q]) /\ Rising(pending[q]))'
      BY <2>1, <3>1 DEF Ordered, Rising
    <3>3. (Below(printed[q], buffer[q]) /\ Below(printed[q], pending[q]) /\ Below(buffer[q], pending[q]))'
      BY <2>1, <3>1 DEF Ordered, Below
    <3>4. (NoneAbove(printed[q], events) /\ NoneAbove(buffer[q], events) /\ NoneAbove(pending[q], events))'
      BY <2>1, <3>1 DEF Ordered, NoneAbove
    <3> QED BY <3>2, <3>3, <3>4 DEF Ordered
  <2>3. UNCHANGED <<main[q], thread[q]>>
    BY <1>2
  <2> QED BY <2>1, <2>2, <2>3 DEF InOrder, Printable
<1>3. InOrder(p)'
  <2>1. printed'[p] = a /\ buffer'[p] = b /\ pending'[p] = c /\ valid'[p] = v
    BY DEF OInv, Queues
  <2>2. Ordered(printed[p], buffer[p], pending[p], events)'
    <3>1. (Rising(printed[p]) /\ Rising(buffer[p]) /\ Rising(pending[p]))'
      BY <2>1 DEF Ordered, Rising
    <3>2. (Below(printed[p], buffer[p]) /\ Below(printed[p], pending[p]) /\ Below(buffer[p], pending[p]))'
      BY <2>1 DEF Ordered, Below
    <3>3. (NoneAbove(printed[p], events) /\ NoneAbove(buffer[p], events) /\ NoneAbove(pending[p], events))'
      BY <2>1 DEF Ordered, NoneAbove
    <3> QED BY <3>1, <3>2, <3>3 DEF Ordered
  <2> QED BY <2>1, <2>2 DEF InOrder
<1> QED BY <1>1, <1>2, <1>3 DEF OInv

\* The monitor thread.
LEMMA ThreadOrders ==
  ASSUME JInv, OInv, NEW p \in Processes, Thread(p)
  PROVE  OInv'
<1>1. Shape /\ InOrder(p) /\ main[p] # None
  <2>1. Alive(p)
    BY ThreadShape, NoneIsNoLabel
    DEF JInv, Place, DeadIdle, Idle, Starting, Late, ThreadCalls, ThreadGoes
  <2> QED BY <2>1 DEF JInv, OInv, Alive
<1>2. \A q \in Processes : q # p => UNCHANGED <<main[q], thread[q]>>
  BY ThreadShape DEF JInv, Shape, ThreadGoes
<1>3. main'[p] # None
  BY <1>1, ThreadShape DEF ThreadGoes
<1>4. /\ events \in Nat /\ printed[p] \in Seq(Record) /\ buffer[p] \in Seq(Record)
      /\ pending[p] \in Seq(Record)
      /\ valid = [valid EXCEPT ![p] = valid[p]] /\ printed = [printed EXCEPT ![p] = printed[p]]
      /\ buffer = [buffer EXCEPT ![p] = buffer[p]] /\ pending = [pending EXCEPT ![p] = pending[p]]
  BY DEF OInv, Queues
<1>5. thread \in [Processes -> ThreadCalls \cup {None}]
  BY <1>1 DEF Shape
<1>6. CASE \/ Resizes(p) \/ StartTrace(p) \/ StartFindsSession(p) \/ StopTrace(p)
           \/ StartFails(p) \/ OpenTrace(p) \/ ProcessTraceFails(p) \/ ProcessTraceReturns(p)
           \/ BufferEventCallback(p) \/ AcquiresLock(p) \/ Enables(p)
  <2>1. UNCHANGED <<events, valid, printed, buffer, pending, main>>
    BY <1>6 DEF Resizes, StartTrace, StartFindsSession, StopTrace, StartFails, OpenTrace,
       ProcessTraceFails, ProcessTraceReturns, BufferEventCallback, AcquiresLock, Enables,
       world, object, work
  <2>2. SessionQuiet
    BY <1>6 DEF Resizes, StartTrace, StartFindsSession, StopTrace, StartFails, OpenTrace,
       ProcessTraceFails, ProcessTraceReturns, BufferEventCallback, AcquiresLock, Enables,
       SessionQuiet
  <2>3. /\ thread'[p] \in Untraced => thread[p] \in Untraced
        /\ thread'[p] = "write" => buffer[p] # <<>> /\ Printable(p, Head(buffer[p]))
    BY <1>5, <1>6 DEF Resizes, StartTrace, StartFindsSession, StopTrace, StartFails, OpenTrace,
       ProcessTraceFails, ProcessTraceReturns, BufferEventCallback, AcquiresLock, Enables,
       Goes, Untraced, Unopened, Starting
  <2>4. \A q \in Processes :
          /\ main'[q] = None => main[q] = None
          /\ thread'[q] \in Untraced => main[q] = None \/ thread[q] \in Untraced
          /\ thread'[q] = "write" =>
               thread[q] = "write" \/ (buffer[q] # <<>> /\ Printable(q, Head(buffer[q])))
    <3> TAKE q \in Processes
    <3>1. CASE q = p
      BY <2>1, <2>3, <3>1
    <3>2. CASE q # p
      <4>1. thread'[q] = thread[q] /\ main'[q] = main[q]
        BY <1>2, <3>2
      <4> QED BY <4>1
    <3> QED BY <3>1, <3>2
  <2>5. UNCHANGED <<events, valid, printed, buffer, pending>>
    BY <2>1
  <2> QED BY <1>1, <2>2, <2>4, <2>5, QuietKeeps
<1>7. CASE ProcessTrace(p)
  <2> DEFINE h == [n |-> 0, guid |-> Header, kind |-> "plain"]
             c == <<h>> \o session.kept
  <2>1. /\ thread[p] = "process" /\ session # None /\ thread'[p] = "trace"
        /\ pending' = [pending EXCEPT ![p] = c]
        /\ session' = [session EXCEPT !.kept = <<>>]
        /\ UNCHANGED <<events, valid, printed, buffer>>
    BY <1>5, <1>7 DEF ProcessTrace, Goes, world, object
  <2>2. printed[p] = <<>> /\ buffer[p] = <<>>
    BY <1>1, <2>1 DEF InOrder, Untraced
  <2>3. KeptOK(session) /\ SessionQuiet
    BY <2>1 DEF OInv, Queues, SessionQuiet
  <2>4. h \in Record /\ h.n = 0
    BY DEF Record
  <2> HIDE DEF h
  <2>5. c \in Seq(Record) /\ Ordered(<<>>, <<>>, c, events)
    BY <1>4, <2>3, <2>4, OrderedStart DEF KeptOK
  <2> HIDE DEF c
  <2>6. <<>> \in Seq(Record) /\ printed' = [printed EXCEPT ![p] = <<>>]
        /\ buffer' = [buffer EXCEPT ![p] = <<>>] /\ valid' = [valid EXCEPT ![p] = valid[p]]
    BY <1>4, <2>1, <2>2
  <2>7. /\ thread'[p] \notin Untraced /\ thread'[p] # "write" /\ UNCHANGED events
        /\ \A k \in 1 .. Len(<<>>) : <<>>[k].guid \in Range(valid[p])
    BY <2>1 DEF Untraced, Unopened, Starting
  <2> QED BY <1>1, <1>2, <1>3, <2>1, <2>3, <2>5, <2>6, <2>7, OneMoves
<1>8. CASE TakesBuffer(p)
  <2>1. /\ thread'[p] = "record" /\ buffer' = [buffer EXCEPT ![p] = pending[p]]
        /\ pending' = [pending EXCEPT ![p] = <<>>] /\ <<>> \in Seq(Record)
        /\ UNCHANGED <<events, valid, printed, session>>
    BY <1>5, <1>8 DEF TakesBuffer, Goes, world, object
  <2>2. Ordered(printed[p], pending[p], <<>>, events)
    BY <1>1, OrderedTake DEF InOrder
  <2>3. \A k \in 1 .. Len(printed[p]) : printed[p][k].guid \in Range(valid[p])
    BY <1>1 DEF InOrder
  <2> QED BY <1>1, <1>2, <1>3, <1>4, <2>1, <2>2, <2>3, OneMoves
          DEF Untraced, Unopened, Starting, SessionQuiet
<1>9. CASE SkipsEvent(p)
  <2>1. /\ thread'[p] = "record" /\ buffer[p] # <<>>
        /\ buffer' = [buffer EXCEPT ![p] = Tail(buffer[p])]
        /\ UNCHANGED <<events, valid, printed, pending, session>>
    BY <1>5, <1>9 DEF SkipsEvent, Goes, world, object
  <2>2. Ordered(printed[p], Tail(buffer[p]), pending[p], events)
    BY <1>1, <1>4, <2>1, OrderedSkip DEF InOrder
  <2>3. Tail(buffer[p]) \in Seq(Record)
    BY <1>4, <2>1
  <2>4. \A k \in 1 .. Len(printed[p]) : printed[p][k].guid \in Range(valid[p])
    BY <1>1 DEF InOrder
  <2> QED BY <1>1, <1>2, <1>3, <1>4, <2>1, <2>2, <2>3, <2>4, OneMoves
          DEF Untraced, Unopened, Starting, SessionQuiet
<1>10. CASE WritesEvent(p)
  <2> DEFINE a == Append(printed[p], Head(buffer[p]))
  <2>1. /\ thread[p] = "write" /\ thread'[p] = "record"
        /\ printed' = [printed EXCEPT ![p] = a]
        /\ buffer' = [buffer EXCEPT ![p] = Tail(buffer[p])]
        /\ UNCHANGED <<events, valid, pending, session>>
    BY <1>5, <1>10 DEF WritesEvent, Goes, world, object
  <2>2. buffer[p] # <<>> /\ Head(buffer[p]).guid \in Range(valid[p])
    BY <1>1, <2>1 DEF InOrder, Printable
  <2>3. Ordered(a, Tail(buffer[p]), pending[p], events)
    BY <1>1, <1>4, <2>2, OrderedWrite DEF InOrder
  <2>4. Tail(buffer[p]) \in Seq(Record) /\ Head(buffer[p]) \in Record
    BY <1>4, <2>2
  <2>5. a \in Seq(Record) /\ \A k \in 1 .. Len(a) : a[k].guid \in Range(valid[p])
    <3>1. \A k \in 1 .. Len(printed[p]) : printed[p][k].guid \in Range(valid[p])
      BY <1>1 DEF InOrder
    <3>2. /\ a \in Seq(Record) /\ Len(a) = Len(printed[p]) + 1
          /\ a[Len(printed[p]) + 1] = Head(buffer[p])
          /\ \A k \in 1 .. Len(printed[p]) : a[k] = printed[p][k]
      BY <1>4, <2>4, AppendElements
    <3> HIDE DEF a
    <3>3. \A k \in 1 .. Len(a) : k \in 1 .. Len(printed[p]) \/ k = Len(printed[p]) + 1
      BY <1>4, <3>2
    <3> QED BY <2>2, <3>1, <3>2, <3>3
  <2> HIDE DEF a
  <2> QED BY <1>1, <1>2, <1>3, <1>4, <2>1, <2>3, <2>4, <2>5, OneMoves
          DEF Untraced, Unopened, Starting, SessionQuiet
<1> QED BY <1>6, <1>7, <1>8, <1>9, <1>10 DEF Thread

\* The construction of a process, and its end.
LEMMA ConstructOrders ==
  ASSUME JInv, OInv, NEW p \in Processes, Construct(p)
  PROVE  OInv'
<1>1. PICK v : valid' = [valid EXCEPT ![p] = v]
  BY DEF Construct
<1>2. /\ main[p] = None /\ main'[p] # None /\ thread'[p] # "write"
      /\ \A q \in Processes : q # p => UNCHANGED <<main[q], thread[q]>>
      /\ UNCHANGED <<events, session, printed, buffer, pending>>
  <2>1. main \in [Processes -> MainCalls \cup {None}] /\ thread \in [Processes -> ThreadCalls \cup {None}]
    BY DEF JInv, Shape
  <2>2. main[p] = None => thread[p] # "write"
    BY NoneIsNoLabel DEF JInv, Place, DeadIdle, Alive, Idle, ThreadCalls
  <2> QED BY <2>1, <2>2, NoneIsNoLabel DEF Construct, world, work, MainCalls
<1>3. printed[p] = <<>> /\ buffer[p] = <<>> /\ pending[p] = <<>>
  BY <1>2 DEF OInv, InOrder
<1>4. /\ printed' = [printed EXCEPT ![p] = <<>>] /\ buffer' = [buffer EXCEPT ![p] = <<>>]
      /\ pending' = [pending EXCEPT ![p] = <<>>]
  BY <1>2, <1>3 DEF OInv, Queues
<1>5. <<>> \in Seq(Record) /\ \A k \in 1 .. Len(<<>>) : <<>>[k].guid \in Range(v)
  OBVIOUS
<1> QED BY <1>1, <1>2, <1>4, <1>5, NothingIsOrdered, OneMoves DEF SessionQuiet, JInv

LEMMA EndsOrders ==
  ASSUME Shape, OInv, NEW p \in Processes, NEW how \in {"gone", "killed"},
         NEW left \in {"ended", "terminated"}, Ends(p, how, left), UNCHANGED session
  PROVE  OInv'
<1>1. /\ main' = [main EXCEPT ![p] = how] /\ thread' = [thread EXCEPT ![p] = left]
      /\ valid' = [valid EXCEPT ![p] = <<>>] /\ printed' = [printed EXCEPT ![p] = <<>>]
      /\ buffer' = [buffer EXCEPT ![p] = <<>>] /\ pending' = [pending EXCEPT ![p] = <<>>]
      /\ UNCHANGED events
  BY DEF Ends, Calls, Goes
<1>2. /\ thread'[p] # "write"
      /\ \A q \in Processes : q # p => UNCHANGED <<main[q], thread[q]>>
  BY <1>1 DEF Shape
<1>3. /\ <<>> \in Seq(Record)
      /\ \A k \in 1 .. Len(<<>>) : <<>>[k].guid \in Range(<<>>)
  OBVIOUS
<1> QED BY <1>1, <1>2, <1>3, NothingIsOrdered, OneMoves DEF SessionQuiet

\* An event reaches the processes that consume the session, or is kept.
LEMMA OccursOrders ==
  ASSUME JInv, OInv, NEW guid \in Guids, NEW kind \in Kinds, Occurs(guid, kind)
  PROVE  OInv'
<1> DEFINE e == [n |-> events + 1, guid |-> guid, kind |-> kind]
<1>1. /\ session # None /\ events' = events + 1
      /\ pending' = [p \in Processes |->
                       IF p \in Consumers THEN Append(pending[p], e) ELSE pending[p]]
      /\ session' = IF Consumers = {} THEN [session EXCEPT !.kept = Append(@, e)] ELSE session
      /\ UNCHANGED <<valid, printed, buffer, main, thread>>
  BY DEF Occurs, object
<1>2. events \in Nat /\ KeptOK(session) /\ IsSession(session)
  BY <1>1 DEF OInv, Queues, JInv, Shape
<1>3. e \in Record /\ e.n = events + 1
  BY <1>2 DEF Record, Kinds
<1> HIDE DEF e
<1>4. session' # None => KeptOK(session)'
  <2> DEFINE k == session.kept
             w == session'.kept
  <2>1. w \in {k, Append(k, e)}
    BY <1>1, <1>2 DEF IsSession
  <2>2. /\ k \in Seq(Record) /\ Ordered(<<>>, <<>>, k, events)
        /\ \A i \in 1 .. Len(k) : k[i].n > 0
    BY <1>2 DEF KeptOK, Ordered, Rising, Below, NoneAbove
  <2>3. Ordered(<<>>, <<>>, k, events + 1) /\ Ordered(<<>>, <<>>, Append(k, e), events + 1)
    <3> HIDE DEF k, w
    <3>1. <<>> \in Seq(Record)
      OBVIOUS
    <3> QED BY <1>2, <1>3, <2>2, <3>1, OrderedArrives
  <2>4. /\ Append(k, e) \in Seq(Record) /\ Len(Append(k, e)) = Len(k) + 1
        /\ \A i \in 1 .. Len(k) : Append(k, e)[i] = k[i]
        /\ Append(k, e)[Len(k) + 1] = e
    BY <1>3, <2>2, AppendElements
  <2>5. \A i \in 1 .. Len(Append(k, e)) : Append(k, e)[i].n > 0
    <3> SUFFICES ASSUME NEW i \in 1 .. Len(Append(k, e)) PROVE Append(k, e)[i].n > 0
      OBVIOUS
    <3>1. i \in 1 .. Len(k) \/ i = Len(k) + 1
      BY <2>2, <2>4
    <3> QED BY <1>2, <1>3, <2>2, <2>4, <3>1
  <2> HIDE DEF k
  <2>6. w \in Seq(Record) /\ Rising(w) /\ NoneAbove(w, events') /\ \A i \in 1 .. Len(w) : w[i].n > 0
    BY <1>1, <2>1, <2>2, <2>3, <2>4, <2>5 DEF Ordered
  <2> QED BY <2>6 DEF KeptOK, Rising, NoneAbove
<1>5. Queues'
  <2>1. \A p \in Processes : Append(pending[p], e) \in Seq(Record)
    BY <1>3 DEF OInv, Queues
  <2> QED BY <1>1, <1>2, <1>4, <2>1 DEF OInv, Queues
<1>6. ASSUME NEW p \in Processes PROVE InOrder(p)'
  <2>1. /\ InOrder(p) /\ printed[p] \in Seq(Record) /\ buffer[p] \in Seq(Record)
        /\ pending[p] \in Seq(Record)
    BY DEF OInv, Queues
  <2>2. Ordered(printed[p], buffer[p], pending'[p], events')
    BY <1>1, <1>2, <1>3, <2>1, OrderedArrives DEF InOrder
  <2>3. main[p] = None \/ thread[p] \in Untraced => p \notin Consumers
    BY NoneIsNoLabel DEF JInv, Place, DeadIdle, Alive, Idle, ThreadCalls, Consumers,
       Untraced, Unopened, Starting
  <2>4. \/ pending'[p] = pending[p]
        \/ p \in Consumers
    BY <1>1
  <2>5. UNCHANGED <<printed[p], buffer[p], valid[p], main[p], thread[p]>>
    BY <1>1
  <2>6. Ordered(printed[p], buffer[p], pending[p], events)'
    BY <2>2, <2>5 DEF Ordered, Rising, Below, NoneAbove
  <2> QED BY <2>1, <2>3, <2>4, <2>5, <2>6 DEF InOrder, Printable
<1> QED BY <1>5, <1>6 DEF OInv

LEMMA OStep == JInv /\ OInv /\ [Next]_vars => OInv'
<1> SUFFICES ASSUME JInv, OInv, [Next]_vars PROVE OInv'
  OBVIOUS
<1>0. Shape
  BY DEF JInv
<1>1. ASSUME NEW p \in Processes,
             \/ HandlesSignal(p) \/ StopsSession(p) \/ StopFails(p)
             \/ ClosesTrace(p) \/ SetsFlag(p) \/ TerminatesItself(p)
             \/ MainReturns(p) \/ SignalInMain(p) \/ SignalInThread(p)
             \/ Stalls(p) \/ Resumes(p)
      PROVE  OInv'
  <2> USE DEF HandlesSignal, StopsSession, StopFails, ClosesTrace, SetsFlag, TerminatesItself,
              MainReturns, SignalInMain, SignalInThread, Stalls, Resumes
  <2>1. UNCHANGED <<events, valid, printed, buffer, pending>> /\ session' \in {session, None}
    BY <1>1 DEF world, object, work
  <2>2. /\ main' = main \/ \E c \in MainCalls : main' = [main EXCEPT ![p] = c]
        /\ thread' = thread
           \/ \E c \in {"signal", "exit", "second exit", "terminated"} :
                thread' = [thread EXCEPT ![p] = c]
    BY <1>1 DEF Calls, Goes, object, MainCalls
  <2> USE NoneIsNoLabel
  <2>3. \A q \in Processes :
          /\ main'[q] = None => main[q] = None
          /\ thread'[q] \in Untraced => thread[q] \in Untraced
          /\ thread'[q] = "write" => thread[q] = "write"
    BY <1>0, <2>2 DEF Shape, Untraced, Unopened, Starting
  <2> QED BY <1>0, <2>1, <2>3, QuietKeeps DEF SessionQuiet
<1>2. ASSUME NEW p \in Processes,
             Joins(p) \/ Terminates(p) \/ StopCrashes(p) \/ Killed(p)
      PROVE  OInv'
  BY <1>0, <1>2, EndsOrders DEF Joins, Terminates, StopCrashes, Killed
<1>3. CASE UNCHANGED vars
  BY <1>0, <1>3, QuietKeeps DEF vars, world, object, work, SessionQuiet
<1> QED BY <1>1, <1>2, <1>3, ThreadOrders, ConstructOrders, OccursOrders DEF Next, Exit

LEMMA OInvHolds == Spec => []OInv
<1>1. Init => OInv
  <2> SUFFICES ASSUME Init PROVE OInv
    OBVIOUS
  <2>1. Queues
    BY DEF Init, Queues
  <2>2. ASSUME NEW p \in Processes PROVE InOrder(p)
    <3>1. /\ printed[p] = <<>> /\ buffer[p] = <<>> /\ pending[p] = <<>> /\ thread[p] = None
      BY DEF Init
    <3>2. Ordered(printed[p], buffer[p], pending[p], events)
      BY <3>1, NothingIsOrdered
    <3>3. Len(printed[p]) = 0 /\ thread[p] # "write"
      BY <3>1, NoneIsNoLabel DEF ThreadCalls
    <3> QED BY <3>1, <3>2, <3>3 DEF InOrder
  <2> QED BY <2>1, <2>2 DEF OInv
<1> QED BY <1>1, OStep, JInvHolds, PTL DEF Spec

(***************************************************************************)
(* Whoever else uses the session's name, a process prints events of its    *)
(* own providers only, in their order and each once.                       *)
(***************************************************************************)
THEOREM OrderCorrect == Spec => []PrintedInOrder
<1>1. OInv => PrintedInOrder
  <2> SUFFICES ASSUME OInv, NEW p \in Processes
               PROVE  /\ \A k \in 1 .. Len(printed[p]) : printed[p][k].guid \in Range(valid[p])
                      /\ \A k \in 1 .. Len(printed[p]) - 1 : printed[p][k].n < printed[p][k + 1].n
    BY DEF PrintedInOrder
  <2>1. InOrder(p) /\ Len(printed[p]) \in Nat
    BY DEF OInv, Queues
  <2>2. ASSUME NEW k \in 1 .. Len(printed[p]) - 1
        PROVE  printed[p][k].n < printed[p][k + 1].n
    <3>1. k \in 1 .. Len(printed[p]) /\ k + 1 \in 1 .. Len(printed[p]) /\ k < k + 1
      BY <2>1
    <3> QED BY <2>1, <3>1 DEF InOrder, Ordered, Rising
  <2> QED BY <2>1, <2>2 DEF InOrder
<1> QED BY <1>1, OInvHolds, PTL
-----------------------------------------------------------------------------
(***************************************************************************)
(* The types.  What the constructor makes of the providers are GUIDs, and  *)
(* no process enables more of them than it has.                            *)
(***************************************************************************)
LEMMA FilterTyped ==
  ASSUME NEW p \in Processes, NEW enumerated
  PROVE  FilterValidProviders(Requested[p], enumerated) \in Seq(Guids)
<1> DEFINE providers == Requested[p]
           positions == {k \in 1 .. Len(providers) : providers[k].guid # None}
           withGuid == Selected(providers, positions)
           names == {Lower[r.name] : r \in {s \in Range(providers) : s.guid = None /\ s.name # None}}
           found == {n \in DOMAIN Registered : enumerated /\ Lower[n] \in names}
           byName == SetToSeq(found)
           T == {r \in Range(providers) : r.guid # None}
           a == [i \in 1 .. Len(withGuid) |-> withGuid[i].guid]
           b == [i \in 1 .. Len(byName) |-> Registered[byName[i]]]
<1>1. FilterValidProviders(Requested[p], enumerated) = a \o b
  BY DEF FilterValidProviders
<1>2. a \in Seq(Guids)
  <2>1. providers \in Seq(Range(providers))
    BY EtwMonitorAssumption
  <2>2. Len(providers) \in Nat /\ \A k \in 1 .. Len(providers) : providers[k] \in Range(providers)
    BY <2>1
  <2>3. \A k \in 1 .. Len(providers) : k \in positions => providers[k] \in T
    BY <2>2
  <2> HIDE DEF providers, positions, T
  <2>4. withGuid \in Seq(T)
    BY <2>2, <2>3, SelectedTyped
  <2>5. Len(withGuid) \in Nat /\ \A i \in 1 .. Len(withGuid) : withGuid[i] \in T
    BY <2>4
  <2>6. \A r \in T : r.guid \in Guids
    BY DEF T, Guids, providers
  <2> HIDE DEF withGuid
  <2> QED BY <2>5, <2>6
<1>3. b \in Seq(Guids)
  <2>1. IsFiniteSet(found)
    BY EtwMonitorAssumption, FS_Subset
  <2>2. \A n \in found : Registered[n] \in Guids
    BY EtwMonitorAssumption DEF Guids, Range
  <2> HIDE DEF found
  <2>3. byName \in Seq(found)
    BY <2>1, SetToSeqTyped
  <2>4. Len(byName) \in Nat /\ \A i \in 1 .. Len(byName) : byName[i] \in found
    BY <2>3
  <2> HIDE DEF byName
  <2> QED BY <2>2, <2>4
<1> HIDE DEF a, b
<1> QED BY <1>1, <1>2, <1>3

Typed ==
  /\ habits \in Habits /\ events \in 0 .. MaxEvents[habits] /\ stalls \in 0 .. MaxStalls
  /\ valid \in [Processes -> Seq(Guids)] /\ stopFlag \in [Processes -> BOOLEAN]
  /\ enabled \in [Processes -> Nat]
  /\ source \in [Processes -> Processes \cup {None}]
  /\ pending \in [Processes -> Seq(Event)] /\ buffer \in [Processes -> Seq(Event)]
  /\ printed \in [Processes -> Seq(Event)]
  /\ due \in [Processes -> SUBSET (1 .. MaxEvents[habits])]
  /\ session # None => session.on \in SUBSET Guids /\ session.kept \in Seq(Event)

Bound == MaxEvents[habits]

LEMMA BoundIs == Typed => Bound \in Nat /\ MaxStalls \in Nat
  BY EtwMonitorAssumption DEF Typed, Bound

LEMMA EventsSame == UNCHANGED habits => Event' = Event /\ Bound' = Bound /\ Kinds' = Kinds
  BY DEF Event, Bound, Kinds

\* What the session is after a step.
SessionTyped == session' # None => session'.on \in SUBSET Guids /\ session'.kept \in Seq(Event)

LEMMA SessionStays ==
  ASSUME Shape, Typed,
         \/ session' \in {session, None}
         \/ \E p \in Processes : session' = NewSession(p)
         \/ session # None /\ \E x \in SUBSET Guids : session' = [session EXCEPT !.on = x]
         \/ session # None /\ \E x \in Seq(Event) : session' = [session EXCEPT !.kept = x]
  PROVE  SessionTyped
<1>1. CASE session' \in {session, None}
  BY <1>1 DEF Typed, SessionTyped
<1>2. CASE \E p \in Processes : session' = NewSession(p)
  BY <1>2 DEF SessionTyped, NewSession
<1>3. CASE session # None /\ \E x \in SUBSET Guids : session' = [session EXCEPT !.on = x]
  <2>1. PICK x \in SUBSET Guids : session' = [session EXCEPT !.on = x]
    BY <1>3
  <2>2. IsSession(session)
    BY <1>3 DEF Shape
  <2>3. session'.on = x /\ session'.kept = session.kept
    BY <2>1, <2>2 DEF IsSession
  <2> QED BY <1>3, <2>3 DEF Typed, SessionTyped
<1>4. CASE session # None /\ \E x \in Seq(Event) : session' = [session EXCEPT !.kept = x]
  <2>1. PICK x \in Seq(Event) : session' = [session EXCEPT !.kept = x]
    BY <1>4
  <2>2. IsSession(session)
    BY <1>4 DEF Shape
  <2>3. session'.on = session.on /\ session'.kept = x
    BY <2>1, <2>2 DEF IsSession
  <2> QED BY <1>4, <2>3 DEF Typed, SessionTyped
<1> QED BY <1>1, <1>2, <1>3, <1>4

LEMMA QuietTypes ==
  ASSUME Typed, UNCHANGED <<habits, events, valid, enabled, source, pending, buffer, printed, due>>,
         stopFlag' \in [Processes -> BOOLEAN], stalls' \in 0 .. MaxStalls, SessionTyped
  PROVE  Typed'
<1>1. Event' = Event
  BY EventsSame
<1> QED BY <1>1 DEF Typed, SessionTyped

\* A step of one process that changes its queues.
LEMMA OneTypes ==
  ASSUME Typed, UNCHANGED <<habits, events, valid, enabled, stopFlag, stalls>>, SessionTyped,
         NEW p \in Processes,
         NEW a \in Seq(Event), printed' = [printed EXCEPT ![p] = a],
         NEW b \in Seq(Event), buffer' = [buffer EXCEPT ![p] = b],
         NEW c \in Seq(Event), pending' = [pending EXCEPT ![p] = c],
         NEW d \in SUBSET (1 .. Bound), due' = [due EXCEPT ![p] = d],
         NEW o \in Processes \cup {None}, source' = [source EXCEPT ![p] = o]
  PROVE  Typed'
<1>1. Event' = Event
  BY EventsSame
<1> QED BY <1>1 DEF Typed, SessionTyped, Bound

LEMMA DueTyped ==
  ASSUME Typed, NEW s \in Seq(Event), \A i \in 1 .. Len(s) : s[i].n > 0, NEW p
  PROVE  Due(p, s) \in SUBSET (1 .. Bound)
<1>1. ASSUME NEW i \in 1 .. Len(s) PROVE s[i].n \in 1 .. Bound
  <2>1. s[i] \in Event /\ s[i].n > 0
    OBVIOUS
  <2> QED BY <2>1, BoundIs DEF Event, Bound
<1> QED BY <1>1 DEF Due

LEMMA TailTyped ==
  ASSUME NEW S, NEW s \in Seq(S), s # <<>>
  PROVE  Tail(s) \in Seq(S) /\ Head(s) \in S
  BY TailElements

\* The steps of the thread that leave the queues alone.
LEMMA ThreadQuiet ==
  ASSUME Shape, Typed, NEW p \in Processes,
         \/ Resizes(p) \/ StartTrace(p) \/ StartFindsSession(p) \/ StopTrace(p) \/ StartFails(p)
         \/ OpenTrace(p) \/ ProcessTraceFails(p) \/ ProcessTraceReturns(p)
         \/ AcquiresLock(p) \/ BufferEventCallback(p)
  PROVE  /\ UNCHANGED <<habits, events, valid, enabled, source, pending, buffer, printed, due,
                        stopFlag, stalls>>
         /\ \/ session' \in {session, None}
            \/ thread[p] \in Starting /\ thread'[p] = "enable" /\ session' = NewSession(p)
         /\ thread' = [thread EXCEPT ![p] = thread'[p]]
<1> USE DEF world, object, work, Goes
<1>1. thread \in [Processes -> ThreadCalls \cup {None}]
  BY DEF Shape
<1>2. CASE Resizes(p) \/ StartTrace(p) \/ StartFindsSession(p) \/ StopTrace(p)
  BY <1>1, <1>2 DEF Resizes, StartTrace, StartFindsSession, StopTrace, Starting
<1>3. CASE StartFails(p) \/ ProcessTraceFails(p) \/ ProcessTraceReturns(p)
  BY <1>1, <1>3 DEF StartFails, ProcessTraceFails, ProcessTraceReturns
<1>4. CASE OpenTrace(p) \/ AcquiresLock(p) \/ BufferEventCallback(p)
  BY <1>1, <1>4 DEF OpenTrace, AcquiresLock, BufferEventCallback
<1> QED BY <1>2, <1>3, <1>4

\* The steps of exit that do not end the process, and those that lead to it.
LEMMA ExitQuiet ==
  ASSUME Shape, NEW p \in Processes,
         \/ HandlesSignal(p) \/ StopsSession(p) \/ StopFails(p) \/ ClosesTrace(p) \/ SetsFlag(p)
         \/ TerminatesItself(p) \/ MainReturns(p) \/ SignalInMain(p) \/ SignalInThread(p)
  PROVE  /\ UNCHANGED <<habits, events, valid, enabled, source, pending, buffer, printed, due,
                        stalls, shared>>
         /\ stopFlag' \in {stopFlag, [stopFlag EXCEPT ![p] = TRUE]}
         /\ session' \in {session, None}
         /\ thread' = [thread EXCEPT ![p] = thread'[p]]
         /\ thread'[p] \in InSignal \cup {"terminated"} \/ thread' = thread
         /\ main' = [main EXCEPT ![p] = main'[p]] /\ (main'[p] = None => main[p] = None)
<1> USE DEF world, object, work, Goes, Calls
<1>1. /\ thread \in [Processes -> ThreadCalls \cup {None}]
      /\ main \in [Processes -> MainCalls \cup {None}]
  BY DEF Shape
<1>2. CASE HandlesSignal(p)
  BY <1>1, <1>2, NoneIsNoLabel DEF HandlesSignal, MainCalls, InSignal
<1>3. CASE StopsSession(p) \/ StopFails(p) \/ ClosesTrace(p)
  BY <1>1, <1>3, NoneIsNoLabel DEF StopsSession, StopFails, ClosesTrace, MainCalls
<1>4. CASE SetsFlag(p) \/ TerminatesItself(p) \/ MainReturns(p)
  BY <1>1, <1>4, NoneIsNoLabel DEF SetsFlag, TerminatesItself, MainReturns, MainCalls
<1>5. CASE SignalInMain(p)
  BY <1>1, <1>5, NoneIsNoLabel DEF SignalInMain, MainCalls
<1>6. CASE SignalInThread(p)
  BY <1>1, <1>6 DEF SignalInThread, InSignal
<1> QED BY <1>2, <1>3, <1>4, <1>5, <1>6

(***************************************************************************)
(* How far the thread has come with its providers, and what the session of *)
(* a process that is alone has of them.                                    *)
(***************************************************************************)
Counted(p) ==
  /\ thread[p] \in Starting => enabled[p] = 0
  /\ thread[p] \in Starting \cup {"enable"} => enabled[p] < Len(valid[p])
  /\ enabled[p] <= Len(valid[p])
  /\ main[p] = None => enabled[p] = 0

Follows(p) ==
  Alive(p) /\ ~shared[p] /\ Owner = p =>
    /\ thread[p] = "enable" => session.on = {valid[p][k] : k \in 1 .. enabled[p]}
    /\ thread[p] \in Late \ {"enable"} => session.on = Range(valid[p])

FInv == \A p \in Processes : Counted(p) /\ Follows(p)

LEMMA EnablesIs ==
  ASSUME Shape, Typed, NEW p \in Processes, Counted(p), Enables(p)
  PROVE  LET g == valid[p][enabled[p] + 1] IN
         /\ thread[p] = "enable" /\ session # None /\ g \in Guids
         /\ enabled[p] + 1 \in 1 .. Len(valid[p])
         /\ session' = [session EXCEPT !.on = session.on \cup {g}]
         /\ enabled' = [enabled EXCEPT ![p] = enabled[p] + 1]
         /\ IF enabled[p] + 1 = Len(valid[p])
            THEN thread' = [thread EXCEPT ![p] = "open"] ELSE thread' = thread
         /\ UNCHANGED <<habits, events, stalls, stopFlag, valid, source, pending, buffer, printed,
                        due, main, shared>>
<1>1. thread[p] = "enable" /\ session # None /\ IsSession(session)
  BY DEF Enables, Shape
<1>2. /\ session' = [session EXCEPT !.on = session.on \cup {valid[p][enabled[p] + 1]}]
      /\ enabled' = [enabled EXCEPT ![p] = enabled[p] + 1]
      /\ UNCHANGED <<habits, events, stalls, stopFlag, valid, source, pending, buffer, printed,
                     due, main, shared>>
  BY <1>1 DEF Enables, world, object, IsSession, Typed
<1>3. enabled'[p] = enabled[p] + 1
  BY <1>2 DEF Typed
<1>4. IF enabled[p] + 1 = Len(valid[p])
      THEN thread' = [thread EXCEPT ![p] = "open"] ELSE thread' = thread
  BY <1>3 DEF Enables, Goes
<1>5. valid[p] \in Seq(Guids) /\ enabled[p] \in Nat /\ enabled[p] < Len(valid[p])
  BY <1>1 DEF Typed, Counted
<1>6. enabled[p] + 1 \in 1 .. Len(valid[p]) /\ valid[p][enabled[p] + 1] \in Guids
  BY <1>5
<1> QED BY <1>1, <1>2, <1>4, <1>6

LEMMA ThreadTypes ==
  ASSUME JInv, OInv, Typed, NEW p \in Processes, Counted(p), Thread(p)
  PROVE  Typed'
<1>0. Shape /\ InOrder(p) /\ Bound \in Nat /\ MaxStalls \in Nat
  BY BoundIs DEF JInv, OInv
<1>1. CASE \/ Resizes(p) \/ StartTrace(p) \/ StartFindsSession(p) \/ StopTrace(p)
           \/ StartFails(p) \/ OpenTrace(p) \/ ProcessTraceFails(p) \/ ProcessTraceReturns(p)
           \/ AcquiresLock(p) \/ BufferEventCallback(p)
  <2>1. SessionTyped
    BY <1>0, <1>1, ThreadQuiet, SessionStays
  <2> QED BY <1>0, <1>1, <2>1, ThreadQuiet, QuietTypes DEF Typed
<1>2. CASE Enables(p)
  <2> DEFINE x == session.on \cup {valid[p][enabled[p] + 1]}
  <2>1. /\ session # None /\ x \in SUBSET Guids /\ session' = [session EXCEPT !.on = x]
        /\ enabled' = [enabled EXCEPT ![p] = enabled[p] + 1]
        /\ UNCHANGED <<habits, events, stalls, stopFlag, valid, source, pending, buffer, printed,
                       due>>
    BY <1>0, <1>2, EnablesIs DEF Typed
  <2> HIDE DEF x
  <2>2. SessionTyped
    BY <1>0, <2>1, SessionStays
  <2>3. enabled' \in [Processes -> Nat]
    BY <2>1 DEF Typed
  <2> QED BY <2>1, <2>2, <2>3, EventsSame DEF Typed, SessionTyped
<1>3. /\ printed = [printed EXCEPT ![p] = printed[p]] /\ printed[p] \in Seq(Event)
      /\ buffer = [buffer EXCEPT ![p] = buffer[p]] /\ buffer[p] \in Seq(Event)
      /\ pending = [pending EXCEPT ![p] = pending[p]] /\ pending[p] \in Seq(Event)
      /\ due = [due EXCEPT ![p] = due[p]] /\ due[p] \in SUBSET (1 .. Bound)
      /\ source = [source EXCEPT ![p] = source[p]] /\ source[p] \in Processes \cup {None}
  BY DEF Typed, Bound
<1>4. CASE ProcessTrace(p)
  <2> DEFINE h == [n |-> 0, guid |-> Header, kind |-> "plain"]
             c == <<h>> \o session.kept
  <2>1. /\ session # None /\ session' = [session EXCEPT !.kept = <<>>]
        /\ pending' = [pending EXCEPT ![p] = c]
        /\ due' = [due EXCEPT ![p] = Due(p, session.kept)]
        /\ source' = [source EXCEPT ![p] = session.owner]
        /\ UNCHANGED <<habits, events, valid, enabled, stopFlag, stalls, printed, buffer>>
    BY <1>4 DEF ProcessTrace, world, object
  <2>2. session.owner \in Processes /\ session.kept \in Seq(Event)
    BY <1>0, <2>1 DEF Shape, IsSession, Typed
  <2>3. h \in Event
    BY <1>0 DEF Event, Kinds, Bound
  <2> HIDE DEF h
  <2>4. c \in Seq(Event)
    BY <2>2, <2>3
  <2> HIDE DEF c
  <2>5. SessionTyped
    <3>1. <<>> \in Seq(Event)
      OBVIOUS
    <3> QED BY <1>0, <2>1, <3>1, SessionStays
  <2>6. Due(p, session.kept) \in SUBSET (1 .. Bound)
    BY <2>1, <2>2, DueTyped DEF OInv, Queues, KeptOK
  <2> QED BY <1>3, <2>1, <2>2, <2>4, <2>5, <2>6, OneTypes
<1>5. CASE TakesBuffer(p)
  <2>1. /\ buffer' = [buffer EXCEPT ![p] = pending[p]]
        /\ pending' = [pending EXCEPT ![p] = <<>>] /\ <<>> \in Seq(Event)
        /\ UNCHANGED <<habits, events, valid, enabled, stopFlag, stalls, printed, due, source,
                       session>>
    BY <1>5 DEF TakesBuffer, world, object
  <2>2. SessionTyped
    BY <1>0, <2>1, SessionStays
  <2> QED BY <1>3, <2>1, <2>2, OneTypes
<1>6. CASE SkipsEvent(p)
  <2>1. /\ buffer[p] # <<>> /\ buffer' = [buffer EXCEPT ![p] = Tail(buffer[p])]
        /\ UNCHANGED <<habits, events, valid, enabled, stopFlag, stalls, printed, pending, due,
                       source, session>>
    BY <1>3, <1>6 DEF SkipsEvent, world, object, Typed
  <2>2. SessionTyped
    BY <1>0, <2>1, SessionStays
  <2>3. Tail(buffer[p]) \in Seq(Event)
    BY <1>3, <2>1, TailTyped
  <2> QED BY <1>3, <2>1, <2>2, <2>3, OneTypes
<1>7. CASE WritesEvent(p)
  <2> DEFINE a == Append(printed[p], Head(buffer[p]))
  <2>1. /\ thread[p] = "write" /\ printed' = [printed EXCEPT ![p] = a]
        /\ buffer' = [buffer EXCEPT ![p] = Tail(buffer[p])]
        /\ UNCHANGED <<habits, events, valid, enabled, stopFlag, stalls, pending, due, source,
                       session>>
    BY <1>3, <1>7 DEF WritesEvent, world, object, Typed
  <2>2. SessionTyped
    BY <1>0, <2>1, SessionStays
  <2>3. Tail(buffer[p]) \in Seq(Event) /\ Head(buffer[p]) \in Event
    BY <1>0, <1>3, <2>1, TailTyped DEF InOrder
  <2>4. a \in Seq(Event)
    BY <1>3, <2>3
  <2> HIDE DEF a
  <2> QED BY <1>3, <2>1, <2>2, <2>3, <2>4, OneTypes
<1> QED BY <1>1, <1>2, <1>4, <1>5, <1>6, <1>7 DEF Thread

LEMMA ConstructTypes ==
  ASSUME Typed, NEW p \in Processes, Construct(p)
  PROVE  Typed'
<1>1. PICK b : valid' = [valid EXCEPT ![p] = FilterValidProviders(Requested[p], b)]
  BY DEF Construct
<1>2. valid' \in [Processes -> Seq(Guids)]
  <2>1. FilterValidProviders(Requested[p], b) \in Seq(Guids)
    BY FilterTyped
  <2> QED BY <1>1, <2>1 DEF Typed
<1>3. UNCHANGED <<habits, events, session, stopFlag, enabled, source, pending, buffer, printed, due,
                  stalls>>
  BY DEF Construct, world, work
<1>4. Event' = Event
  BY <1>3, EventsSame
<1> QED BY <1>2, <1>3, <1>4 DEF Typed

LEMMA EndsTypes ==
  ASSUME Typed, NEW p \in Processes, NEW how, NEW left, Ends(p, how, left), UNCHANGED session
  PROVE  Typed'
<1>1. Event' = Event
  BY EventsSame DEF Ends
<1>2. <<>> \in Seq(Event) /\ <<>> \in Seq(Guids)
  OBVIOUS
<1> QED BY <1>1, <1>2 DEF Ends, Typed

LEMMA OccursTypes ==
  ASSUME JInv, OInv, Typed, NEW guid \in Guids, NEW kind \in Kinds, Occurs(guid, kind)
  PROVE  Typed'
<1> DEFINE e == [n |-> events + 1, guid |-> guid, kind |-> kind]
<1>1. /\ session # None /\ events' = events + 1 /\ events < MaxEvents[habits]
      /\ pending' = [p \in Processes |->
                       IF p \in Consumers THEN Append(pending[p], e) ELSE pending[p]]
      /\ due' = [p \in Processes |-> due[p] \cup IF p \in Consumers THEN Due(p, <<e>>) ELSE {}]
      /\ session' = IF Consumers = {} THEN [session EXCEPT !.kept = Append(@, e)] ELSE session
      /\ UNCHANGED <<habits, stalls, valid, stopFlag, enabled, source, buffer, printed>>
  BY DEF Occurs, object
<1>2. Bound \in Nat /\ events \in Nat /\ events + 1 \in 0 .. Bound /\ Event' = Event
  BY <1>1, BoundIs, EventsSame DEF Typed, Bound
<1>3. e \in Event /\ e.n > 0
  BY <1>2 DEF Event, Bound
<1> HIDE DEF e
<1>4. SessionTyped
  <2>1. IsSession(session) /\ session.kept \in Seq(Event)
    BY <1>1 DEF JInv, Shape, Typed
  <2>2. Append(session.kept, e) \in Seq(Event)
    BY <1>3, <2>1
  <2>3. \/ session' = session
        \/ session' = [session EXCEPT !.kept = Append(session.kept, e)]
    BY <1>1, <2>1 DEF IsSession
  <2> QED BY <1>1, <2>2, <2>3, SessionStays DEF JInv
<1>5. pending' \in [Processes -> Seq(Event)]
  BY <1>1, <1>3 DEF Typed
<1>6. due' \in [Processes -> SUBSET (1 .. Bound)]
  <2>1. <<e>> \in Seq(Event) /\ \A i \in 1 .. Len(<<e>>) : <<e>>[i].n > 0
    BY <1>3
  <2>2. \A p \in Processes : Due(p, <<e>>) \in SUBSET (1 .. Bound)
    BY <2>1, DueTyped
  <2> QED BY <1>1, <2>2 DEF Typed, Bound
<1> QED BY <1>1, <1>2, <1>4, <1>5, <1>6 DEF Typed, SessionTyped, Bound

LEMMA TypedStep ==
  ASSUME JInv, OInv, Typed, FInv, [Next]_vars
  PROVE  Typed'
<1>0. Shape /\ MaxStalls \in Nat
  BY BoundIs DEF JInv
<1>1. ASSUME NEW p \in Processes,
             \/ HandlesSignal(p) \/ StopsSession(p) \/ StopFails(p) \/ ClosesTrace(p)
             \/ SetsFlag(p) \/ TerminatesItself(p) \/ MainReturns(p) \/ SignalInMain(p)
             \/ SignalInThread(p)
      PROVE  Typed'
  <2>1. /\ UNCHANGED <<habits, events, valid, enabled, source, pending, buffer, printed, due, stalls>>
        /\ stopFlag' \in {stopFlag, [stopFlag EXCEPT ![p] = TRUE]}
        /\ session' \in {session, None}
    BY <1>0, <1>1, ExitQuiet
  <2>2. stopFlag' \in [Processes -> BOOLEAN] /\ stalls' \in 0 .. MaxStalls
    BY <2>1 DEF Typed
  <2>3. SessionTyped
    BY <1>0, <2>1, SessionStays
  <2> QED BY <2>1, <2>2, <2>3, QuietTypes
<1>2. ASSUME NEW p \in Processes, Joins(p) \/ Terminates(p) \/ StopCrashes(p) \/ Killed(p)
      PROVE  Typed'
  BY <1>2, EndsTypes DEF Joins, Terminates, StopCrashes, Killed
<1>3. ASSUME \/ UNCHANGED vars
             \/ \E p \in Processes : Stalls(p) \/ Resumes(p)
      PROVE  Typed'
  <2>1. /\ UNCHANGED <<habits, events, valid, enabled, source, pending, buffer, printed, due,
                       stopFlag, session>>
        /\ stalls' = stalls \/ (stalls < MaxStalls /\ stalls' = stalls + 1)
    BY <1>3 DEF Stalls, Resumes, vars, world, object, work
  <2>2. stopFlag' \in [Processes -> BOOLEAN] /\ stalls' \in 0 .. MaxStalls
    BY <1>0, <2>1 DEF Typed
  <2>3. SessionTyped
    BY <1>0, <2>1, SessionStays
  <2> QED BY <2>1, <2>2, <2>3, QuietTypes
<1> QED BY <1>1, <1>2, <1>3, ThreadTypes, ConstructTypes, OccursTypes DEF Next, Exit, FInv

(***************************************************************************)
(* While a process is alone and alive, no other process takes a step.      *)
(***************************************************************************)
LEMMA CountedSame ==
  ASSUME NEW q \in Processes, Counted(q), UNCHANGED <<valid[q], enabled[q]>>,
         thread'[q] \in Starting => thread[q] \in Starting,
         thread'[q] = "enable" => thread[q] \in Starting \cup {"enable"},
         main'[q] = None => main[q] = None
  PROVE  Counted(q)'
BY DEF Counted, Starting

LEMMA FollowsSame ==
  ASSUME NEW q \in Processes, Follows(q), UNCHANGED <<valid[q], enabled[q]>>,
         Alive(q)' => Alive(q), shared[q] => shared'[q], Owner' = q => Owner = q,
         Owner' = q => session'.on = session.on,
         thread'[q] \in Late => thread'[q] = thread[q]
                                \/ (thread[q] \in Late \ {"enable"} /\ thread'[q] # "enable")
  PROVE  Follows(q)'
<1> SUFFICES ASSUME Alive(q)', ~shared'[q], Owner' = q
             PROVE  /\ thread'[q] = "enable" =>
                         session'.on = {valid'[q][k] : k \in 1 .. enabled'[q]}
                    /\ thread'[q] \in Late \ {"enable"} => session'.on = Range(valid'[q])
  BY DEF Follows
<1>1. /\ thread[q] = "enable" => session.on = {valid[q][k] : k \in 1 .. enabled[q]}
      /\ thread[q] \in Late \ {"enable"} => session.on = Range(valid[q])
  BY DEF Follows
<1>2. valid'[q] = valid[q] /\ enabled'[q] = enabled[q] /\ session'.on = session.on
  OBVIOUS
<1>3. "enable" \in Late
  BY DEF Late
<1> QED BY <1>1, <1>2, <1>3

LEMMA OthersFollow ==
  ASSUME JInv, FInv, NEW p \in Processes, NEW q \in Processes, q # p, Alive(p),
         UNCHANGED <<main[q], thread[q], shared[q], valid[q], enabled[q]>>
  PROVE  Counted(q)' /\ Follows(q)'
<1>1. Counted(q)'
  BY CountedSame DEF FInv
<1>2. Alive(q)' = Alive(q)
  BY DEF Alive, Over
<1>3. Alive(q) => shared[q]
  BY DEF JInv, Place, Alone
<1>4. Follows(q)'
  BY <1>2, <1>3 DEF Follows
<1> QED BY <1>1, <1>4

LEMMA ThreadFollows ==
  ASSUME JInv, Typed, FInv, NEW p \in Processes, Thread(p)
  PROVE  FInv'
<1>0. /\ Shape /\ Counted(p) /\ Follows(p) /\ main = main' /\ shared = shared'
      /\ thread' = [thread EXCEPT ![p] = thread'[p]]
  BY ThreadShape DEF JInv, FInv, ThreadGoes, Shape
<1>1. /\ Alive(p) /\ main[p] # None
      /\ thread' \in [Processes -> ThreadCalls \cup {None}]
      /\ valid \in [Processes -> Seq(Guids)] /\ enabled \in [Processes -> Nat]
  <2>1. Alive(p) /\ main[p] # None
    BY ThreadShape, NoneIsNoLabel
    DEF JInv, Place, DeadIdle, Idle, Starting, Late, ThreadCalls, ThreadGoes, Alive
  <2>2. Shape'
    BY ThreadKeeps DEF JInv
  <2> QED BY <2>1, <2>2 DEF Shape, Typed
<1>2. valid' = valid /\ enabled' = [enabled EXCEPT ![p] = enabled'[p]]
  <2> USE DEF work, object
  <2>1. CASE Enables(p)
    BY <1>0, <1>1, <2>1, EnablesIs
  <2>2. CASE ~Enables(p)
    BY <1>1, <2>2 DEF Thread, Resizes, StartTrace, StartFindsSession, StopTrace, StartFails,
       OpenTrace, ProcessTrace, ProcessTraceFails, TakesBuffer, ProcessTraceReturns, SkipsEvent,
       AcquiresLock, WritesEvent, BufferEventCallback
  <2> QED BY <2>1, <2>2
<1>3. ASSUME NEW q \in Processes, q # p PROVE Counted(q)' /\ Follows(q)'
  BY <1>0, <1>1, <1>2, <1>3, OthersFollow
<1>4. Counted(p)' /\ Follows(p)'
  <2>1. CASE Enables(p)
    <3> DEFINE v == valid[p]
               m == enabled[p]
    <3>1. /\ thread[p] = "enable" /\ session # None /\ IsSession(session)
          /\ session' = [session EXCEPT !.on = session.on \cup {v[m + 1]}]
          /\ m + 1 \in 1 .. Len(v) /\ valid'[p] = v /\ enabled'[p] = m + 1
          /\ m \in Nat /\ v \in Seq(Guids)
      BY <1>0, <1>1, <2>1, EnablesIs DEF Shape
    <3>2. IF m + 1 = Len(v) THEN thread'[p] = "open" ELSE thread'[p] = "enable"
      BY <1>0, <2>1, <3>1, EnablesIs DEF Shape
    <3> HIDE DEF v, m
    <3>3. Owner' = p => Owner = p /\ session'.on = session.on \cup {v[m + 1]}
      BY <3>1, NoneIsNoProcess DEF IsSession, Owner
    <3>4. Counted(p)'
      BY <1>0, <1>1, <3>1, <3>2 DEF Counted, Starting
    <3>5. {v[k] : k \in 1 .. m + 1} = {v[k] : k \in 1 .. m} \cup {v[m + 1]}
      BY <3>1
    <3>6. m + 1 = Len(v) => {v[k] : k \in 1 .. m + 1} = Range(v)
      BY <3>1 DEF Range
    <3>7. Alive(p)' = Alive(p) /\ shared'[p] = shared[p]
      BY <1>0 DEF Alive, Over
    <3>8. Alive(p) /\ ~shared[p] /\ Owner' = p => session'.on = {v[k] : k \in 1 .. m + 1}
      BY <1>0, <3>1, <3>3, <3>5 DEF Follows, v, m
    <3>9. Follows(p)'
      BY <3>1, <3>2, <3>6, <3>7, <3>8 DEF Follows
    <3> QED BY <3>4, <3>9
  <2>2. CASE StartTrace(p)
    <3>1. /\ thread[p] \in Starting /\ thread'[p] = "enable" /\ session' = NewSession(p)
          /\ enabled'[p] = enabled[p]
      BY <1>1, <2>2 DEF StartTrace, Goes, work, Starting, Shape
    <3>2. enabled[p] = 0 /\ enabled[p] < Len(valid[p])
      BY <1>0, <3>1 DEF Counted
    <3>3. Counted(p)'
      BY <1>0, <1>1, <1>2, <3>1, <3>2 DEF Counted, Starting
    <3>4. session'.on = {} /\ {valid'[p][k] : k \in 1 .. enabled'[p]} = {}
      BY <3>1, <3>2 DEF NewSession
    <3>5. Follows(p)'
      BY <3>1, <3>4 DEF Follows
    <3> QED BY <3>3, <3>5
  <2>3. CASE ~Enables(p) /\ ~StartTrace(p)
    <3>1. /\ enabled' = enabled
          /\ thread'[p] \in Starting => thread[p] \in Starting
          /\ thread'[p] # "enable"
          /\ thread'[p] \in Late => thread[p] \in Late \ {"enable"}
          /\ \/ session' \in {session, None}
             \/ session # None /\ session' = [session EXCEPT !.kept = <<>>]
      <4> USE DEF Goes, work, Starting, Late
      <4>0. thread \in [Processes -> ThreadCalls \cup {None}]
        BY <1>0 DEF Shape
      <4>1. CASE Resizes(p) \/ StartFindsSession(p) \/ StopTrace(p) \/ StartFails(p)
        BY <4>0, <4>1 DEF Resizes, StartFindsSession, StopTrace, StartFails
      <4>2. CASE OpenTrace(p) \/ ProcessTrace(p) \/ ProcessTraceFails(p)
        BY <4>0, <4>2 DEF OpenTrace, ProcessTrace, ProcessTraceFails
      <4>3. CASE TakesBuffer(p) \/ ProcessTraceReturns(p) \/ SkipsEvent(p)
        BY <4>0, <4>3 DEF TakesBuffer, ProcessTraceReturns, SkipsEvent
      <4>4. CASE AcquiresLock(p) \/ WritesEvent(p) \/ BufferEventCallback(p)
        BY <4>0, <4>4 DEF AcquiresLock, WritesEvent, BufferEventCallback
      <4> QED BY <2>3, <4>1, <4>2, <4>3, <4>4 DEF Thread
    <3>2. /\ Owner' = p => Owner = p
          /\ Owner' = p => session'.on = session.on
      BY <1>0, <3>1, NoneIsNoProcess DEF Owner, Shape, IsSession
    <3>3. Counted(p)'
      BY <1>0, <1>2, <3>1, CountedSame
    <3>4. Alive(p)' = Alive(p)
      BY <1>0 DEF Alive, Over
    <3>5. Follows(p)'
      BY <1>0, <1>2, <3>1, <3>2, <3>4, FollowsSame
    <3> QED BY <3>3, <3>5
  <2> QED BY <2>1, <2>2, <2>3
<1> QED BY <1>3, <1>4 DEF FInv

LEMMA ConstructFollows ==
  ASSUME JInv, Typed, Typed', FInv, NEW p \in Processes, Construct(p)
  PROVE  FInv'
<1>1. /\ main[p] = None /\ main' = [main EXCEPT ![p] = main'[p]] /\ main'[p] # None
      /\ \/ thread' = [thread EXCEPT ![p] = "resize"] /\ valid'[p] # <<>>
         \/ thread' = thread
      /\ valid' = [valid EXCEPT ![p] = valid'[p]] /\ UNCHANGED <<session, enabled>>
      /\ \A q \in Processes : q # p => shared'[q] = (shared[q] \/ Alive(q))
  <2>1. /\ main \in [Processes -> MainCalls \cup {None}] /\ None \notin MainCalls
        /\ valid \in [Processes -> Seq(Guids)]
    BY NoneIsNoLabel DEF JInv, Shape, Typed
  <2>2. shared' = [q \in Processes |->
          shared[q] \/ (Alive(q) /\ q # p) \/ (q = p /\ \E r \in Processes : Alive(r))]
    BY DEF Construct
  <2>3. valid' = [valid EXCEPT ![p] = valid'[p]]
    BY <2>1 DEF Construct
  <2> QED BY <2>1, <2>2, <2>3 DEF Construct, work, MainCalls
<1>2. /\ thread[p] \in Idle /\ thread \in [Processes -> ThreadCalls \cup {None}] /\ Counted(p)
      /\ main \in [Processes -> MainCalls \cup {None}]
      /\ valid' \in [Processes -> Seq(Guids)] /\ enabled \in [Processes -> Nat]
  BY <1>1 DEF JInv, Shape, Place, DeadIdle, Alive, FInv, Typed
<1>3. ASSUME NEW q \in Processes, q # p PROVE Counted(q)' /\ Follows(q)'
  <2>1. /\ UNCHANGED <<main[q], thread[q], valid[q], enabled[q]>>
        /\ Counted(q) /\ Follows(q)
    BY <1>1, <1>2, <1>3 DEF FInv, Typed
  <2>2. Counted(q)'
    BY <2>1, CountedSame
  <2>3. Alive(q)' = Alive(q)
    BY <2>1 DEF Alive, Over
  <2>4. Follows(q)'
    BY <1>1, <1>3, <2>3 DEF Follows
  <2> QED BY <2>2, <2>4
<1>4. Counted(p)' /\ Follows(p)'
  <2>1. enabled'[p] = 0 /\ Len(valid'[p]) \in Nat
    BY <1>1, <1>2 DEF Counted
  <2>2. \/ thread'[p] = "resize" /\ Len(valid'[p]) > 0
        \/ thread'[p] \in Idle
    BY <1>1, <1>2, <2>1
  <2>3. thread'[p] \notin Late /\ "enable" \in Late
    BY <2>2, NoneIsNoLabel DEF Idle, Late, ThreadCalls
  <2>4. thread'[p] \in Starting \cup {"enable"} => Len(valid'[p]) > 0
    BY <2>2, NoneIsNoLabel DEF Idle, Starting, ThreadCalls
  <2> QED BY <1>1, <2>1, <2>3, <2>4 DEF Counted, Follows
<1> QED BY <1>3, <1>4 DEF FInv

LEMMA EndsFollows ==
  ASSUME JInv, Typed, FInv, NEW p \in Processes, Alive(p),
         NEW how \in {"gone", "killed"}, NEW left \in {"ended", "terminated"}, Ends(p, how, left)
  PROVE  FInv'
<1>1. /\ main' = [main EXCEPT ![p] = how] /\ thread' = [thread EXCEPT ![p] = left]
      /\ valid' = [valid EXCEPT ![p] = <<>>] /\ enabled' = [enabled EXCEPT ![p] = 0]
      /\ UNCHANGED shared
  BY DEF Ends, Calls, Goes
<1>2. /\ Shape /\ valid \in [Processes -> Seq(Guids)] /\ enabled \in [Processes -> Nat]
  BY DEF JInv, Typed
<1>3. ASSUME NEW q \in Processes, q # p PROVE Counted(q)' /\ Follows(q)'
  <2>1. UNCHANGED <<main[q], thread[q], shared[q], valid[q], enabled[q]>>
    BY <1>1, <1>2, <1>3 DEF Shape
  <2> QED BY <1>3, <2>1, OthersFollow
<1>4. Counted(p)' /\ Follows(p)'
  <2>1. main'[p] = how /\ thread'[p] = left /\ valid'[p] = <<>> /\ enabled'[p] = 0
    BY <1>1, <1>2 DEF Shape
  <2>2. ~Alive(p)'
    BY <2>1 DEF Alive, Over
  <2> QED BY <2>1, <2>2 DEF Counted, Follows, Starting
<1> QED BY <1>3, <1>4 DEF FInv

\* The steps of exit, and those of the world.
LEMMA QuietFollows ==
  ASSUME Shape, FInv, UNCHANGED <<valid, enabled, shared>>,
         \/ session' \in {session, None}
         \/ session # None /\ \E x : session' = [session EXCEPT !.kept = x],
         \A q \in Processes :
           /\ thread'[q] = thread[q] \/ thread'[q] \in InSignal \cup {"terminated"}
           /\ main'[q] = None => main[q] = None
           /\ Alive(q)' => Alive(q)
  PROVE  FInv'
<1>1. ASSUME NEW q \in Processes PROVE Counted(q)' /\ Follows(q)'
  <2>1. /\ Counted(q) /\ Follows(q)
        /\ thread'[q] = thread[q] \/ thread'[q] \in InSignal \cup {"terminated"}
        /\ main'[q] = None => main[q] = None
        /\ Alive(q)' => Alive(q)
    BY DEF FInv
  <2>2. Counted(q)'
    BY <2>1, CountedSame DEF InSignal, Starting
  <2>3. Owner' = q => Owner = q /\ session'.on = session.on
    BY NoneIsNoProcess DEF Owner, Shape, IsSession
  <2>4. thread'[q] \in Late => thread'[q] = thread[q]
    BY <2>1 DEF Late, InSignal
  <2>5. Follows(q)'
    BY <2>1, <2>3, <2>4, FollowsSame
  <2> QED BY <2>2, <2>5
<1> QED BY <1>1 DEF FInv

LEMMA FollowsStep ==
  ASSUME JInv, OInv, Typed, Typed', FInv, [Next]_vars
  PROVE  FInv'
<1>0. Shape
  BY DEF JInv
<1>1. ASSUME NEW p \in Processes,
             \/ HandlesSignal(p) \/ StopsSession(p) \/ StopFails(p) \/ ClosesTrace(p)
             \/ SetsFlag(p) \/ TerminatesItself(p) \/ MainReturns(p) \/ SignalInMain(p)
             \/ SignalInThread(p)
      PROVE  FInv'
  <2>1. /\ UNCHANGED <<valid, enabled, shared>> /\ session' \in {session, None}
        /\ thread' = [thread EXCEPT ![p] = thread'[p]]
        /\ thread'[p] \in InSignal \cup {"terminated"} \/ thread' = thread
        /\ main' = [main EXCEPT ![p] = main'[p]] /\ (main'[p] = None => main[p] = None)
    BY <1>0, <1>1, ExitQuiet
  <2>2. Alive(p)
    <3>1. main \in [Processes -> MainCalls \cup {None}]
      BY <1>0 DEF Shape
    <3>2. thread[p] \in {"signal", "record"} => Alive(p)
      BY NoneIsNoLabel DEF JInv, Place, DeadIdle, Idle, ThreadCalls
    <3> QED BY <1>1, <3>1, <3>2, NoneIsNoLabel
            DEF HandlesSignal, StopsSession, StopFails, ClosesTrace, SetsFlag, TerminatesItself,
                MainReturns, SignalInMain, SignalInThread, Alive, Over, MainCalls
  <2>3. \A q \in Processes :
          /\ thread'[q] = thread[q] \/ thread'[q] \in InSignal \cup {"terminated"}
          /\ main'[q] = None => main[q] = None
          /\ Alive(q)' => Alive(q)
    <3> TAKE q \in Processes
    <3>1. CASE q = p
      BY <2>1, <2>2, <3>1
    <3>2. CASE q # p
      <4>1. thread'[q] = thread[q] /\ main'[q] = main[q]
        BY <1>0, <2>1, <3>2 DEF Shape
      <4> QED BY <4>1 DEF Alive, Over
    <3> QED BY <3>1, <3>2
  <2> QED BY <1>0, <2>1, <2>3, QuietFollows
<1>2. ASSUME NEW p \in Processes, Joins(p) \/ Terminates(p) \/ StopCrashes(p) \/ Killed(p)
      PROVE  FInv'
  <2>1. Alive(p)
    BY <1>2, NoneIsNoLabel
    DEF Joins, Terminates, StopCrashes, Killed, Alive, Over, MainCalls
  <2> QED BY <1>2, <2>1, EndsFollows DEF Joins, Terminates, StopCrashes, Killed
<1>3. ASSUME \/ UNCHANGED vars
             \/ \E p \in Processes : Stalls(p) \/ Resumes(p)
             \/ \E guid \in Guids, kind \in Kinds : Occurs(guid, kind)
      PROVE  FInv'
  <2>1. /\ UNCHANGED <<valid, enabled, shared, main, thread>>
        /\ \/ session' = session
           \/ session # None /\ \E x : session' = [session EXCEPT !.kept = x]
    BY <1>3 DEF Stalls, Resumes, Occurs, vars, world, object, work
  <2>2. \A q \in Processes : Alive(q)' = Alive(q)
    BY <2>1 DEF Alive, Over
  <2> QED BY <1>0, <2>1, <2>2, QuietFollows
<1> QED BY <1>1, <1>2, <1>3, ThreadFollows, ConstructFollows DEF Next, Exit

LEMMA TypesHold == Spec => [](JInv /\ OInv /\ Typed /\ FInv)
<1>1. Init => Typed /\ FInv
  <2> SUFFICES ASSUME Init PROVE Typed /\ FInv
    OBVIOUS
  <2>1. MaxEvents[habits] \in Nat /\ MaxStalls \in Nat
    BY EtwMonitorAssumption DEF Init
  <2>2. <<>> \in Seq(Guids) /\ <<>> \in Seq(Event)
    OBVIOUS
  <2>3. Typed
    BY <2>1, <2>2 DEF Init, Typed
  <2>4. ASSUME NEW p \in Processes PROVE Counted(p) /\ Follows(p)
    <3>1. thread[p] = None /\ enabled[p] = 0 /\ valid[p] = <<>> /\ ~Alive(p)
      BY DEF Init, Alive
    <3>2. thread[p] \notin Starting \cup {"enable"} /\ Len(valid[p]) = 0
      BY <3>1, NoneIsNoLabel DEF Starting, ThreadCalls
    <3> QED BY <3>1, <3>2 DEF Counted, Follows
  <2> QED BY <2>3, <2>4 DEF FInv
<1>2. JInv /\ OInv /\ Typed /\ FInv /\ [Next]_vars => Typed' /\ FInv'
  BY TypedStep, FollowsStep
<1> QED BY <1>1, <1>2, JInvHolds, OInvHolds, PTL DEF Spec

(***************************************************************************)
(* Every variable has its type, for whatever the processes are configured  *)
(* with: no process enables more providers than it has, and no event is    *)
(* due that has not occurred.                                              *)
(***************************************************************************)
THEOREM TypeCorrect == Spec => []TypeOK
<1>1. JInv /\ Typed /\ FInv => TypeOK
  <2> SUFFICES ASSUME JInv, Typed, FInv PROVE TypeOK
    OBVIOUS
  <2>1. session \in Session \cup {None}
    BY DEF JInv, Shape, IsSession, Typed, Session
  <2>2. \A p \in Processes : enabled[p] \in 0 .. Len(valid[p])
    BY DEF Typed, FInv, Counted
  <2> QED BY <2>1, <2>2 DEF JInv, Shape, Typed, TypeOK
<1> QED BY <1>1, TypesHold, PTL

(***************************************************************************)
(* A process that is alone consumes its own providers, all of them and no  *)
(* other, whatever session and whatever configuration was there before.    *)
(***************************************************************************)
THEOREM ConfigFollowed == Spec => []SessionFollowsConfig
<1>1. JInv /\ FInv => SessionFollowsConfig
  <2> SUFFICES ASSUME JInv, FInv, NEW p \in Processes, thread[p] = "trace", ~shared[p],
                      session # None
               PROVE  session.on = Range(valid[p])
    BY DEF SessionFollowsConfig
  <2>1. Alive(p)
    BY NoneIsNoLabel DEF JInv, Place, DeadIdle, Idle, ThreadCalls
  <2>2. Owner = p
    BY <2>1, NoneIsNoProcess DEF JInv, Shape, IsSession, Place, Alone, Late, Owner
  <2> QED BY <2>1, <2>2 DEF FInv, Follows, Late
<1> QED BY <1>1, TypesHold, PTL
=============================================================================
