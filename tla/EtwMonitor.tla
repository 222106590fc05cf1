----------------------------- MODULE EtwMonitor -----------------------------
(***************************************************************************)
(* The monitor of ETW providers (EtwMonitor.cpp) in the processes that     *)
(* hold one, one after the other or side by side.  Its thread starts a     *)
(* trace session of a fixed name, enables the providers on it, and         *)
(* consumes its events until the session ends; its destructor stops the    *)
(* session by its name and joins the thread.  The session belongs to the   *)
(* system: it outlives a process that ends without the destructor.         *)
(*                                                                         *)
(* The destructor runs in exit, which the main thread calls in the end and *)
(* the handler of a catastrophic signal (Main.cpp) in the thread in which  *)
(* the signal is raised.  Lines are printed under the lock of the log      *)
(* writer (LogWriter.h), which stands still while nobody reads stdout.     *)
(***************************************************************************)
EXTENDS Naturals, Sequences, SequencesExt, Selections

CONSTANTS
  None,        \* no session, no thread, no name
  Processes,   \* the processes that hold a monitor
  Requested,   \* Providers: the GUID and the name given to each process
  Registered,  \* the GUIDs of the names that TdhEnumerateProviders lists
  Lower,       \* towlower: the folded form of a name
  Habits,      \* the sets of habits that a behaviour may have
  MaxEvents,   \* bound: events of the providers, for each set of habits
  MaxStalls    \* bound: times that stdout is not read

Header == "header"   \* EventTraceGuid, of the event every trace begins with
Guids ==
  ({Registered[n] : n \in DOMAIN Registered}
     \cup UNION {{r.guid : r \in Range(Requested[p])} : p \in Processes}) \ {None}

\* Where the main thread and the thread of the monitor are, and where a signal is raised.
MainCalls == {"up", "signal", "stop", "close", "flag", "join", "gone", "stuck", "off", "killed"}
ThreadCalls ==
  {"resize", "start", "stop", "restart", "enable", "open", "process", "trace", "record",
   "write", "signal", "exit", "second exit", "ended", "terminated"}
Raised == {"main", "thread"}
Handles == {"consumer", "closed"}

ASSUME EtwMonitorAssumption ==
  /\ Processes \subseteq Nat
  /\ None \notin Processes
  /\ None \notin MainCalls \cup ThreadCalls \cup Raised \cup Handles
  /\ DOMAIN Requested = Processes
  /\ \A p \in Processes : Requested[p] \in Seq(Range(Requested[p]))
  /\ IsFiniteSet(DOMAIN Registered) /\ None \notin Range(Registered)
  /\ \A n, m \in DOMAIN Registered : Lower[n] = Lower[m] => n = m
  /\ {Header, None} \cap Guids = {}
  /\ Habits \subseteq SUBSET {"faults", "kills", "mixed", "overlap", "signals", "stalls"}
  /\ MaxEvents \in [Habits -> Nat] /\ MaxStalls \in Nat

VARIABLES
  habits,    \* what happens in this behaviour
  session,   \* the session of the system: its owner, its providers, its events
  events,    \* the events so far
  main,      \* the next call of the main thread, or of exit
  signal,    \* the thread in which a signal was raised
  valid,     \* m_providersConfig
  stopFlag,  \* m_stopFlag
  handle,    \* m_startTraceHandle: a handle that consumes, or not
  thread,    \* the next call of the monitor thread
  enabled,   \* providers enabled so far
  source,    \* the owner of the session that is consumed
  pending,   \* events on their way to the thread
  buffer,    \* events of the buffer the thread works on
  printed,   \* events printed
  due,       \* printable events that were on their way to the thread
  stalled,   \* stdout is not read
  stalls,    \* times that stdout has stalled
  shared,    \* another process has lived at the same time
  missed     \* what the destructor ended before the thread began it

object == <<valid, stopFlag, handle>>
work == <<enabled, source, pending, buffer, printed, due>>
world == <<habits, events, stalled, stalls>>
vars == <<world, session, main, signal, object, thread, work, shared, missed>>

Over(p) == main[p] \in {"gone", "killed", "off"}
Faulty == "faults" \in habits
Alive(p) == main[p] # None /\ ~Over(p)
Init ==
  /\ habits \in Habits /\ session = None /\ events = 0 /\ stalls = 0
  /\ stalled = [p \in Processes |-> FALSE]
  /\ main = [p \in Processes |-> None] /\ signal = [p \in Processes |-> None]
  /\ valid = [p \in Processes |-> <<>>] /\ stopFlag = [p \in Processes |-> FALSE]
  /\ handle = [p \in Processes |-> None] /\ thread = [p \in Processes |-> None]
  /\ enabled = [p \in Processes |-> 0] /\ source = [p \in Processes |-> None]
  /\ pending = [p \in Processes |-> <<>>] /\ buffer = [p \in Processes |-> <<>>]
  /\ printed = [p \in Processes |-> <<>>] /\ due = [p \in Processes |-> {}]
  /\ shared = [p \in Processes |-> FALSE] /\ missed = [p \in Processes |-> {}]

-----------------------------------------------------------------------------
(***************************************************************************)
(* The constructor.  A provider without a GUID is looked up by its folded  *)
(* name, each name once.  Without a valid provider, or without a thread,   *)
(* the constructor throws and the process does without the monitor.        *)
(***************************************************************************)
FilterValidProviders(providers, enumerated) ==
  LET withGuid == Selected(providers, {k \in 1 .. Len(providers) : providers[k].guid # None})
      names == {Lower[r.name] : r \in {s \in Range(providers) : s.guid = None /\ s.name # None}}
      found == {n \in DOMAIN Registered : enumerated /\ Lower[n] \in names}
  IN [i \in 1 .. Len(withGuid) |-> withGuid[i].guid]
       \o [i \in 1 .. Len(SetToSeq(found)) |-> Registered[SetToSeq(found)[i]]]

Construct(p) ==
  /\ main[p] = None
  /\ \A q \in Processes : q < p => IF "overlap" \in habits THEN main[q] # None ELSE Over(q)
  /\ \E enumerated \in {TRUE, ~Faulty} :
       valid' = [valid EXCEPT ![p] = FilterValidProviders(Requested[p], enumerated)]
  /\ \/ /\ valid'[p] # <<>>
        /\ main' = [main EXCEPT ![p] = "up"] /\ thread' = [thread EXCEPT ![p] = "resize"]
     \/ /\ valid'[p] = <<>> \/ Faulty
        /\ main' = [main EXCEPT ![p] = "off"] /\ UNCHANGED thread
  /\ shared' = [q \in Processes |->
       shared[q] \/ (Alive(q) /\ q # p) \/ (q = p /\ \E r \in Processes : Alive(r))]
  /\ UNCHANGED <<world, session, signal, stopFlag, handle, work, missed>>

-----------------------------------------------------------------------------
(***************************************************************************)
(* StartTraceSession.  The buffer that the destructor uses is sized first. *)
(* A session that runs is stopped, whoever started it, and started again.  *)
(***************************************************************************)
Goes(p, call) == thread' = [thread EXCEPT ![p] = call]
Owner == IF session = None THEN None ELSE session.owner
NewSession(p) == [owner |-> p, on |-> {}, kept |-> <<>>]

Resizes(p) ==
  /\ thread[p] = "resize"
  /\ Goes(p, "start")
  /\ UNCHANGED <<world, session, main, signal, object, work, shared, missed>>

StartTrace(p) ==
  /\ thread[p] \in {"start", "restart"}
  /\ session = None
  /\ session' = NewSession(p) /\ Goes(p, "enable")
  /\ UNCHANGED <<world, main, signal, object, work, shared, missed>>

\* A mistake: the session that runs is taken as it is.
MutStartFindsSession(p) ==
  /\ thread[p] = "start"
  /\ session # None
  /\ Goes(p, "open")
  /\ UNCHANGED <<world, session, main, signal, object, work, shared, missed>>

StartFindsSession(p) ==
  /\ thread[p] = "start"
  /\ session # None
  /\ Goes(p, "stop")
  /\ UNCHANGED <<world, session, main, signal, object, work, shared, missed>>

StopTrace(p) ==
  /\ thread[p] = "stop"
  /\ session # None
  /\ session' = None /\ Goes(p, "restart")
  /\ UNCHANGED <<world, main, signal, object, work, shared, missed>>

(***************************************************************************)
(* A failure leaves what has been done as it is: a session that was        *)
(* started goes on without a consumer.                                     *)
(***************************************************************************)
StartFails(p) ==
  /\ \/ thread[p] = "restart" /\ session # None
     \/ thread[p] = "stop" /\ session = None
     \/ thread[p] \in {"start", "stop", "restart", "enable", "open"} /\ Faulty
     \/ thread[p] = "enable" /\ Owner # p
  /\ Goes(p, "ended")
  /\ UNCHANGED <<world, session, main, signal, object, work, shared, missed>>

(***************************************************************************)
(* The handle of a session that was stopped may by now be the handle of    *)
(* the session that another process has started.                           *)
(***************************************************************************)
Enables(p) ==
  /\ thread[p] = "enable" /\ session # None
  /\ session' = [session EXCEPT !.on = @ \cup {valid[p][enabled[p] + 1]}]
  /\ enabled' = [enabled EXCEPT ![p] = @ + 1]
  /\ IF enabled'[p] = Len(valid[p]) THEN Goes(p, "open") ELSE UNCHANGED thread
  /\ UNCHANGED <<world, main, signal, object, source, pending, buffer, printed, due,
                 shared, missed>>

(***************************************************************************)
(* OnRecordEvent.  The events of other providers and those of WPP are      *)
(* skipped, and an event that cannot be decoded is an error that ends      *)
(* there.                                                                  *)
(***************************************************************************)
\* A mistake: the provider of the event is not compared with the ones configured.
MutPrintable(p, e) == e.kind = "plain"

Printable(p, e) == e.guid \in Range(valid[p]) /\ e.kind = "plain"

Due(p, s) == {s[k].n : k \in {i \in 1 .. Len(s) : Printable(p, s[i])}}

(***************************************************************************)
(* StartEtwMonitor: the session is opened, and consumed, by its name.      *)
(***************************************************************************)
OpenTrace(p) ==
  /\ thread[p] = "open"
  /\ handle' = [handle EXCEPT ![p] = "consumer"] /\ Goes(p, "process")
  /\ UNCHANGED <<world, session, main, signal, valid, stopFlag, work, shared, missed>>

ProcessTrace(p) ==
  /\ thread[p] = "process" /\ handle[p] = "consumer" /\ session # None
  /\ Goes(p, "trace") /\ source' = [source EXCEPT ![p] = session.owner]
  /\ pending' = [pending EXCEPT
       ![p] = <<[n |-> 0, guid |-> Header, kind |-> "plain"]>> \o session.kept]
  /\ due' = [due EXCEPT ![p] = Due(p, session.kept)]
  /\ session' = [session EXCEPT !.kept = <<>>]
  /\ UNCHANGED <<world, main, signal, object, enabled, buffer, printed, shared, missed>>

ProcessTraceFails(p) ==
  /\ thread[p] = "process"
  /\ handle[p] = "closed" \/ session = None \/ Faulty
  /\ Goes(p, "ended")
  /\ UNCHANGED <<world, session, main, signal, object, work, shared, missed>>

Consumes(p) == session # None /\ source[p] = Owner

TakesBuffer(p) ==
  /\ thread[p] = "trace" /\ pending[p] # <<>>
  /\ buffer' = [buffer EXCEPT ![p] = pending[p]] /\ pending' = [pending EXCEPT ![p] = <<>>]
  /\ Goes(p, "record")
  /\ UNCHANGED <<world, session, main, signal, object, enabled, source, printed, due,
                 shared, missed>>

ProcessTraceReturns(p) ==
  /\ thread[p] = "trace"
  /\ handle[p] = "closed" \/ (~Consumes(p) /\ pending[p] = <<>>)
  /\ Goes(p, "ended")
  /\ UNCHANGED <<world, session, main, signal, object, work, shared, missed>>

\* A mistake: the rest of the buffer is left, too.
MutSkipsEvent(p) ==
  /\ thread[p] = "record" /\ buffer[p] # <<>> /\ ~Printable(p, Head(buffer[p]))
  /\ buffer' = [buffer EXCEPT ![p] = <<>>]
  /\ UNCHANGED <<world, session, main, signal, object, thread, enabled, source, pending, printed,
                 due, shared, missed>>

SkipsEvent(p) ==
  /\ thread[p] = "record" /\ buffer[p] # <<>> /\ ~Printable(p, Head(buffer[p]))
  /\ buffer' = [buffer EXCEPT ![p] = Tail(@)]
  /\ UNCHANGED <<world, session, main, signal, object, thread, enabled, source, pending, printed,
                 due, shared, missed>>

\* PrintEvent, and WriteConsoleLog from the lock to its release.
AcquiresLock(p) ==
  /\ thread[p] = "record" /\ buffer[p] # <<>> /\ Printable(p, Head(buffer[p]))
  /\ Goes(p, "write")
  /\ UNCHANGED <<world, session, main, signal, object, work, shared, missed>>

WritesEvent(p) ==
  /\ thread[p] = "write" /\ ~stalled[p]
  /\ printed' = [printed EXCEPT ![p] = Append(@, Head(buffer[p]))]
  /\ buffer' = [buffer EXCEPT ![p] = Tail(@)]
  /\ Goes(p, "record")
  /\ UNCHANGED <<world, session, main, signal, object, enabled, source, pending, due, shared, missed>>

BufferEventCallback(p) ==
  /\ thread[p] = "record" /\ buffer[p] = <<>>
  /\ Goes(p, IF stopFlag[p] THEN "ended" ELSE "trace")
  /\ UNCHANGED <<world, session, main, signal, object, work, shared, missed>>

CanWrite(p) == thread[p] # "write" /\ ~stalled[p]

Thread(p) ==
  \/ Resizes(p) \/ StartTrace(p) \/ StartFindsSession(p) \/ StopTrace(p) \/ StartFails(p)
  \/ Enables(p) \/ OpenTrace(p) \/ ProcessTrace(p) \/ ProcessTraceFails(p)
  \/ TakesBuffer(p) \/ ProcessTraceReturns(p)
  \/ SkipsEvent(p) \/ AcquiresLock(p) \/ WritesEvent(p) \/ BufferEventCallback(p)

-----------------------------------------------------------------------------
(***************************************************************************)
(* exit.  The main thread calls it, or the handler of a signal after its   *)
(* message, in the main thread or in the thread of the monitor; a second   *)
(* call waits for the first.                                               *)
(***************************************************************************)
Calls(p, call) == main' = [main EXCEPT ![p] = call]

\* The memory of a process ends with it.
Ends(p, how, left) ==
  /\ Calls(p, how) /\ Goes(p, left)
  /\ signal' = [signal EXCEPT ![p] = None] /\ stalled' = [stalled EXCEPT ![p] = FALSE]
  /\ valid' = [valid EXCEPT ![p] = <<>>] /\ stopFlag' = [stopFlag EXCEPT ![p] = FALSE]
  /\ handle' = [handle EXCEPT ![p] = None] /\ source' = [source EXCEPT ![p] = None]
  /\ enabled' = [enabled EXCEPT ![p] = 0] /\ pending' = [pending EXCEPT ![p] = <<>>]
  /\ buffer' = [buffer EXCEPT ![p] = <<>>] /\ printed' = [printed EXCEPT ![p] = <<>>]
  /\ due' = [due EXCEPT ![p] = {}]
  /\ UNCHANGED <<habits, events, stalls, shared>>

MainReturns(p) ==
  /\ main[p] = "up"
  /\ Calls(p, "stop")
  /\ UNCHANGED <<world, session, signal, object, thread, work, shared, missed>>

SignalInMain(p) ==
  /\ main[p] = "up" /\ signal[p] = None /\ "signals" \in habits
  /\ signal' = [signal EXCEPT ![p] = "main"] /\ Calls(p, "signal")
  /\ UNCHANGED <<world, session, object, thread, work, shared, missed>>

SignalInThread(p) ==
  /\ thread[p] = "record" /\ buffer[p] # <<>> /\ signal[p] = None /\ "signals" \in habits
  /\ signal' = [signal EXCEPT ![p] = "thread"] /\ Goes(p, "signal")
  /\ UNCHANGED <<world, session, main, object, work, shared, missed>>

\* A mistake: the handler does not call exit.
MutHandlesSignal(p) ==
  /\ main[p] = "signal" /\ CanWrite(p) /\ Calls(p, "up") /\ UNCHANGED thread
  /\ UNCHANGED <<world, session, signal, object, work, shared, missed>>

HandlesSignal(p) ==
  /\ \/ main[p] = "signal" /\ CanWrite(p) /\ Calls(p, "stop") /\ UNCHANGED thread
     \/ /\ thread[p] = "signal" /\ ~stalled[p] /\ main[p] = "up"
        /\ Goes(p, "exit") /\ Calls(p, "stop")
     \/ /\ thread[p] = "signal" /\ ~stalled[p] /\ main[p] # "up"
        /\ Goes(p, "second exit") /\ UNCHANGED main
  /\ UNCHANGED <<world, session, signal, object, work, shared, missed>>

(***************************************************************************)
(* The destructor.  ControlTrace goes by the name and stops any session of *)
(* that name; it does not look at the handle.  A failure is a warning.     *)
(***************************************************************************)
MissesSession(p) ==
  missed' = IF thread[p] \in {"resize", "start", "stop", "restart"}
            THEN [missed EXCEPT ![p] = @ \cup {"session"}] ELSE missed

\* A mistake: the session is stopped only if it is consumed.
MutStopsSession(p) ==
  /\ main[p] = "stop" /\ thread[p] # "resize" /\ session # None
  /\ Calls(p, "close") /\ session' = IF handle[p] = "consumer" THEN None ELSE session
  /\ MissesSession(p)
  /\ UNCHANGED <<world, signal, object, thread, work, shared>>

StopsSession(p) ==
  /\ main[p] = "stop" /\ thread[p] # "resize" /\ session # None
  /\ Calls(p, "close") /\ session' = None
  /\ MissesSession(p)
  /\ UNCHANGED <<world, signal, object, thread, work, shared>>

StopFails(p) ==
  /\ main[p] = "stop" /\ CanWrite(p)
  /\ thread[p] = "resize" \/ session = None \/ Faulty
  /\ Calls(p, "close")
  /\ MissesSession(p)
  /\ UNCHANGED <<world, session, signal, object, thread, work, shared>>

\* The first element of a buffer without elements: undefined behaviour.
StopCrashes(p) ==
  /\ main[p] = "stop" /\ thread[p] = "resize"
  /\ Ends(p, "killed", "ended")
  /\ UNCHANGED <<session, missed>>

\* A mistake: the handle is left open.
MutClosesTrace(p) ==
  /\ main[p] = "close"
  /\ Calls(p, "flag")
  /\ missed' = IF handle[p] = None THEN [missed EXCEPT ![p] = @ \cup {"trace"}] ELSE missed
  /\ UNCHANGED <<world, session, signal, object, thread, work, shared>>

ClosesTrace(p) ==
  /\ main[p] = "close"
  /\ Calls(p, "flag")
  /\ handle' = [handle EXCEPT ![p] = IF @ = "consumer" THEN "closed" ELSE @]
  /\ missed' = IF handle[p] = None THEN [missed EXCEPT ![p] = @ \cup {"trace"}] ELSE missed
  /\ UNCHANGED <<world, session, signal, valid, stopFlag, thread, work, shared>>

SetsFlag(p) ==
  /\ main[p] = "flag"
  /\ Calls(p, "join") /\ stopFlag' = [stopFlag EXCEPT ![p] = TRUE]
  /\ UNCHANGED <<world, session, signal, valid, handle, thread, work, shared, missed>>

Joins(p) ==
  /\ main[p] = "join" /\ thread[p] = "ended"
  /\ Ends(p, "gone", "ended")
  /\ UNCHANGED <<session, missed>>

(***************************************************************************)
(* Five seconds are enough for a thread that does not wait.  In the thread *)
(* of the monitor, exit waits for itself and is terminated with it.        *)
(***************************************************************************)
Blocked(p) ==
  \/ thread[p] = "trace" /\ pending[p] = <<>> /\ Consumes(p) /\ handle[p] # "closed"
  \/ thread[p] \in {"write", "signal"} /\ stalled[p]
  \/ thread[p] \in {"exit", "second exit"}

Terminates(p) ==
  /\ main[p] = "join" /\ Blocked(p) /\ thread[p] # "exit"
  /\ Ends(p, "gone", "terminated")
  /\ UNCHANGED <<session, missed>>

TerminatesItself(p) ==
  /\ main[p] = "join" /\ thread[p] = "exit"
  /\ Goes(p, "terminated") /\ Calls(p, "stuck")
  /\ UNCHANGED <<world, session, signal, object, work, shared, missed>>

Exit(p) ==
  \/ HandlesSignal(p) \/ StopsSession(p) \/ StopFails(p) \/ StopCrashes(p)
  \/ ClosesTrace(p) \/ SetsFlag(p) \/ Joins(p) \/ Terminates(p) \/ TerminatesItself(p)

-----------------------------------------------------------------------------
(***************************************************************************)
(* The system.  A process may be killed; its session goes on.  An event is *)
(* recorded if the session has its provider, and kept until the session is *)
(* consumed.                                                               *)
(***************************************************************************)
Killed(p) ==
  /\ Alive(p) /\ "kills" \in habits
  /\ Ends(p, "killed", "ended")
  /\ UNCHANGED <<session, missed>>

Consumers == {p \in Processes : thread[p] \in {"trace", "record", "write"} /\ Consumes(p)}

\* How an event decodes; the kind of one that cannot be decoded is not told from WPP.
Kinds == {"plain"} \cup (IF "mixed" \in habits THEN {"wpp"} ELSE {})

Occurs(guid, kind) ==
  LET event == [n |-> events + 1, guid |-> guid, kind |-> kind] IN
  /\ events < MaxEvents[habits] /\ session # None /\ guid \in session.on
  /\ events' = events + 1
  /\ pending' = [p \in Processes |->
       IF p \in Consumers THEN Append(pending[p], event) ELSE pending[p]]
  /\ due' = [p \in Processes |-> due[p] \cup IF p \in Consumers THEN Due(p, <<event>>) ELSE {}]
  /\ session' = IF Consumers = {} THEN [session EXCEPT !.kept = Append(@, event)] ELSE session
  /\ UNCHANGED <<habits, stalled, stalls, main, signal, object, thread, enabled, source, buffer,
                 printed, shared, missed>>

Stalls(p) ==
  /\ Alive(p) /\ "stalls" \in habits /\ ~stalled[p] /\ stalls < MaxStalls
  /\ stalled' = [stalled EXCEPT ![p] = TRUE] /\ stalls' = stalls + 1
  /\ UNCHANGED <<habits, events, session, main, signal, object, thread, work, shared, missed>>

Resumes(p) ==
  /\ stalled[p]
  /\ stalled' = [stalled EXCEPT ![p] = FALSE]
  /\ UNCHANGED <<habits, events, stalls, session, main, signal, object, thread, work, shared, missed>>

Next ==
  \/ \E p \in Processes :
       \/ Construct(p) \/ Thread(p) \/ Exit(p)
       \/ MainReturns(p) \/ SignalInMain(p) \/ SignalInThread(p)
       \/ Killed(p) \/ Stalls(p) \/ Resumes(p)
  \/ \E guid \in Guids, kind \in Kinds : Occurs(guid, kind)

Spec == Init /\ [][Next]_vars

\* The threads are scheduled, and stdout is read again; nobody has to end a process.
FairSpec == Spec /\ \A p \in Processes : WF_vars(Thread(p)) /\ WF_vars(Exit(p)) /\ WF_vars(Resumes(p))

-----------------------------------------------------------------------------

(***************************************************************************)
(* Every variable has its type; no process is at two places of exit.       *)
(***************************************************************************)
Event == [n : 0 .. MaxEvents[habits], guid : Guids \cup {Header}, kind : Kinds]
Session == [owner : Processes, on : SUBSET Guids, kept : Seq(Event)]

TypeOK ==
  /\ habits \in Habits /\ session \in Session \cup {None}
  /\ events \in 0 .. MaxEvents[habits] /\ stalls \in 0 .. MaxStalls /\ stalled \in [Processes -> BOOLEAN]
  /\ main \in [Processes -> MainCalls \cup {None}]
  /\ signal \in [Processes -> Raised \cup {None}]
  /\ valid \in [Processes -> Seq(Guids)] /\ stopFlag \in [Processes -> BOOLEAN]
  /\ handle \in [Processes -> Handles \cup {None}]
  /\ thread \in [Processes -> ThreadCalls \cup {None}]
  /\ \A p \in Processes : enabled[p] \in 0 .. Len(valid[p])
  /\ source \in [Processes -> Processes \cup {None}]
  /\ pending \in [Processes -> Seq(Event)] /\ buffer \in [Processes -> Seq(Event)]
  /\ printed \in [Processes -> Seq(Event)]
  /\ due \in [Processes -> SUBSET (1 .. MaxEvents[habits])]
  /\ shared \in [Processes -> BOOLEAN] /\ missed \in [Processes -> SUBSET {"session", "trace"}]

(***************************************************************************)
(* A process prints events of the providers it is configured with only, in *)
(* the order they occurred and each once, though it opens the session by   *)
(* a name that other processes use and every trace begins with an event of *)
(* the system.                                                             *)
(***************************************************************************)
PrintedInOrder ==
  \A p \in Processes :
    /\ \A k \in 1 .. Len(printed[p]) : printed[p][k].guid \in Range(valid[p])
    /\ \A k \in 1 .. Len(printed[p]) - 1 : printed[p][k].n < printed[p][k + 1].n

(***************************************************************************)
(* A process that is alone consumes a session that has its own providers,  *)
(* all of them and no other, whatever session an earlier process has left  *)
(* behind: the configuration could change in between.                      *)
(***************************************************************************)
SessionFollowsConfig ==
  \A p \in Processes :
    thread[p] = "trace" /\ ~shared[p] /\ session # None => session.on = Range(valid[p])

(***************************************************************************)
(* No session is left behind by a process that ends with its destructor,   *)
(* wherever the thread is by then and whatever other processes do, unless  *)
(* it had yet to start the session or the system refuses to stop it.       *)
(***************************************************************************)
NoSessionLeft ==
  \A p \in Processes :
    main[p] = "gone" /\ "session" \notin missed[p] /\ ~Faulty => Owner # p

(***************************************************************************)
(* The destructor kills the thread only if it waits for stdout, if it runs *)
(* exit itself, or if the session was started after the destructor had     *)
(* looked for it; not because the system refuses to stop the session, and  *)
(* not because another process uses it.                                    *)
(***************************************************************************)
JoinedNotKilled ==
  [][\A p \in Processes :
       thread[p] # "terminated" /\ thread'[p] = "terminated"
         => \/ stalled[p] \/ signal[p] = "thread" \/ "session" \in missed[p]
            \/ "trace" \in missed[p] /\ (Faulty \/ shared[p])]_vars

(***************************************************************************)
(* Main.cpp: "Terminate the program".  A signal in the main thread ends    *)
(* the process, wherever the thread of the monitor is.  In the thread of   *)
(* the monitor it does not: exit waits for that very thread.               *)
(***************************************************************************)
SignalEndsProcess == \A p \in Processes : []<>(signal[p] = "main" => Over(p))

(***************************************************************************)
(* An event of a configured provider that is on its way to the thread is   *)
(* printed, whatever the events around it, unless the process ends.        *)
(***************************************************************************)
EventsPrinted ==
  \A p \in Processes :
    []<>(main[p] = "up" /\ signal[p] = None => due[p] \subseteq {e.n : e \in Range(printed[p])})
=============================================================================
