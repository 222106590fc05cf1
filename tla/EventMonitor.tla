---------------------------- MODULE EventMonitor ----------------------------
(***************************************************************************)
(* The monitor of the Windows event log.  Its thread enables the channels  *)
(* of the configuration, and waits for the event log service when it is    *)
(* not up yet; it subscribes to the channels, and then waits for the stop  *)
(* event or for the event that the subscription signals, takes the events  *)
(* in blocks and prints them one by one.                                   *)
(*                                                                         *)
(* An event is a record: whether it can be rendered, and the size of its   *)
(* message with the zero at its end, or 0 if the publisher or the message  *)
(* is not found.  One that has a size and cannot be rendered fails after   *)
(* its message was given room in the buffer.                               *)
(***************************************************************************)
EXTENDS Naturals, Sequences

CONSTANTS
  NumChannels,  \* the channels of the configuration are 1 .. NumChannels
  Tries,        \* intervals of WAIT_INTERVAL in waitInSeconds, 20 in the code
  ArraySize,    \* EVENT_ARRAY_SIZE, 10 in the code
  Events,       \* the events that are explored
  MaxEvents,    \* bound: events that arrive
  MaxOutages    \* bound: times the service goes up or down

ASSUME EventMonitorAssumption ==
  /\ NumChannels \in Nat /\ MaxEvents \in Nat /\ MaxOutages \in Nat
  /\ Tries \in Nat \ {0} /\ ArraySize \in Nat \ {0}
  /\ Events \subseteq [renders : BOOLEAN, size : Nat]

VARIABLES
  pc,        \* the call the monitor thread is about to make or is blocked in
  owner,     \* what the destructor has done
  stop,      \* m_stopEvent
  faulty,    \* TRUE iff calls of the operating system may fail
  oldest,    \* m_startAtOldestRecord
  channel,   \* eventChannel, by its place in m_eventChannels
  elapsed,   \* elapsedTime of the channel, in intervals
  timer,     \* timerEvent of the channel: none, open or closed
  up,        \* the event log service answers
  outages,   \* how often this has changed
  enabled,   \* the enabled channels
  log,       \* the events of the enabled channels, as they arrive
  signal,    \* subscEvent
  first,     \* events before the subscription that it does not give
  next,      \* events given by EvtNext, or before the subscription
  block,     \* the part of hEvents not yet printed, by places in log
  buffer,    \* m_eventMessageBuffer: the event it was written for, size, capacity
  printed    \* the events printed, each with the event of its message

enabling == <<channel, elapsed, timer>>
reading == <<first, next, block, buffer, printed>>
service == <<up, outages, enabled, log>>
settings == <<faulty, oldest>>
control == <<owner, stop>>
vars == <<pc, control, settings, enabling, service, signal, reading>>

Channels == 1 .. NumChannels
None == "none"
AtLeast(x, y) == IF x > y THEN x ELSE y

Init ==
  /\ pc = "enable" /\ owner = "alive" /\ stop = FALSE
  /\ faulty \in BOOLEAN /\ oldest \in BOOLEAN
  /\ channel = 1 /\ elapsed = 0 /\ timer = None
  /\ up \in BOOLEAN /\ outages = 0 /\ enabled \in SUBSET Channels /\ log = <<>>
  /\ signal = FALSE /\ first = 0 /\ next = 0 /\ block = <<>>
  /\ buffer = [for |-> 0, size |-> 0, capacity |-> 0] /\ printed = <<>>

(***************************************************************************)
(* A step of the thread.  Once the destructor has given up, the object is  *)
(* freed and what the thread does is undefined: it is not followed.        *)
(***************************************************************************)
At(label) == pc = label /\ owner # "gave up"

-----------------------------------------------------------------------------
(***************************************************************************)
(* EnableEventLogChannels.  EnableEventLogChannel fails with               *)
(* RPC_S_SERVER_UNAVAILABLE when the service is down; any other failure    *)
(* leaves the channel as it is, and is not retried.                        *)
(***************************************************************************)
Enable ==
  \/ enabled' = enabled \cup {channel}
  \/ faulty /\ enabled' = enabled

NextChannel ==
  pc' = "enable" /\ channel' = channel + 1 /\ elapsed' = 0 /\ timer' = None

Enables ==
  /\ At("enable") /\ channel \in Channels /\ up
  /\ Enable /\ NextChannel
  /\ UNCHANGED <<control, settings, up, outages, log, signal, reading>>

CreatesTimer ==
  /\ At("enable") /\ channel \in Channels /\ ~up
  /\ pc' = "set" /\ timer' = "open"
  /\ UNCHANGED <<control, settings, channel, elapsed, service, signal, reading>>

CreateTimerFails ==
  /\ At("enable") /\ channel \in Channels /\ ~up /\ faulty
  /\ pc' = "subscribe"
  /\ UNCHANGED <<control, settings, enabling, service, signal, reading>>

EnabledAll ==
  /\ At("enable") /\ channel \notin Channels
  /\ pc' = "subscribe"
  /\ UNCHANGED <<control, settings, enabling, service, signal, reading>>

(***************************************************************************)
(* The loop that waits for the service ends when the time is over, when    *)
(* the timer cannot be set, or when the channel is enabled; the timer is   *)
(* closed at its end, although a wait that was stopped or has failed has   *)
(* closed it before.                                                       *)
(***************************************************************************)
SetsTimer ==
  /\ At("set") /\ elapsed < Tries /\ timer = "open"
  /\ pc' = "waiting"
  /\ UNCHANGED <<control, settings, enabling, service, signal, reading>>

SetTimerFails ==
  /\ At("set") /\ elapsed < Tries /\ (timer # "open" \/ faulty)
  /\ NextChannel
  /\ UNCHANGED <<control, settings, service, signal, reading>>

GivesUp ==
  /\ At("set") /\ elapsed >= Tries
  /\ NextChannel
  /\ UNCHANGED <<control, settings, service, signal, reading>>

(***************************************************************************)
(* The cases of the switch close the timer and leave the switch, not the   *)
(* loop: the channel is tried again in every case.                         *)
(***************************************************************************)
\* A mistake: the wait is taken up again without counting.
MutWaitSeesStop ==
  /\ At("waiting") /\ stop
  /\ pc' = "set"
  /\ UNCHANGED <<control, settings, enabling, service, signal, reading>>

WaitSeesStop ==
  /\ At("waiting") /\ stop
  /\ pc' = "retry" /\ timer' = "closed"
  /\ UNCHANGED <<control, settings, channel, elapsed, service, signal, reading>>

TimerRings ==
  /\ At("waiting") /\ ~stop
  /\ pc' = "retry"
  /\ UNCHANGED <<control, settings, enabling, service, signal, reading>>

WaitFails ==
  /\ At("waiting") /\ faulty
  /\ pc' = "retry" /\ timer' = "closed"
  /\ UNCHANGED <<control, settings, channel, elapsed, service, signal, reading>>

RetryEnables ==
  /\ At("retry") /\ up
  /\ Enable /\ NextChannel
  /\ UNCHANGED <<control, settings, up, outages, log, signal, reading>>

RetryFails ==
  /\ At("retry") /\ ~up
  /\ pc' = "set" /\ elapsed' = elapsed + 1
  /\ UNCHANGED <<control, settings, channel, timer, service, signal, reading>>

-----------------------------------------------------------------------------
(***************************************************************************)
(* StartEventMonitor.  subscEvent is created signalled, so that the events *)
(* before the subscription are read when they are wanted.                  *)
(***************************************************************************)
Subscribes ==
  /\ At("subscribe") /\ up
  /\ pc' = "wait" /\ signal' = TRUE
  /\ first' = IF oldest THEN 0 ELSE Len(log)
  /\ next' = first'
  /\ UNCHANGED <<control, settings, enabling, service, block, buffer, printed>>

SubscribeFails ==
  /\ At("subscribe") /\ (~up \/ faulty)
  /\ pc' = "done"
  /\ UNCHANGED <<control, settings, enabling, service, signal, reading>>

SeesStop ==
  /\ At("wait") /\ stop
  /\ pc' = "done"
  /\ UNCHANGED <<control, settings, enabling, service, signal, reading>>

SeesResults ==
  /\ At("wait") /\ ~stop /\ signal
  /\ pc' = "next"
  /\ UNCHANGED <<control, settings, enabling, service, signal, reading>>

LoopWaitFails ==
  /\ At("wait") /\ faulty
  /\ pc' = "done"
  /\ UNCHANGED <<control, settings, enabling, service, signal, reading>>

(***************************************************************************)
(* EnumerateResults: blocks of at most ArraySize events, until there are   *)
(* no more; any other error of EvtNext ends the thread.                    *)
(***************************************************************************)
\* A mistake: the size of the array is left out.
MutBlockLength == Len(log) - next

BlockLength ==
  IF Len(log) - next < ArraySize THEN Len(log) - next ELSE ArraySize

TakesBlock ==
  /\ At("next") /\ block = <<>> /\ next < Len(log)
  /\ block' = [i \in 1 .. BlockLength |-> next + i]
  /\ next' = next + BlockLength
  /\ UNCHANGED <<pc, control, settings, enabling, service, signal, first, buffer, printed>>

\* A mistake: one block is taken for each signal.
MutTakesNoMore ==
  /\ At("next") /\ block = <<>>
  /\ pc' = "reset"
  /\ UNCHANGED <<control, settings, enabling, service, signal, reading>>

TakesNoMore ==
  /\ At("next") /\ block = <<>> /\ next = Len(log)
  /\ pc' = "reset"
  /\ UNCHANGED <<control, settings, enabling, service, signal, reading>>

TakeFails ==
  /\ At("next") /\ block = <<>> /\ faulty
  /\ pc' = "done"
  /\ UNCHANGED <<control, settings, enabling, service, signal, reading>>

ResetsSignal ==
  /\ At("reset")
  /\ pc' = "wait" /\ signal' = FALSE
  /\ UNCHANGED <<control, settings, enabling, service, reading>>

-----------------------------------------------------------------------------
(***************************************************************************)
(* PrintEvent, for the next event of the block.  The message is written to *)
(* m_eventMessageBuffer, which is resized only if its capacity is too      *)
(* small: std::vector grows its capacity to one and a half of the old one  *)
(* at least.  The JSON form, which is the default, prints as much of the   *)
(* buffer as its size, and cuts a message that is longer without its zero. *)
(***************************************************************************)
Event == Head(block)
Prints == At("next") /\ block # <<>>

\* A mistake: the old message is kept when the capacity suffices.
MutBufferWith(e) ==
  IF buffer.capacity < log[e].size
  THEN [for |-> e, size |-> log[e].size,
        capacity |-> AtLeast(log[e].size, buffer.capacity + buffer.capacity \div 2)]
  ELSE buffer

BufferWith(e) ==
  IF buffer.capacity < log[e].size
  THEN [for |-> e, size |-> log[e].size,
        capacity |-> AtLeast(log[e].size, buffer.capacity + buffer.capacity \div 2)]
  ELSE [buffer EXCEPT !.for = e]

\* A mistake: a failure to render an event ends the block.
MutPrintFails ==
  /\ Prints /\ ~log[Event].renders
  /\ block' = <<>>
  /\ UNCHANGED <<pc, control, settings, enabling, service, signal, first, next, buffer, printed>>

PrintFails ==
  /\ Prints /\ ~log[Event].renders
  /\ buffer' = IF log[Event].size > 0 THEN BufferWith(Event) ELSE buffer
  /\ block' = Tail(block)
  /\ UNCHANGED <<pc, control, settings, enabling, service, signal, first, next, printed>>

PrintsMessage ==
  /\ Prints /\ log[Event].renders /\ log[Event].size > 0
  /\ buffer' = BufferWith(Event)
  /\ printed' = Append(printed, [event |-> Event, message |-> buffer'.for,
                                 cut |-> buffer'.size + 1 < log[Event].size])
  /\ block' = Tail(block)
  /\ UNCHANGED <<pc, control, settings, enabling, service, signal, first, next>>

(***************************************************************************)
(* An event without a message is printed with what the buffer holds.  To   *)
(* take the address of an empty buffer and read a string there is          *)
(* undefined; the program ends.                                            *)
(***************************************************************************)
PrintsOldMessage ==
  /\ Prints /\ log[Event].renders /\ log[Event].size = 0 /\ buffer.capacity > 0
  /\ printed' = Append(printed, [event |-> Event, message |-> buffer.for, cut |-> FALSE])
  /\ block' = Tail(block)
  /\ UNCHANGED <<pc, control, settings, enabling, service, signal, first, next, buffer>>

ReadsEmptyBuffer ==
  /\ Prints /\ log[Event].renders /\ log[Event].size = 0 /\ buffer.capacity = 0
  /\ pc' = "crashed"
  /\ UNCHANGED <<control, settings, enabling, service, signal, reading>>

Step == \/ Enables \/ CreatesTimer \/ CreateTimerFails \/ EnabledAll
        \/ SetsTimer \/ SetTimerFails \/ GivesUp
        \/ WaitSeesStop \/ TimerRings \/ WaitFails \/ RetryEnables \/ RetryFails
        \/ Subscribes \/ SubscribeFails \/ SeesStop \/ SeesResults \/ LoopWaitFails
        \/ TakesBlock \/ TakesNoMore \/ TakeFails \/ ResetsSignal
        \/ PrintFails \/ PrintsMessage \/ PrintsOldMessage \/ ReadsEmptyBuffer

-----------------------------------------------------------------------------
(***************************************************************************)
(* The destructor sets the stop event and waits five seconds; it then      *)
(* frees the object whether or not the thread has ended.                   *)
(***************************************************************************)
DestructorStops ==
  /\ owner = "alive" /\ owner' = "joining" /\ stop' = TRUE
  /\ UNCHANGED <<pc, settings, enabling, service, signal, reading>>

(* SetEvent fails: the object is freed with its thread running. *)
DestructorFails ==
  /\ owner = "alive" /\ faulty /\ owner' = "gave up"
  /\ UNCHANGED <<pc, stop, settings, enabling, service, signal, reading>>

DestructorEnds ==
  /\ owner = "joining"
  /\ owner' = IF pc = "done" THEN "joined" ELSE "gave up"
  /\ UNCHANGED <<pc, stop, settings, enabling, service, signal, reading>>

(***************************************************************************)
(* The event log service, as the monitor uses it: it goes up and down, and *)
(* an event of an enabled channel signals the subscription.  What it does  *)
(* after the thread has ended is left out.                                 *)
(***************************************************************************)
Running == pc \notin {"done", "crashed"} /\ owner # "gave up"

ServiceChanges ==
  /\ Running /\ outages < MaxOutages /\ outages' = outages + 1 /\ up' = ~up
  /\ UNCHANGED <<pc, control, settings, enabling, enabled, log, signal, reading>>

EventArrives ==
  /\ Running /\ up /\ enabled # {} /\ Len(log) < MaxEvents
  /\ \E e \in Events : log' = Append(log, e)
  /\ signal' = (signal \/ pc \in {"wait", "next", "reset"})
  /\ UNCHANGED <<pc, control, settings, enabling, up, outages, enabled, reading>>

Destructor == DestructorStops \/ DestructorFails \/ DestructorEnds

Next == Step \/ Destructor \/ ServiceChanges \/ EventArrives

(***************************************************************************)
(* The thread is scheduled and its timer rings; nobody else has to act.    *)
(***************************************************************************)
Spec == Init /\ [][Next]_vars
FairSpec == Spec /\ WF_vars(Step)

-----------------------------------------------------------------------------

(***************************************************************************)
(* Every variable has its type; a block fits hEvents.                      *)
(***************************************************************************)
TypeOK ==
  /\ pc \in {"enable", "set", "waiting", "retry", "subscribe", "wait", "next",
             "reset", "done", "crashed"}
  /\ owner \in {"alive", "joining", "joined", "gave up"} /\ stop \in BOOLEAN
  /\ faulty \in BOOLEAN /\ oldest \in BOOLEAN
  /\ channel \in 1 .. NumChannels + 1 /\ elapsed \in 0 .. Tries
  /\ timer \in {None, "open", "closed"}
  /\ up \in BOOLEAN /\ outages \in 0 .. MaxOutages /\ enabled \subseteq Channels
  /\ log \in Seq(Events) /\ Len(log) <= MaxEvents /\ signal \in BOOLEAN
  /\ first \in 0 .. next /\ next \in 0 .. Len(log)
  /\ block \in Seq(1 .. next) /\ Len(block) <= ArraySize
  /\ buffer \in [for : 0 .. next, size : Nat, capacity : Nat]
  /\ buffer.size <= buffer.capacity
  /\ printed \in Seq([event : 1 .. next, message : 1 .. next, cut : BOOLEAN])

(***************************************************************************)
(* Across blocks, signals and failed renderings, the events given by the   *)
(* subscription are printed once each and in their order, all but those    *)
(* that cannot be rendered, and the ones of the block are the next.        *)
(***************************************************************************)
PrintedInOrder ==
  /\ {printed[i].event : i \in 1 .. Len(printed)}
       = {e \in first + 1 .. next - Len(block) : log[e].renders}
  /\ \A i, j \in 1 .. Len(printed) : i < j => printed[i].event < printed[j].event
  /\ \A i \in 1 .. Len(block) : block[i] = next - Len(block) + i

(***************************************************************************)
(* The buffer outlives the event it was written for, and still an event    *)
(* that has a message is never printed with the message of another one.    *)
(* It is cut only if an earlier event has left a buffer with more capacity *)
(* than it needed, which holds this message and not at its size.           *)
(***************************************************************************)
MessagesMatch ==
  \A i \in 1 .. Len(printed) :
    LET p == printed[i] IN
    /\ log[p.event].size > 0 => p.message = p.event
    /\ p.cut => \E e \in 1 .. p.event - 1 :
                  log[e].size + 1 < log[p.event].size /\ log[e].size < buffer.capacity

(***************************************************************************)
(* The stop event ends the thread, also while it waits for the service.    *)
(***************************************************************************)
StopEndsThread == stop ~> pc \in {"done", "crashed"} \/ owner = "gave up"

(***************************************************************************)
(* An event that arrives before EvtNext has said that there are no more is *)
(* taken, with no need of another one.  One that arrives after this and    *)
(* before ResetEvent is not promised anything: its signal is erased.  Nor *)
(* is anything once the object is freed, whatever its thread may do.       *)
(***************************************************************************)
ArrivedIsTaken ==
  \A n \in 1 .. MaxEvents :
    pc \in {"wait", "next"} /\ signal /\ Len(log) >= n
      ~> next >= n \/ stop \/ pc \in {"done", "crashed"} \/ owner = "gave up"

=============================================================================
