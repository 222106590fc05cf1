------------------------- MODULE EventMonitor_proofs -------------------------
(***************************************************************************)
(* Proofs of the invariants of EventMonitor, for any number of channels,   *)
(* tries and events, and every size of a block and of a message.           *)
(***************************************************************************)
EXTENDS EventMonitor, TLAPS

(***************************************************************************)
(* The type invariant by parts, and what the thread relies on while it     *)
(* waits for the service.                                                  *)
(***************************************************************************)
ControlOK ==
  /\ pc \in {"enable", "set", "waiting", "retry", "subscribe", "wait", "next",
             "reset", "done", "crashed"}
  /\ owner \in {"alive", "joining", "joined", "gave up"} /\ stop \in BOOLEAN
  /\ faulty \in BOOLEAN /\ oldest \in BOOLEAN /\ signal \in BOOLEAN
  /\ timer \in {None, "open", "closed"}
  /\ up \in BOOLEAN /\ outages \in 0 .. MaxOutages

WaitOK ==
  /\ channel \in 1 .. NumChannels + 1 /\ elapsed \in 0 .. Tries /\ enabled \subseteq Channels
  /\ pc \in {"set", "waiting", "retry"} => channel \in Channels
  /\ pc \in {"waiting", "retry"} => elapsed < Tries

LogOK ==
  /\ log \in Seq(Events) /\ Len(log) <= MaxEvents
  /\ next \in 0 .. Len(log) /\ first \in 0 .. next

BlockOK == block \in Seq(1 .. next) /\ Len(block) <= ArraySize

BufferOK ==
  /\ buffer \in [for : 0 .. next, size : Nat, capacity : Nat]
  /\ buffer.size <= buffer.capacity
  /\ buffer.capacity > 0 => buffer.for > 0

PrintedOK == printed \in Seq([event : 1 .. next, message : 1 .. next, cut : BOOLEAN])

Typed == ControlOK /\ WaitOK /\ LogOK /\ BlockOK /\ BufferOK /\ PrintedOK

LEMMA TypedIsTypeOK == Typed => TypeOK
  BY DEF Typed, TypeOK, ControlOK, WaitOK, LogOK, BlockOK, BufferOK, PrintedOK

LEMMA EventTyped ==
  ASSUME LogOK, NEW e \in 1 .. next
  PROVE  log[e].size \in Nat /\ log[e].renders \in BOOLEAN
<1>1. e \in 1 .. Len(log)
  BY DEF LogOK
<1>2. log[e] \in Events
  BY <1>1 DEF LogOK
<1> QED BY <1>2, EventMonitorAssumption

(***************************************************************************)
(* What is known of the buffer when it holds the message of event e.       *)
(***************************************************************************)
LEMMA BufferGrows ==
  ASSUME LogOK, BufferOK, NEW e \in 1 .. next, log[e].size > 0
  PROVE  /\ BufferWith(e) \in [for : {e}, size : Nat, capacity : Nat]
         /\ BufferWith(e).size <= BufferWith(e).capacity
         /\ buffer.capacity <= BufferWith(e).capacity /\ BufferWith(e).capacity > 0
         /\ IF buffer.capacity < log[e].size
            THEN BufferWith(e).size = log[e].size
            ELSE BufferWith(e).size = buffer.size /\ BufferWith(e).capacity = buffer.capacity
<1>1. log[e].size \in Nat
  BY EventTyped
<1>2. buffer.capacity \in Nat /\ buffer.size \in Nat /\ buffer.size <= buffer.capacity
  BY DEF BufferOK
<1>3. buffer.capacity \div 2 \in Nat
  BY <1>2
<1>4. CASE buffer.capacity < log[e].size
  <2> DEFINE c == AtLeast(log[e].size, buffer.capacity + buffer.capacity \div 2)
  <2>1. c \in Nat /\ log[e].size <= c /\ buffer.capacity <= c
    BY <1>1, <1>2, <1>3, <1>4 DEF AtLeast
  <2>2. BufferWith(e) = [for |-> e, size |-> log[e].size, capacity |-> c]
    BY <1>4 DEF BufferWith
  <2> HIDE DEF c
  <2> QED BY <1>1, <1>4, <2>1, <2>2
<1>5. CASE ~(buffer.capacity < log[e].size)
  <2>1. BufferWith(e) = [buffer EXCEPT !.for = e]
    BY <1>5 DEF BufferWith
  <2>2. buffer \in [for : Nat, size : Nat, capacity : Nat]
    BY DEF BufferOK, LogOK
  <2> QED BY <1>1, <1>2, <1>5, <2>1, <2>2
<1> QED BY <1>4, <1>5

(***************************************************************************)
(* What the thread takes and prints stays typed.                           *)
(***************************************************************************)
reader == <<log, first, next, block, buffer, printed>>
ReaderOK == LogOK /\ BlockOK /\ BufferOK /\ PrintedOK

LEMMA ReaderKept == ReaderOK /\ UNCHANGED reader => ReaderOK'
  BY DEF ReaderOK, LogOK, BlockOK, BufferOK, PrintedOK, reader

LEMMA HeadAndTail ==
  ASSUME LogOK, BlockOK, block # <<>>
  PROVE  /\ Event \in 1 .. next
         /\ Tail(block) \in Seq(1 .. next) /\ Len(Tail(block)) <= ArraySize
<1>1. block \in Seq(1 .. next) /\ Len(block) \in Nat /\ Len(block) > 0 /\ next \in Nat
  BY DEF BlockOK, LogOK
<1>2. block[1] \in 1 .. next /\ Event = block[1]
  BY <1>1 DEF Event
<1>3. Tail(block) \in Seq(1 .. next) /\ Len(Tail(block)) = Len(block) - 1
  BY <1>1
<1> QED BY <1>1, <1>2, <1>3, EventMonitorAssumption DEF BlockOK

LEMMA PrintsTyped ==
  ASSUME LogOK, PrintedOK,
         NEW e \in 1 .. next, NEW m \in 1 .. next, NEW c \in BOOLEAN,
         printed' = Append(printed, [event |-> e, message |-> m, cut |-> c]),
         next' = next
  PROVE  PrintedOK'
  BY DEF PrintedOK

LEMMA PrintSteps ==
  ASSUME ReaderOK, PrintFails \/ PrintsMessage \/ PrintsOldMessage
  PROVE  ReaderOK'
<1> USE DEF ReaderOK
<1>1. block # <<>> /\ block' = Tail(block) /\ UNCHANGED <<log, first, next>>
  BY DEF PrintFails, PrintsMessage, PrintsOldMessage, Prints, service
<1>2. LogOK' /\ BlockOK'
  BY <1>1, HeadAndTail DEF LogOK, BlockOK
<1>3. Event \in 1 .. next /\ log[Event].size \in Nat
  BY <1>1, HeadAndTail, EventTyped
<1>4. ASSUME buffer' = BufferWith(Event), log[Event].size > 0
      PROVE  BufferOK'
  <2> HIDE DEF Event
  <2>1. buffer' \in [for : {Event}, size : Nat, capacity : Nat] /\ buffer'.size <= buffer'.capacity
    BY <1>3, <1>4, BufferGrows
  <2>2. buffer'.for = Event /\ buffer' \in [for : 0 .. next, size : Nat, capacity : Nat]
    BY <1>3, <2>1 DEF LogOK
  <2> QED BY <1>1, <1>3, <2>1, <2>2 DEF BufferOK
<1>5. CASE PrintFails
  <2>1. BufferOK'
    BY <1>1, <1>3, <1>4, <1>5 DEF PrintFails, BufferOK
  <2>2. PrintedOK'
    BY <1>1, <1>5 DEF PrintFails, PrintedOK
  <2> QED BY <1>2, <2>1, <2>2
<1>6. CASE PrintsMessage
  <2>1. BufferOK' /\ buffer'.for = Event
    <3> HIDE DEF Event
    <3>1. BufferWith(Event) \in [for : {Event}, size : Nat, capacity : Nat]
      BY <1>3, <1>6, BufferGrows DEF PrintsMessage
    <3> QED BY <1>4, <1>6, <3>1 DEF PrintsMessage
  <2>2. PrintedOK'
    <3> DEFINE c == buffer'.size + 1 < log[Event].size
    <3> HIDE DEF Event
    <3>1. c \in BOOLEAN
      OBVIOUS
    <3>2. printed' = Append(printed, [event |-> Event, message |-> Event, cut |-> c])
      BY <1>6, <2>1 DEF PrintsMessage
    <3> HIDE DEF c
    <3> QED BY <1>1, <1>3, <3>1, <3>2, PrintsTyped
  <2> QED BY <1>2, <2>1, <2>2
<1>7. CASE PrintsOldMessage
  <2>1. BufferOK'
    BY <1>1, <1>7 DEF PrintsOldMessage, BufferOK
  <2>2. buffer.for \in 1 .. next
    BY <1>7 DEF PrintsOldMessage, BufferOK, LogOK
  <2>3. PrintedOK'
    BY <1>1, <1>3, <1>7, <2>2, PrintsTyped DEF PrintsOldMessage
  <2> QED BY <1>2, <2>1, <2>3
<1> QED BY <1>5, <1>6, <1>7

(***************************************************************************)
(* Nothing has been taken before the subscription, which is what lets it   *)
(* choose where to begin.                                                  *)
(***************************************************************************)
NothingTaken ==
  pc \in {"enable", "set", "waiting", "retry", "subscribe"} =>
    /\ first = 0 /\ next = 0 /\ block = <<>> /\ printed = <<>>
    /\ buffer = [for |-> 0, size |-> 0, capacity |-> 0]

TInv == ControlOK /\ WaitOK /\ ReaderOK /\ NothingTaken

LEMMA NextChannelTyped ==
  ASSUME channel \in Channels
  PROVE  channel + 1 \in 1 .. NumChannels + 1 /\ 0 \in 0 .. Tries
  BY EventMonitorAssumption DEF Channels

LEMMA TInvHolds == Spec => []TInv
<1> USE DEF TInv
<1>1. Init => TInv
  <2> SUFFICES ASSUME Init PROVE TInv
    OBVIOUS
  <2>1. ControlOK
    <3>1. outages \in 0 .. MaxOutages
      BY EventMonitorAssumption DEF Init
    <3>2. /\ pc = "enable" /\ owner = "alive" /\ stop = FALSE /\ signal = FALSE /\ timer = None
          /\ faulty \in BOOLEAN /\ oldest \in BOOLEAN /\ up \in BOOLEAN
      BY DEF Init
    <3> QED BY <3>1, <3>2 DEF ControlOK
  <2>1a. WaitOK
    <3>1. 1 \in 1 .. NumChannels + 1 /\ 0 \in 0 .. Tries
      BY EventMonitorAssumption
    <3>2. pc = "enable" /\ channel = 1 /\ elapsed = 0 /\ enabled \subseteq Channels
      BY DEF Init
    <3> QED BY <3>1, <3>2 DEF WaitOK
  <2>2. LogOK /\ BlockOK /\ PrintedOK /\ NothingTaken
    BY EventMonitorAssumption DEF Init, LogOK, BlockOK, PrintedOK, NothingTaken
  <2>3. BufferOK
    BY DEF Init, BufferOK
  <2> QED BY <2>1, <2>1a, <2>2, <2>3 DEF ReaderOK
<1>2. TInv /\ [Next]_vars => TInv'
  <2> SUFFICES ASSUME TInv, [Next]_vars PROVE TInv'
    OBVIOUS
  <2> USE DEF control, settings, service, reading
  <2> DEFINE Enabling == \/ Enables \/ CreatesTimer \/ CreateTimerFails \/ EnabledAll
                         \/ SetsTimer \/ SetTimerFails \/ GivesUp
                         \/ WaitSeesStop \/ TimerRings \/ WaitFails
                         \/ RetryEnables \/ RetryFails
  <2>1. CASE Enabling
    <3> USE DEF enabling, At
    <3>1. ReaderOK' /\ NothingTaken'
      <4>1. UNCHANGED reader
        BY <2>1 DEF reader, Enables, CreatesTimer, CreateTimerFails, EnabledAll, SetsTimer,
             SetTimerFails, GivesUp, WaitSeesStop, TimerRings, WaitFails, RetryEnables, RetryFails
      <4>2. pc \in {"enable", "set", "waiting", "retry", "subscribe"}
        BY <2>1 DEF Enables, CreatesTimer, CreateTimerFails, EnabledAll, SetsTimer,
             SetTimerFails, GivesUp, WaitSeesStop, TimerRings, WaitFails, RetryEnables, RetryFails
      <4> QED BY <4>1, <4>2, ReaderKept DEF NothingTaken, reader
    <3>2. CASE Enables \/ RetryEnables
      <4>1. channel \in Channels /\ enabled' \subseteq Channels
        BY <3>2 DEF WaitOK, Enables, RetryEnables, Enable
      <4>2. pc' = "enable" /\ channel' = channel + 1 /\ elapsed' = 0
        BY <3>2 DEF Enables, RetryEnables, NextChannel
      <4>2a. WaitOK'
        BY <4>1, <4>2, NextChannelTyped DEF WaitOK
      <4>3. ControlOK'
        BY <3>2 DEF ControlOK, Enables, RetryEnables, NextChannel
      <4> QED BY <3>1, <4>2a, <4>3
    <3>3. CASE CreatesTimer \/ CreateTimerFails \/ EnabledAll
      BY <3>1, <3>3 DEF ControlOK, WaitOK, CreatesTimer, CreateTimerFails, EnabledAll
    <3>4. CASE SetTimerFails \/ GivesUp
      <4>1. channel \in Channels
        BY <3>4 DEF WaitOK, SetTimerFails, GivesUp
      <4>2. pc' = "enable" /\ channel' = channel + 1 /\ elapsed' = 0 /\ enabled' = enabled
        BY <3>4 DEF SetTimerFails, GivesUp, NextChannel
      <4>2a. WaitOK'
        BY <4>1, <4>2, NextChannelTyped DEF WaitOK
      <4>3. ControlOK'
        BY <3>4 DEF ControlOK, SetTimerFails, GivesUp, NextChannel
      <4> QED BY <3>1, <4>2a, <4>3
    <3>5. CASE SetsTimer \/ WaitSeesStop \/ TimerRings \/ WaitFails
      BY <3>1, <3>5 DEF ControlOK, WaitOK, SetsTimer, WaitSeesStop, TimerRings, WaitFails
    <3>6. CASE RetryFails
      <4>1. elapsed \in 0 .. Tries /\ elapsed < Tries /\ elapsed' = elapsed + 1
        BY <3>6 DEF WaitOK, RetryFails
      <4>2. elapsed' \in 0 .. Tries
        BY <4>1, EventMonitorAssumption
      <4> QED BY <3>1, <3>6, <4>2 DEF ControlOK, WaitOK, RetryFails
    <3> QED BY <2>1, <3>2, <3>3, <3>4, <3>5, <3>6
  <2>2. CASE Subscribes
    <3>1. ControlOK' /\ WaitOK' /\ NothingTaken'
      BY <2>2 DEF ControlOK, WaitOK, NothingTaken, Subscribes, enabling, At
    <3>2. Len(log) \in Nat /\ first' \in 0 .. Len(log)
      BY <2>2 DEF Subscribes, ReaderOK, LogOK
    <3>3. LogOK'
      BY <2>2, <3>2 DEF Subscribes, ReaderOK, LogOK
    <3>4. /\ block' = <<>> /\ printed' = <<>>
          /\ buffer' = [for |-> 0, size |-> 0, capacity |-> 0]
      BY <2>2 DEF Subscribes, NothingTaken, At
    <3>5. next' \in Nat
      BY <3>3 DEF LogOK
    <3>6. BlockOK' /\ BufferOK' /\ PrintedOK'
      BY <3>4, <3>5, EventMonitorAssumption DEF BlockOK, BufferOK, PrintedOK
    <3> QED BY <3>1, <3>3, <3>6 DEF ReaderOK
  <2>3. CASE SubscribeFails \/ SeesStop \/ SeesResults \/ LoopWaitFails
               \/ TakesNoMore \/ TakeFails \/ ResetsSignal \/ ReadsEmptyBuffer
    <3>1. UNCHANGED reader
      BY <2>3 DEF reader, SubscribeFails, SeesStop, SeesResults, LoopWaitFails, TakesNoMore,
           TakeFails, ResetsSignal, ReadsEmptyBuffer
    <3>2. pc' \in {"wait", "next", "reset", "done", "crashed"} /\ UNCHANGED <<control, enabling, service>>
      BY <2>3 DEF SubscribeFails, SeesStop, SeesResults, LoopWaitFails, TakesNoMore, TakeFails,
           ResetsSignal, ReadsEmptyBuffer
    <3>3. UNCHANGED settings /\ signal' \in BOOLEAN
      BY <2>3 DEF ControlOK, SubscribeFails, SeesStop, SeesResults, LoopWaitFails, TakesNoMore,
           TakeFails, ResetsSignal, ReadsEmptyBuffer
    <3>4. ControlOK' /\ WaitOK' /\ NothingTaken'
      BY <3>2, <3>3 DEF ControlOK, WaitOK, NothingTaken, enabling
    <3> QED BY <3>1, <3>4, ReaderKept
  <2>4. CASE TakesBlock
    <3>1. ControlOK' /\ WaitOK' /\ NothingTaken'
      BY <2>4 DEF ControlOK, WaitOK, NothingTaken, TakesBlock, enabling, At
    <3>2. /\ next \in Nat /\ Len(log) \in Nat /\ BlockLength \in 1 .. ArraySize
          /\ next + BlockLength <= Len(log)
      BY <2>4, EventMonitorAssumption DEF TakesBlock, ReaderOK, LogOK, BlockLength
    <3> HIDE DEF BlockLength
    <3>3. LogOK' /\ next' \in Nat /\ next <= next' /\ next' = next + BlockLength
      BY <2>4, <3>2 DEF TakesBlock, ReaderOK, LogOK
    <3>4. block' \in Seq(1 .. next') /\ Len(block') = BlockLength
      BY <2>4, <3>2, <3>3 DEF TakesBlock
    <3>5. BlockOK'
      BY <3>2, <3>4, EventMonitorAssumption DEF BlockOK
    <3>6. BufferOK'
      BY <2>4, <3>2, <3>3 DEF TakesBlock, ReaderOK, BufferOK
    <3>7. PrintedOK'
      <4>1. printed' = printed /\ printed \in Seq([event : 1 .. next, message : 1 .. next, cut : BOOLEAN])
        BY <2>4 DEF TakesBlock, ReaderOK, PrintedOK
      <4>2. 1 .. next \subseteq 1 .. next'
        BY <3>2, <3>3
      <4>3. [event : 1 .. next, message : 1 .. next, cut : BOOLEAN]
              \subseteq [event : 1 .. next', message : 1 .. next', cut : BOOLEAN]
        BY <4>2
      <4>4. \A S, T : S \subseteq T => Seq(S) \subseteq Seq(T)
        OBVIOUS
      <4> QED BY <4>1, <4>3, <4>4 DEF PrintedOK
    <3> QED BY <3>1, <3>3, <3>5, <3>6, <3>7 DEF ReaderOK
  <2>5. CASE PrintFails \/ PrintsMessage \/ PrintsOldMessage
    <3>1. pc' = pc /\ pc = "next" /\ UNCHANGED <<control, settings, enabling, service, signal>>
      BY <2>5 DEF PrintFails, PrintsMessage, PrintsOldMessage, Prints, At
    <3>2. ControlOK' /\ WaitOK' /\ NothingTaken'
      BY <3>1 DEF ControlOK, WaitOK, NothingTaken, enabling
    <3> QED BY <2>5, <3>2, PrintSteps
  <2>6. CASE Destructor \/ ServiceChanges
    <3>1. UNCHANGED reader
      BY <2>6 DEF reader, Destructor, DestructorStops, DestructorFails, DestructorEnds, ServiceChanges
    <3>2. ControlOK'
      <4>1. CASE Destructor
        BY <2>6, <4>1 DEF ControlOK, Destructor, DestructorStops, DestructorFails, DestructorEnds, enabling
      <4>2. CASE ServiceChanges
        <5>1. outages' \in 0 .. MaxOutages
          <6>1. outages \in 0 .. MaxOutages /\ outages < MaxOutages /\ outages' = outages + 1
            BY <4>2 DEF ControlOK, ServiceChanges
          <6> QED BY <6>1, EventMonitorAssumption
        <5> QED BY <4>2, <5>1 DEF ControlOK, ServiceChanges, enabling
      <4> QED BY <2>6, <4>1, <4>2
    <3>3. WaitOK' /\ NothingTaken'
      <4>1. UNCHANGED <<pc, enabling, enabled, reading>>
        BY <2>6 DEF Destructor, DestructorStops, DestructorFails, DestructorEnds, ServiceChanges, service
      <4>2. WaitOK'
        BY <4>1 DEF WaitOK, enabling
      <4>3. NothingTaken'
        BY <4>1 DEF NothingTaken, reading
      <4> QED BY <4>2, <4>3
    <3> QED BY <3>1, <3>2, <3>3, ReaderKept
  <2>7. CASE EventArrives
    <3>1. ControlOK' /\ WaitOK' /\ NothingTaken'
      <4>1. UNCHANGED <<pc, control, settings, enabling, up, outages, enabled, reading>>
        BY <2>7 DEF EventArrives
      <4>2. UNCHANGED <<owner, stop, faulty, oldest, channel, elapsed, timer>>
        BY <4>1 DEF control, settings, enabling
      <4>3. signal' \in BOOLEAN
        BY <2>7 DEF EventArrives, ControlOK
      <4>4. ControlOK'
        BY <4>1, <4>2, <4>3 DEF ControlOK
      <4>5. WaitOK'
        BY <4>1, <4>2 DEF WaitOK
      <4>6. NothingTaken'
        BY <4>1 DEF NothingTaken, reading
      <4> QED BY <4>4, <4>5, <4>6
    <3>2. PICK e \in Events : log' = Append(log, e)
      BY <2>7 DEF EventArrives
    <3>3. LogOK'
      BY <2>7, <3>2, EventMonitorAssumption DEF EventArrives, ReaderOK, LogOK
    <3>4. BlockOK' /\ BufferOK' /\ PrintedOK'
      <4>1. UNCHANGED <<next, block, buffer, printed>>
        BY <2>7 DEF EventArrives, reading
      <4>2. BlockOK' /\ BufferOK'
        BY <4>1 DEF ReaderOK, BlockOK, BufferOK
      <4>3. PrintedOK'
        BY <4>1 DEF ReaderOK, PrintedOK
      <4> QED BY <4>2, <4>3
    <3> QED BY <3>1, <3>3, <3>4 DEF ReaderOK
  <2>8. CASE UNCHANGED vars
    <3>1. ControlOK' /\ WaitOK' /\ NothingTaken' /\ UNCHANGED reader
      <4>1. ControlOK'
        <5>1. UNCHANGED <<pc, owner, stop, faulty, oldest, signal, timer, up, outages>>
          BY <2>8 DEF vars, enabling
        <5> QED BY <5>1 DEF ControlOK
      <4>2. WaitOK'
        <5>1. UNCHANGED <<pc, channel, elapsed, enabled>>
          BY <2>8 DEF vars, enabling, service
        <5> QED BY <5>1 DEF WaitOK
      <4>3. NothingTaken' /\ UNCHANGED reader
        BY <2>8 DEF vars, reader, NothingTaken
      <4> QED BY <4>1, <4>2, <4>3
    <3> QED BY <3>1, ReaderKept
  <2> QED
    BY <2>1, <2>2, <2>3, <2>4, <2>5, <2>6, <2>7, <2>8 DEF Next, Step
<1> QED BY <1>1, <1>2, PTL DEF Spec

(***************************************************************************)
(* Every variable keeps its type, and no block is longer than the array    *)
(* that EvtNext fills.                                                     *)
(***************************************************************************)
THEOREM TypeCorrect == Spec => []TypeOK
<1>1. TInv => TypeOK
  BY TypedIsTypeOK DEF TInv, Typed, ReaderOK
<1> QED BY <1>1, TInvHolds, PTL

(***************************************************************************)
(* The events of the block are the next ones, in order, and the size of    *)
(* the buffer is that of the message of an event before the block.         *)
(***************************************************************************)
BlockIsNext == \A i \in 1 .. Len(block) : block[i] = next - Len(block) + i

SizeFromLog ==
  buffer.capacity > 0 => \E d \in 1 .. next - Len(block) : buffer.size = log[d].size

Matches(p, capacity) ==
  /\ log[p.event].size > 0 => p.message = p.event
  /\ p.cut => \E e \in 1 .. p.event - 1 :
                log[e].size + 1 < log[p.event].size /\ log[e].size < capacity

PrintedMatch == \A i \in 1 .. Len(printed) : Matches(printed[i], buffer.capacity)

MInv == BlockIsNext /\ SizeFromLog /\ PrintedMatch

LEMMA LineTyped ==
  ASSUME LogOK, PrintedOK, NEW i \in 1 .. Len(printed)
  PROVE  printed[i].event \in 1 .. next /\ next \in Nat
<1> DEFINE R == [event : 1 .. next, message : 1 .. next, cut : BOOLEAN]
<1>1. printed \in Seq(R)
  BY DEF PrintedOK
<1>2. R \subseteq [event : 1 .. next, message : 1 .. next, cut : BOOLEAN]
  OBVIOUS
<1> HIDE DEF R
<1>3. printed[i] \in R
  BY <1>1
<1>4. next \in Nat
  BY DEF LogOK
<1> QED BY <1>2, <1>3, <1>4

\* Events that arrive change nothing for those that were taken.
LEMMA LogGrows ==
  ASSUME TInv, MInv, UNCHANGED <<next, block, buffer, printed>>,
         \A k \in 1 .. next : log'[k] = log[k]
  PROVE  MInv'
<1>1. BlockIsNext'
  BY DEF MInv, BlockIsNext
<1>2. SizeFromLog'
  <2>1. next \in Nat /\ Len(block) \in Nat
    BY DEF TInv, ReaderOK, LogOK, BlockOK
  <2> QED BY <2>1 DEF MInv, SizeFromLog
<1>3. PrintedMatch'
  <2> SUFFICES ASSUME NEW i \in 1 .. Len(printed)
               PROVE  Matches(printed[i], buffer.capacity)'
    BY DEF PrintedMatch
  <2>1. printed[i].event \in 1 .. next /\ next \in Nat
    BY LineTyped DEF TInv, ReaderOK
  <2>2. Matches(printed[i], buffer.capacity)
    BY DEF MInv, PrintedMatch
  <2>3. \A e \in 1 .. printed[i].event - 1 : e \in 1 .. next /\ log'[e] = log[e]
    BY <2>1
  <2>4. log'[printed[i].event] = log[printed[i].event]
    BY <2>1
  <2>5. printed'[i] = printed[i] /\ buffer'.capacity = buffer.capacity
    OBVIOUS
  <2> QED BY <2>2, <2>3, <2>4, <2>5 DEF Matches
<1> QED BY <1>1, <1>2, <1>3 DEF MInv

\* What is printed matches also for a greater capacity.
LEMMA CapacityGrows ==
  ASSUME TInv, PrintedMatch, NEW c \in Nat, buffer.capacity <= c,
         NEW i \in 1 .. Len(printed)
  PROVE  Matches(printed[i], c)
<1>1. printed[i].event \in 1 .. next /\ next \in Nat
  BY LineTyped DEF TInv, ReaderOK
<1>2. buffer.capacity \in Nat
  BY DEF TInv, ReaderOK, BufferOK, LogOK
<1>3. \A e \in 1 .. next : log[e].size \in Nat
  BY EventTyped DEF TInv, ReaderOK
<1>4. \A e \in 1 .. printed[i].event - 1 : log[e].size \in Nat
  BY <1>1, <1>3
<1>5. Matches(printed[i], buffer.capacity)
  BY DEF PrintedMatch
<1> QED BY <1>2, <1>4, <1>5 DEF Matches

\* After an event of the block is handled, whether it is printed or not.
LEMMA BlockShrinks ==
  ASSUME TInv, BlockIsNext, block # <<>>, block' = Tail(block), next' = next
  PROVE  /\ BlockIsNext' /\ Event = next - Len(block) + 1
         /\ next' - Len(block') = Event /\ Event \in 1 .. next
<1>1. block \in Seq(1 .. next) /\ Len(block) \in Nat /\ Len(block) > 0 /\ next \in Nat
  BY DEF TInv, ReaderOK, LogOK, BlockOK
<1>2. Len(block') = Len(block) - 1 /\ \A i \in 1 .. Len(block') : block'[i] = block[i + 1]
  BY <1>1
<1>3. Event = block[1] /\ block[1] \in 1 .. next
  BY <1>1 DEF Event
<1>4. Event = next - Len(block) + 1
  BY <1>1, <1>3 DEF BlockIsNext
<1>5. BlockIsNext'
  BY <1>1, <1>2 DEF BlockIsNext
<1> HIDE DEF Event
<1> QED BY <1>1, <1>2, <1>3, <1>4, <1>5

\* The size of the buffer, and what a cut message says, when it is written for an event.
LEMMA BufferFromLog ==
  ASSUME TInv, SizeFromLog, NEW e \in 1 .. next, log[e].size > 0, e = next - Len(block) + 1
  PROVE  /\ \E d \in 1 .. e : BufferWith(e).size = log[d].size
         /\ BufferWith(e).size + 1 < log[e].size =>
              \E d \in 1 .. e - 1 :
                log[d].size + 1 < log[e].size /\ log[d].size < BufferWith(e).capacity
<1> DEFINE b == BufferWith(e)
<1>1. /\ b.size \in Nat /\ b.capacity \in Nat
      /\ IF buffer.capacity < log[e].size
         THEN b.size = log[e].size
         ELSE b.size = buffer.size /\ b.capacity = buffer.capacity
  <2>1. b \in [for : {e}, size : Nat, capacity : Nat]
    BY BufferGrows DEF TInv, ReaderOK
  <2>2. b.size \in Nat /\ b.capacity \in Nat
    BY <2>1
  <2>3. IF buffer.capacity < log[e].size
        THEN b.size = log[e].size
        ELSE b.size = buffer.size /\ b.capacity = buffer.capacity
    BY BufferGrows DEF TInv, ReaderOK
  <2> QED BY <2>2, <2>3
<1> HIDE DEF b
<1>2. /\ next \in Nat /\ Len(block) \in Nat /\ buffer.capacity \in Nat
      /\ buffer.size \in Nat /\ log[e].size \in Nat
  BY EventTyped DEF TInv, ReaderOK, LogOK, BlockOK, BufferOK
<1>3. CASE buffer.capacity < log[e].size
  <2>1. e \in 1 .. e /\ b.size = log[e].size
    BY <1>1, <1>2, <1>3
  <2>2. ~(b.size + 1 < log[e].size)
    BY <1>2, <2>1
  <2> QED BY <2>1, <2>2 DEF b
<1>4. CASE ~(buffer.capacity < log[e].size)
  <2>1. b.size = buffer.size /\ b.capacity = buffer.capacity /\ buffer.capacity > 0
    BY <1>1, <1>2, <1>4
  <2>2. PICK d \in 1 .. next - Len(block) : buffer.size = log[d].size
    BY <2>1 DEF SizeFromLog
  <2>3. d \in 1 .. e - 1 /\ d \in 1 .. e
    BY <1>2, <2>2
  <2>4. b.size + 1 < log[e].size =>
          log[d].size + 1 < log[e].size /\ log[d].size < b.capacity
    BY <1>1, <1>2, <1>4, <2>1, <2>2
  <2>5. b.size = log[d].size
    BY <2>1, <2>2
  <2> QED BY <2>3, <2>4, <2>5 DEF b
<1> QED BY <1>3, <1>4

LEMMA LinesStayMatched ==
  ASSUME TInv, PrintedMatch, UNCHANGED <<log, printed>>,
         buffer'.capacity \in Nat, buffer.capacity <= buffer'.capacity
  PROVE  PrintedMatch'
  BY CapacityGrows DEF PrintedMatch, Matches

LEMMA LineMatches ==
  ASSUME TInv, PrintedMatch, log' = log,
         buffer'.capacity \in Nat, buffer.capacity <= buffer'.capacity,
         NEW r, printed' = Append(printed, r), Matches(r, buffer'.capacity)
  PROVE  PrintedMatch'
<1> SUFFICES ASSUME NEW i \in 1 .. Len(printed')
             PROVE  Matches(printed[i], buffer.capacity)'
  BY DEF PrintedMatch
<1>1. Len(printed) \in Nat /\ Len(printed') = Len(printed) + 1
  BY DEF TInv, ReaderOK, PrintedOK
<1>2. CASE i = Len(printed) + 1
  <2>1. printed'[i] = r
    BY <1>2 DEF TInv, ReaderOK, PrintedOK
  <2> QED BY <2>1 DEF Matches
<1>3. CASE i # Len(printed) + 1
  <2>1. i \in 1 .. Len(printed)
    BY <1>1, <1>3
  <2>2. printed'[i] = printed[i]
    BY <2>1 DEF TInv, ReaderOK, PrintedOK
  <2>3. Matches(printed[i], buffer'.capacity)
    BY <2>1, CapacityGrows
  <2> QED BY <2>2, <2>3 DEF Matches
<1> QED BY <1>2, <1>3

LEMMA PrintMatches ==
  ASSUME TInv, MInv, PrintFails \/ PrintsMessage \/ PrintsOldMessage
  PROVE  MInv'
<1>1. block # <<>> /\ block' = Tail(block) /\ UNCHANGED <<log, next>>
  BY DEF PrintFails, PrintsMessage, PrintsOldMessage, Prints, service
<1>2. /\ BlockIsNext' /\ Event = next - Len(block) + 1
      /\ next' - Len(block') = Event /\ Event \in 1 .. next
  BY <1>1, BlockShrinks DEF MInv
<1>3. buffer.capacity \in Nat /\ next \in Nat /\ Len(block) \in Nat
  BY DEF TInv, ReaderOK, LogOK, BlockOK, BufferOK
<1>4. ASSUME buffer' = BufferWith(Event), log[Event].size > 0
      PROVE  SizeFromLog' /\ buffer'.capacity \in Nat /\ buffer.capacity <= buffer'.capacity
  <2>1. BufferWith(Event) \in [for : {Event}, size : Nat, capacity : Nat]
    BY <1>2, <1>4, BufferGrows DEF TInv, ReaderOK
  <2>2. buffer.capacity <= BufferWith(Event).capacity
    BY <1>2, <1>4, BufferGrows DEF TInv, ReaderOK
  <2>3. BufferWith(Event).capacity \in Nat
    BY <2>1
  <2>4. \E d \in 1 .. Event : BufferWith(Event).size = log[d].size
    BY <1>2, <1>4, BufferFromLog DEF MInv
  <2>5. SizeFromLog'
    BY <1>1, <1>2, <1>4, <2>4 DEF SizeFromLog
  <2> QED BY <1>4, <2>2, <2>3, <2>5
<1>5. ASSUME buffer' = buffer
      PROVE  SizeFromLog' /\ buffer'.capacity \in Nat /\ buffer.capacity <= buffer'.capacity
  <2>1. SizeFromLog'
    <3> SUFFICES ASSUME buffer.capacity > 0
                 PROVE  \E d \in 1 .. Event : buffer.size = log[d].size
      BY <1>1, <1>2, <1>5 DEF SizeFromLog
    <3>1. PICK d \in 1 .. next - Len(block) : buffer.size = log[d].size
      BY DEF MInv, SizeFromLog
    <3>2. d \in 1 .. Event
      BY <1>2, <1>3, <3>1
    <3> QED BY <3>1, <3>2
  <2> QED BY <1>3, <1>5, <2>1
<1>6. CASE PrintFails
  <2>1. printed' = printed
    BY <1>6 DEF PrintFails
  <2>2. SizeFromLog' /\ buffer'.capacity \in Nat /\ buffer.capacity <= buffer'.capacity
    <3>1. CASE log[Event].size > 0
      BY <1>4, <1>6, <3>1 DEF PrintFails
    <3>2. CASE ~(log[Event].size > 0)
      BY <1>5, <1>6, <3>2 DEF PrintFails
    <3> QED BY <3>1, <3>2
  <2>3. PrintedMatch'
    BY <1>1, <2>1, <2>2, LinesStayMatched DEF MInv
  <2> QED BY <1>2, <2>2, <2>3 DEF MInv
<1>7. CASE PrintsMessage
  <2> DEFINE r == [event |-> Event, message |-> buffer'.for,
                   cut |-> buffer'.size + 1 < log[Event].size]
  <2>1. buffer' = BufferWith(Event) /\ log[Event].size > 0 /\ printed' = Append(printed, r)
    BY <1>7 DEF PrintsMessage
  <2>2. SizeFromLog' /\ buffer'.capacity \in Nat /\ buffer.capacity <= buffer'.capacity
    BY <1>4, <2>1
  <2>3. BufferWith(Event) \in [for : {Event}, size : Nat, capacity : Nat]
    BY <1>2, <2>1, BufferGrows DEF TInv, ReaderOK
  <2>4. buffer'.for = Event
    BY <2>1, <2>3
  <2>5. buffer'.size + 1 < log[Event].size =>
          \E d \in 1 .. Event - 1 :
            log[d].size + 1 < log[Event].size /\ log[d].size < buffer'.capacity
    BY <1>2, <2>1, BufferFromLog DEF MInv
  <2>6. Matches(r, buffer'.capacity)
    BY <2>4, <2>5 DEF Matches
  <2> HIDE DEF r
  <2>7. PrintedMatch'
    BY <1>1, <2>1, <2>2, <2>6, LineMatches DEF MInv
  <2> QED BY <1>2, <2>2, <2>7 DEF MInv
<1>8. CASE PrintsOldMessage
  <2> DEFINE r == [event |-> Event, message |-> buffer.for, cut |-> FALSE]
  <2>1. buffer' = buffer /\ log[Event].size = 0 /\ printed' = Append(printed, r)
    BY <1>8 DEF PrintsOldMessage
  <2>2. SizeFromLog' /\ buffer'.capacity \in Nat /\ buffer.capacity <= buffer'.capacity
    BY <1>5, <2>1
  <2>3. Matches(r, buffer'.capacity)
    BY <2>1 DEF Matches
  <2> HIDE DEF r
  <2>4. PrintedMatch'
    BY <1>1, <2>1, <2>2, <2>3, LineMatches DEF MInv
  <2> QED BY <1>2, <2>2, <2>4 DEF MInv
<1> QED BY <1>6, <1>7, <1>8

LEMMA MStep == TInv /\ MInv /\ [Next]_vars => MInv'
<1> SUFFICES ASSUME TInv, MInv, [Next]_vars PROVE MInv'
  OBVIOUS
<1>1. CASE PrintFails \/ PrintsMessage \/ PrintsOldMessage
  BY <1>1, PrintMatches
<1>2. CASE TakesBlock
  <2>1. /\ block = <<>> /\ block' = [i \in 1 .. BlockLength |-> next + i]
        /\ next' = next + BlockLength /\ UNCHANGED <<log, buffer, printed>>
    BY <1>2 DEF TakesBlock, service
  <2>2. next \in Nat /\ BlockLength \in Nat
    BY <1>2, EventMonitorAssumption DEF TakesBlock, BlockLength, TInv, ReaderOK, LogOK
  <2>3. Len(block') = BlockLength /\ \A i \in 1 .. Len(block') : block'[i] = next + i
    BY <2>1, <2>2
  <2>4. next' - Len(block') = next /\ next - Len(block) = next
    BY <2>1, <2>2, <2>3
  <2>5. BlockIsNext'
    BY <2>2, <2>3, <2>4 DEF BlockIsNext
  <2>6. SizeFromLog'
    BY <2>1, <2>4 DEF MInv, SizeFromLog
  <2>7. PrintedMatch'
    BY <2>1 DEF MInv, PrintedMatch, Matches
  <2> QED BY <2>5, <2>6, <2>7 DEF MInv
<1>3. CASE Subscribes
  <2>1. pc = "subscribe" /\ UNCHANGED <<block, buffer, printed>>
    BY <1>3 DEF Subscribes, At
  <2>2. block = <<>> /\ printed = <<>> /\ buffer = [for |-> 0, size |-> 0, capacity |-> 0]
    BY <2>1 DEF TInv, NothingTaken
  <2>3. buffer'.capacity = 0
    BY <2>1, <2>2
  <2> QED BY <2>1, <2>2, <2>3 DEF MInv, BlockIsNext, SizeFromLog, PrintedMatch
<1>4. CASE EventArrives
  <2>1. UNCHANGED <<next, block, buffer, printed>>
    BY <1>4 DEF EventArrives, reading
  <2>2. PICK e \in Events : log' = Append(log, e)
    BY <1>4 DEF EventArrives
  <2>3. \A k \in 1 .. next : log'[k] = log[k]
    BY <2>2 DEF TInv, ReaderOK, LogOK
  <2> QED BY <2>1, <2>3, LogGrows
<1>5. CASE UNCHANGED reader
  BY <1>5 DEF reader, MInv, BlockIsNext, SizeFromLog, PrintedMatch, Matches
<1>6. CASE \/ Enables \/ CreatesTimer \/ CreateTimerFails \/ EnabledAll
           \/ SetsTimer \/ SetTimerFails \/ GivesUp
           \/ WaitSeesStop \/ TimerRings \/ WaitFails \/ RetryEnables \/ RetryFails
  BY <1>5, <1>6
  DEF reader, reading, service, Enables, CreatesTimer, CreateTimerFails, EnabledAll,
      SetsTimer, SetTimerFails, GivesUp, WaitSeesStop, TimerRings, WaitFails,
      RetryEnables, RetryFails
<1>7. CASE \/ SubscribeFails \/ SeesStop \/ SeesResults \/ LoopWaitFails
           \/ TakesNoMore \/ TakeFails \/ ResetsSignal \/ ReadsEmptyBuffer
           \/ Destructor \/ ServiceChanges \/ UNCHANGED vars
  BY <1>5, <1>7
  DEF reader, reading, service, vars, SubscribeFails, SeesStop, SeesResults, LoopWaitFails,
      TakesNoMore, TakeFails, ResetsSignal, ReadsEmptyBuffer,
      Destructor, DestructorStops, DestructorFails, DestructorEnds, ServiceChanges
<1> QED BY <1>1, <1>2, <1>3, <1>4, <1>6, <1>7 DEF Next, Step

(***************************************************************************)
(* However the buffer is used again, an event that has a message is        *)
(* printed with its own, and a cut message is that of an event for which   *)
(* an earlier one has left a buffer of more capacity than it needed.       *)
(***************************************************************************)
THEOREM MessagesCorrect == Spec => []MessagesMatch
<1>1. Init => MInv
  BY DEF Init, MInv, BlockIsNext, SizeFromLog, PrintedMatch
<1>2. MInv => MessagesMatch
  BY DEF MInv, PrintedMatch, Matches, MessagesMatch
<1> QED BY <1>1, <1>2, MStep, TInvHolds, PTL DEF Spec

(***************************************************************************)
(* The events printed are those handled so far that can be rendered.       *)
(***************************************************************************)
EventsPrinted == {printed[i].event : i \in 1 .. Len(printed)}
Rendered == {e \in first + 1 .. next - Len(block) : log[e].renders}
Rising == \A i, j \in 1 .. Len(printed) : i < j => printed[i].event < printed[j].event

OInv == first <= next - Len(block) /\ EventsPrinted = Rendered /\ Rising

\* A line more, of an event after all those printed.
LEMMA LineRises ==
  ASSUME PrintedOK, Rising, NEW r, printed' = Append(printed, r),
         \A e \in EventsPrinted : e < r.event
  PROVE  Rising' /\ EventsPrinted' = EventsPrinted \cup {r.event}
<1>1. /\ Len(printed) \in Nat /\ Len(printed') = Len(printed) + 1
      /\ printed'[Len(printed) + 1] = r
      /\ \A i \in 1 .. Len(printed) : printed'[i] = printed[i]
  BY DEF PrintedOK
<1>2. \A i \in 1 .. Len(printed') : i \in 1 .. Len(printed) \/ i = Len(printed) + 1
  BY <1>1
<1>3. Rising'
  <2> SUFFICES ASSUME NEW i \in 1 .. Len(printed'), NEW j \in 1 .. Len(printed'), i < j
               PROVE  printed'[i].event < printed'[j].event
    BY DEF Rising
  <2>1. i \in 1 .. Len(printed)
    BY <1>1
  <2>2. CASE j \in 1 .. Len(printed)
    BY <1>1, <2>1, <2>2 DEF Rising
  <2>3. CASE j = Len(printed) + 1
    BY <1>1, <2>1, <2>3 DEF EventsPrinted
  <2> QED BY <1>2, <2>2, <2>3
<1>4. EventsPrinted' = EventsPrinted \cup {r.event}
  <2>1. EventsPrinted' \subseteq EventsPrinted \cup {r.event}
    BY <1>1, <1>2 DEF EventsPrinted
  <2>2. Len(printed) + 1 \in 1 .. Len(printed') /\ 1 .. Len(printed) \subseteq 1 .. Len(printed')
    BY <1>1
  <2>3. EventsPrinted \cup {r.event} \subseteq EventsPrinted'
    BY <1>1, <2>2 DEF EventsPrinted
  <2> QED BY <2>1, <2>3
<1> QED BY <1>3, <1>4

LEMMA PrintOrders ==
  ASSUME TInv, MInv, OInv, PrintFails \/ PrintsMessage \/ PrintsOldMessage
  PROVE  OInv'
<1>1. block # <<>> /\ block' = Tail(block) /\ UNCHANGED <<log, first, next>>
  BY DEF PrintFails, PrintsMessage, PrintsOldMessage, Prints, service
<1>2. /\ next' - Len(block') = Event /\ Event = next - Len(block) + 1
      /\ Event \in 1 .. next
  BY <1>1, BlockShrinks DEF MInv
<1>3. first \in Nat /\ next \in Nat /\ Len(block) \in Nat
  BY DEF TInv, ReaderOK, LogOK, BlockOK
<1> HIDE DEF Event
<1>4. first' <= next' - Len(block') /\ first + 1 <= Event
  BY <1>1, <1>2, <1>3 DEF OInv
<1>5. Rendered' = Rendered \cup (IF log[Event].renders THEN {Event} ELSE {})
  <2>1. first' + 1 .. next' - Len(block') = (first + 1 .. next - Len(block)) \cup {Event}
    BY <1>1, <1>2, <1>3, <1>4
  <2> QED BY <1>1, <2>1 DEF Rendered
<1>6. \A e \in EventsPrinted : e < Event
  BY <1>2, <1>3 DEF OInv, Rendered
<1>7. CASE PrintFails
  <2>1. printed' = printed /\ ~log[Event].renders
    BY <1>7 DEF PrintFails
  <2> QED BY <1>4, <1>5, <2>1 DEF OInv, EventsPrinted, Rising
<1>8. CASE PrintsMessage \/ PrintsOldMessage
  <2>1. /\ log[Event].renders
        /\ \E r : printed' = Append(printed, r) /\ r.event = Event
    BY <1>8 DEF PrintsMessage, PrintsOldMessage
  <2>2. Rising' /\ EventsPrinted' = EventsPrinted \cup {Event}
    BY <1>6, <2>1, LineRises DEF OInv, TInv, ReaderOK
  <2> QED BY <1>4, <1>5, <2>1, <2>2 DEF OInv
<1> QED BY <1>7, <1>8

LEMMA OStep == TInv /\ MInv /\ OInv /\ [Next]_vars => OInv'
<1> SUFFICES ASSUME TInv, MInv, OInv, [Next]_vars PROVE OInv'
  OBVIOUS
<1>1. CASE PrintFails \/ PrintsMessage \/ PrintsOldMessage
  BY <1>1, PrintOrders
<1>2. CASE TakesBlock
  <2>1. /\ block = <<>> /\ block' = [i \in 1 .. BlockLength |-> next + i]
        /\ next' = next + BlockLength /\ UNCHANGED <<log, first, printed>>
    BY <1>2 DEF TakesBlock, service
  <2>2. next \in Nat /\ BlockLength \in Nat
    BY <1>2, EventMonitorAssumption DEF TakesBlock, BlockLength, TInv, ReaderOK, LogOK
  <2>3. Len(block') = BlockLength /\ Len(block) = 0
    BY <2>1, <2>2
  <2>4. next' - Len(block') = next - Len(block)
    BY <2>1, <2>2, <2>3
  <2>5. first <= next - Len(block) /\ EventsPrinted = Rendered /\ Rising
    BY DEF OInv
  <2>6. first' <= next' - Len(block') /\ Rendered' = Rendered
    BY <2>1, <2>4, <2>5 DEF Rendered
  <2>7. EventsPrinted' = EventsPrinted /\ Rising'
    BY <2>1, <2>5 DEF EventsPrinted, Rising
  <2> QED BY <2>5, <2>6, <2>7 DEF OInv
<1>3. CASE Subscribes
  <2>1. pc = "subscribe" /\ UNCHANGED <<block, printed, log>> /\ next' = first'
    BY <1>3 DEF Subscribes, At, service
  <2>2. block = <<>> /\ printed = <<>>
    BY <2>1 DEF TInv, NothingTaken
  <2>3. first' \in Nat
    BY <1>3 DEF Subscribes, TInv, ReaderOK, LogOK
  <2>4. Len(block') = 0 /\ Len(printed') = 0
    BY <2>1, <2>2
  <2>5. next' - Len(block') = first' /\ 1 .. Len(printed') = {}
    <3>1. \A m \in Nat : \A n : n = m => n - 0 = m
      OBVIOUS
    <3>2. next' - 0 = first'
      BY <2>1, <2>3, <3>1
    <3>3. 1 .. 0 = {}
      OBVIOUS
    <3> QED BY <2>4, <3>2, <3>3
  <2>6. Rendered' = {} /\ EventsPrinted' = {} /\ Rising'
    BY <2>3, <2>5 DEF Rendered, EventsPrinted, Rising
  <2> QED BY <2>3, <2>5, <2>6 DEF OInv
<1>4. CASE EventArrives
  <2>1. UNCHANGED <<first, next, block, printed>>
    BY <1>4 DEF EventArrives, reading
  <2>2. \A k \in 1 .. next : log'[k] = log[k]
    <3>1. PICK e \in Events : log' = Append(log, e)
      BY <1>4 DEF EventArrives
    <3> QED BY <3>1 DEF TInv, ReaderOK, LogOK
  <2>3. first + 1 .. next - Len(block) \subseteq 1 .. next
    BY DEF TInv, ReaderOK, LogOK, BlockOK
  <2> QED BY <2>1, <2>2, <2>3 DEF OInv, EventsPrinted, Rendered, Rising
<1>5. CASE UNCHANGED reader
  BY <1>5 DEF reader, OInv, EventsPrinted, Rendered, Rising
<1>6. CASE \/ Enables \/ CreatesTimer \/ CreateTimerFails \/ EnabledAll
           \/ SetsTimer \/ SetTimerFails \/ GivesUp
           \/ WaitSeesStop \/ TimerRings \/ WaitFails \/ RetryEnables \/ RetryFails
  BY <1>5, <1>6
  DEF reader, reading, service, Enables, CreatesTimer, CreateTimerFails, EnabledAll,
      SetsTimer, SetTimerFails, GivesUp, WaitSeesStop, TimerRings, WaitFails,
      RetryEnables, RetryFails
<1>7. CASE \/ SubscribeFails \/ SeesStop \/ SeesResults \/ LoopWaitFails
           \/ TakesNoMore \/ TakeFails \/ ResetsSignal \/ ReadsEmptyBuffer
           \/ Destructor \/ ServiceChanges \/ UNCHANGED vars
  BY <1>5, <1>7
  DEF reader, reading, service, vars, SubscribeFails, SeesStop, SeesResults, LoopWaitFails,
      TakesNoMore, TakeFails, ResetsSignal, ReadsEmptyBuffer,
      Destructor, DestructorStops, DestructorFails, DestructorEnds, ServiceChanges
<1> QED BY <1>1, <1>2, <1>3, <1>4, <1>6, <1>7 DEF Next, Step

(***************************************************************************)
(* Across blocks, signals and events that cannot be rendered, the events   *)
(* of the subscription are printed once each and in their order.           *)
(***************************************************************************)
THEOREM OrderCorrect == Spec => []PrintedInOrder
<1>1. Init => MInv
  BY DEF Init, MInv, BlockIsNext, SizeFromLog, PrintedMatch
<1>2. Init => OInv
  BY DEF Init, OInv, EventsPrinted, Rendered, Rising
<1>3. MInv /\ OInv => PrintedInOrder
  BY DEF MInv, BlockIsNext, OInv, EventsPrinted, Rendered, Rising, PrintedInOrder
<1> QED BY <1>1, <1>2, <1>3, MStep, OStep, TInvHolds, PTL DEF Spec
=============================================================================
