---------------------------- MODULE EventChannel ----------------------------
(***************************************************************************)
(* What the queue between the two threads of a LogFileMonitor promises,    *)
(* without threads, locks or events: a first-in first-out channel.  An     *)
(* event is delivered at most once and in the order of posting, and none   *)
(* is thrown away while the channel is open.  Once the monitor has been    *)
(* told to stop, the events still under way may be discarded together.     *)
(***************************************************************************)
EXTENDS Sequences

CONSTANT Event

VARIABLES
  inFlight,    \* the events posted and not delivered, oldest first
  delivered,   \* the events delivered so far, in order
  open         \* FALSE once the monitor has been told to stop

vars == <<inFlight, delivered, open>>

Init ==
  /\ inFlight = <<>>
  /\ delivered = <<>>
  /\ open = TRUE

Post ==
  /\ \E e \in Event : inFlight' = Append(inFlight, e)
  /\ UNCHANGED <<delivered, open>>

Deliver ==
  /\ inFlight # <<>>
  /\ delivered' = Append(delivered, Head(inFlight))
  /\ inFlight' = Tail(inFlight)
  /\ UNCHANGED open

Shut ==
  /\ open' = FALSE
  /\ UNCHANGED <<inFlight, delivered>>

Discard ==
  /\ ~open
  /\ inFlight' = <<>>
  /\ UNCHANGED <<delivered, open>>

Next == Post \/ Deliver \/ Shut \/ Discard

Spec == Init /\ [][Next]_vars
=============================================================================
