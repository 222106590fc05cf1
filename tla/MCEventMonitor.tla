--------------------------- MODULE MCEventMonitor ---------------------------
(***************************************************************************)
(* EventMonitor with a few kinds of events, for TLC.                       *)
(***************************************************************************)
EXTENDS EventMonitor

Fails(n) == [renders |-> FALSE, size |-> n]
Bare == [renders |-> TRUE, size |-> 0]
Message(n) == [renders |-> TRUE, size |-> n]

\* An event without a message, and messages of which the last is cut where the second
\* has grown the capacity from that of the first, though the second is not rendered.
SomeEvents == {Message(6), Fails(7), Message(9), Bare}
=============================================================================
