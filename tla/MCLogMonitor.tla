---------------------------- MODULE MCLogMonitor ----------------------------
EXTENDS LogMonitor

\* Much output without control events, and two of these with little output.
LittleWithControls == [h \in Habits |-> IF h = "output" THEN 5 ELSE 1]
=============================================================================
