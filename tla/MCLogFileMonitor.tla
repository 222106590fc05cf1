------------------------- MODULE MCLogFileMonitor -------------------------
(***************************************************************************)
(* LogFileMonitor on a small directory, for TLC.                           *)
(***************************************************************************)
EXTENDS LogFileMonitor

(* Four changes; the second and the last are of files the filter leaves out. *)
SomeMatching == {1, 3}
AllMatching == 1 .. MaxChanges
===========================================================================
