------------------------------ MODULE MCDirWait ------------------------------
(***************************************************************************)
(* DirWait with an interval of three seconds, for TLC.                     *)
(***************************************************************************)
EXTENDS DirWait

\* No wait, less than an interval, an interval, and more than one or two.
SomeWaits == {0, 2, 3, 5, 7}
=============================================================================
