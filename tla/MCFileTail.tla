----------------------------- MODULE MCFileTail -----------------------------
(***************************************************************************)
(* FileTail on one subdirectory with two or three names, for TLC.          *)
(***************************************************************************)
EXTENDS FileTail

Folders == {"x", "y"}
Bases == {"a", "b", "z"}

(* The file a has a short form of its own; the other names are short already. *)
ShortForm == [n \in Name |-> IF n[2] = "a" THEN <<n[1], "a~">> ELSE n]

(* The filter leaves out z. *)
Filter == {<<d, b>> : d \in Folder, b \in {"a", "b", "a~"}}

Plain == [reuse |-> "never", overflows |-> FALSE, locks |-> FALSE, late |-> FALSE,
          short |-> FALSE, early |-> FALSE]

(* Three kinds of applications, all of which begin while the monitor starts. *)
AllHabits ==
  {[Plain EXCEPT !.early = TRUE, !.overflows = TRUE, !.late = TRUE],
   [Plain EXCEPT !.early = TRUE, !.locks = TRUE],
   [Plain EXCEPT !.early = TRUE, !.reuse = "deleted", !.short = TRUE]}

PlainHabits == {Plain}
ExistingFile == <<"x", "a">>
=============================================================================
