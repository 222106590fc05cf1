----------------------------- MODULE LineFormat -----------------------------
(***************************************************************************)
(* How a monitor fills the custom format of its source with the fields of  *)
(* a log entry (Utility::FormatEventLineLog): a window moves over the      *)
(* format until a percent sign stands at each of its ends, and what is     *)
(* between them is replaced.                                               *)
(*                                                                         *)
(* A text is a sequence of characters, where "text" stands for any other   *)
(* character, "json" for the four letters, in any case, and "escaped" for  *)
(* a quote behind a backslash.                                             *)
(***************************************************************************)
EXTENDS Naturals, Sequences, SequencesExt, Selections

CONSTANT Entry    \* the fields of a log entry: texts by their names

VARIABLES
  scan,     \* what FormatEventLineLog does
  format,   \* the argument customLogFormat
  text,     \* customLogFormat, as it is filled
  i, j,     \* the window: from i to just before j
  isJson    \* customJsonFormat

formatting == <<scan, format, text, i, j, isJson>>

Characters == {"text", "json", "%", "'", "|", "~", "quote", "escaped"}

ASSUME LineFormatAssumption ==
  \A name \in DOMAIN Entry : name \in Seq(Characters) /\ Entry[name] \in Seq(Characters)

FormatInit ==
  /\ scan = "idle" /\ format = <<>> /\ text = <<>> /\ i = 1 /\ j = 2 /\ isJson = FALSE

-----------------------------------------------------------------------------
(***************************************************************************)
(* EventFieldsMapping and its like: a name that is not known has no text.  *)
(***************************************************************************)
FieldsMapping(name) == IF name \in DOMAIN Entry THEN Entry[name] ELSE <<>>

ReplaceEach(s, c, by) ==
  Joined([n \in 1 .. Len(s) |-> IF s[n] = c THEN by ELSE <<s[n]>>], Len(s))

\* A quote is escaped, whoever wrote it.
SanitizeJson(s) == ReplaceEach(s, "quote", <<"escaped">>)

(***************************************************************************)
(* IsCustomJsonFormat: what follows the last bar is cut off, whatever it   *)
(* is; if it says JSON, the quotes of the format become double quotes      *)
(* behind a tilde.                                                         *)
(***************************************************************************)
LastBar(s) == CHOOSE n \in 1 .. Len(s) : s[n] = "|" /\ \A k \in n + 1 .. Len(s) : s[k] # "|"
HasBar(s) == Contains(s, "|")
IsCustomJsonFormat(s) == HasBar(s) /\ SubSeq(s, LastBar(s) + 1, Len(s)) = <<"json">>

\* A mistake: the suffix is left in the format.
MutBody(s) == IF IsCustomJsonFormat(s) THEN ReplaceEach(s, "'", <<"~", "quote">>) ELSE s

Body(s) ==
  LET cut == IF HasBar(s) THEN SubSeq(s, 1, LastBar(s) - 1) ELSE s
  IN IF IsCustomJsonFormat(s) THEN ReplaceEach(cut, "'", <<"~", "quote">>) ELSE cut

Formats(s) ==
  /\ scan = "idle"
  /\ scan' = "scan" /\ format' = s
  /\ text' = Body(s) /\ i' = 1 /\ j' = 2 /\ isJson' = IsCustomJsonFormat(s)

(***************************************************************************)
(* A turn of the loop.  substr ends with the text: a window beyond the end *)
(* is the same as one that ends there.                                     *)
(***************************************************************************)
Sub == SubSeq(text, i, j - 1)
StartsWithPercent == text[i] = "%"
EndsWithPercent == Last(Sub) = "%"
Scanning == scan = "scan" /\ i <= Len(text)

MovesOn ==
  /\ Scanning /\ ~StartsWithPercent /\ ~EndsWithPercent
  /\ i' = i + 1 /\ j' = j + 1
  /\ UNCHANGED <<scan, format, text, isJson>>

\* A mistake: the window is put at the value and not behind it.
MutSubstitutes ==
  /\ Scanning /\ StartsWithPercent /\ EndsWithPercent /\ Len(Sub) > 1
  /\ LET value == FieldsMapping(SubSeq(Sub, 2, Len(Sub) - 1)) IN
     /\ text' = SubSeq(text, 1, i - 1) \o value \o SubSeq(text, i + Len(Sub), Len(text))
     /\ j' = i + 1
  /\ UNCHANGED <<scan, format, i, isJson>>

Substitutes ==
  /\ Scanning /\ StartsWithPercent /\ EndsWithPercent /\ Len(Sub) > 1
  /\ LET value == FieldsMapping(SubSeq(Sub, 2, Len(Sub) - 1)) IN
     /\ text' = SubSeq(text, 1, i - 1) \o value \o SubSeq(text, i + Len(Sub), Len(text))
     /\ i' = i + Len(value) /\ j' = i + Len(value) + 1
  /\ UNCHANGED <<scan, format, isJson>>

\* A mistake: the window is widened by two characters, past a percent sign.
MutWidens ==
  /\ Scanning
  /\ StartsWithPercent # EndsWithPercent \/ (StartsWithPercent /\ Len(Sub) = 1)
  /\ j' = IF j < Len(text) THEN j + 2 ELSE IF j = Len(text) THEN j + 1 ELSE j
  /\ UNCHANGED <<scan, format, text, i, isJson>>

\* Without a second percent sign, this goes on for ever.
Widens ==
  /\ Scanning
  /\ StartsWithPercent # EndsWithPercent \/ (StartsWithPercent /\ Len(Sub) = 1)
  /\ j' = IF j <= Len(text) THEN j + 1 ELSE j
  /\ UNCHANGED <<scan, format, text, i, isJson>>

ReturnsLine ==
  /\ scan = "scan" /\ i > Len(text)
  /\ scan' = "done" /\ text' = IF isJson THEN SanitizeJson(text) ELSE text
  /\ UNCHANGED <<format, i, j, isJson>>

FormatEventLineLog == MovesOn \/ Substitutes \/ Widens \/ ReturnsLine
-----------------------------------------------------------------------------

(***************************************************************************)
(* The line that a format asks for: the format, without its last bar and   *)
(* what follows it, in pairs of percent signs.  Of a pair and what is      *)
(* between them, the field of that name is left; the rest is as it was.    *)
(***************************************************************************)
Places(s, c) == {n \in 1 .. Len(s) : s[n] = c}
Paired(s) == \E k \in 0 .. Len(s) : Cardinality(Places(s, "%")) = 2 * k

Shown(s) == IF Places(s, "|") = {} THEN s ELSE SubSeq(s, 1, Max(Places(s, "|")) - 1)

Earlier(s, n) == {k \in Places(s, "%") : k < n}
Outside(s, n) == \E k \in 0 .. Len(s) : Cardinality(Earlier(s, n)) = 2 * k

Piece(s, n) ==
  CASE s[n] # "%" -> IF Outside(s, n) THEN <<s[n]>> ELSE <<>>
    [] OTHER -> IF Outside(s, n) THEN <<>>
                ELSE FieldsMapping(SubSeq(s, Max(Earlier(s, n)) + 1, n - 1))

Filled(s) == Joined([n \in 1 .. Len(s) |-> Piece(s, n)], Len(s))

Wanted(s) ==
  IF IsCustomJsonFormat(s)
  THEN SanitizeJson(Filled(ReplaceEach(Shown(s), "'", <<"~", "quote">>)))
  ELSE Filled(Shown(s))

FormatTypeOK ==
  /\ scan \in {"idle", "scan", "done"} /\ isJson \in BOOLEAN
  /\ format \in Seq(Characters) /\ text \in Seq(Characters)
  /\ i \in 1 .. Len(text) + 1 /\ j \in i + 1 .. Len(text) + 2
=============================================================================
