--------------------------- MODULE ProcessMonitor ---------------------------
(***************************************************************************)
(* The process that LogMonitor may run, and the thread that prints its     *)
(* output (ProcessMonitor.cpp): it reads the pipe that is the child's      *)
(* standard output, splits what it reads into lines and prints them.       *)
(* LogMonitor adds the threads that create and await the child.            *)
(*                                                                         *)
(* The output of the child is a sequence of symbols: a piece of text       *)
(* without ends of lines, an end of line (CR or LF), a zero byte, or a     *)
(* write of no bytes at all.                                               *)
(***************************************************************************)
EXTENDS Naturals, Sequences

CONSTANTS
  Symbols,    \* the symbols the child writes
  BufSize,    \* BUFSIZE, 4096 in the code
  PipeSize,   \* what the pipe holds
  Habits,     \* what goes on: much "output", or "controls" besides it
  MaxOutput   \* bound: symbols written by the child, for each habit

ASSUME ProcessMonitorAssumption ==
  /\ Symbols \subseteq {"text", "eol", "zero", "empty"}
  /\ BufSize \in Nat \ {0} /\ PipeSize \in Nat \ {0}
  /\ Habits \subseteq {"output", "controls"} /\ MaxOutput \in [Habits -> Nat]

VARIABLES
  habit,      \* one of Habits
  faulty,     \* TRUE iff calls of the operating system may fail
  child,      \* the child process; it may be immune to control-C
  childCtrl,  \* a control event is delivered to the child
  output,     \* what the child has written
  read,       \* how much of it the reader has read
  reader,     \* the thread of ReadFromPipe
  partial,    \* partialLine from start on, by places in output
  printed     \* the lines printed, by places in output

process == <<child, childCtrl, output>>
reading == <<read, reader, partial, printed>>

None == "none"

ProcessInit ==
  /\ child = None /\ childCtrl = FALSE /\ output = <<>>
  /\ read = 0 /\ reader = None /\ partial = <<>> /\ printed = <<>>

-----------------------------------------------------------------------------
(***************************************************************************)
(* The child and its pipe.  A full pipe blocks it.                         *)
(***************************************************************************)
ChildRuns == child \in {"running", "immune"}
PipeFull == Len(output) - read >= PipeSize

ChildWrites ==
  /\ ChildRuns /\ ~PipeFull /\ Len(output) < MaxOutput[habit]
  /\ \E s \in Symbols : output' = Append(output, s)
  /\ UNCHANGED <<child, childCtrl, reading>>

ChildExits ==
  /\ ChildRuns /\ child' = "exited"
  /\ UNCHANGED <<childCtrl, output, reading>>

ChildTakesCtrl ==
  /\ ChildRuns /\ childCtrl /\ childCtrl' = FALSE
  /\ child' \in {child, "exited"}
  /\ UNCHANGED <<output, reading>>

Child == ChildWrites \/ ChildExits \/ ChildTakesCtrl

-----------------------------------------------------------------------------
(***************************************************************************)
(* ReadFromPipe.  The pipe has no end: this process keeps its own handle   *)
(* to the write end.  ReadFile returns a part of what is in the pipe, or   *)
(* no bytes for a write of no bytes, which ends the thread.  A chunk is    *)
(* appended up to its first zero byte.                                     *)
(***************************************************************************)
Range(from, to) == [n \in 1 .. to - from + 1 |-> from + n - 1]
Reading == reader = "read"
NextIsEmpty == read < Len(output) /\ output[read + 1] = "empty"

\* The parts of the pipe that a ReadFile can return, by the place of their end.
Ends ==
  {n \in read + 1 .. Len(output) :
     n - read <= BufSize /\ \A i \in read + 1 .. n : output[i] # "empty"}

BeforeZero(n) ==
  CHOOSE z \in read .. n :
    /\ \A i \in read + 1 .. z : output[i] # "zero"
    /\ z = n \/ output[z + 1] = "zero"

\* A mistake: the thread ends when a chunk has no end of line.
MutReads ==
  /\ Reading
  /\ \E n \in Ends :
       /\ read' = n
       /\ partial' = partial \o Range(read + 1, BeforeZero(n))
       /\ reader' = IF \E i \in read + 1 .. n : output[i] = "eol" THEN "split" ELSE "last"
  /\ UNCHANGED <<process, printed>>

Reads ==
  /\ Reading
  /\ \E n \in Ends :
       /\ read' = n
       /\ partial' = partial \o Range(read + 1, BeforeZero(n))
       /\ reader' = "split"
  /\ UNCHANGED <<process, printed>>

ReadsNothing ==
  /\ Reading /\ NextIsEmpty
  /\ read' = read + 1 /\ reader' = "last"
  /\ UNCHANGED <<process, partial, printed>>

ReadFails ==
  /\ Reading /\ faulty
  /\ reader' = "last"
  /\ UNCHANGED <<process, read, partial, printed>>

(***************************************************************************)
(* The line before the first end of line is printed, and the ends of lines *)
(* that follow it in partialLine are skipped with it.                      *)
(***************************************************************************)
IsEol(n) == output[partial[n]] = "eol"
FirstEol == CHOOSE n \in 1 .. Len(partial) : IsEol(n) /\ \A i \in 1 .. n - 1 : ~IsEol(i)
HasEol == \E n \in 1 .. Len(partial) : IsEol(n)
AfterEols ==
  CHOOSE n \in FirstEol + 1 .. Len(partial) + 1 :
    /\ \A i \in FirstEol .. n - 1 : IsEol(i)
    /\ n > Len(partial) \/ ~IsEol(n)

Line == SubSeq(partial, 1, FirstEol - 1)

\* A mistake: one line is printed for each chunk.
MutPrintsLine ==
  /\ reader = "split" /\ HasEol
  /\ printed' = Append(printed, Line)
  /\ partial' = SubSeq(partial, AfterEols, Len(partial))
  /\ reader' = "read"
  /\ UNCHANGED <<process, read>>

PrintsLine ==
  /\ reader = "split" /\ HasEol
  /\ printed' = Append(printed, Line)
  /\ partial' = SubSeq(partial, AfterEols, Len(partial))
  /\ UNCHANGED <<process, read, reader>>

\* A mistake: the remainder is not kept.
MutKeepsRest ==
  /\ reader = "split" /\ ~HasEol
  /\ reader' = "read" /\ partial' = <<>>
  /\ UNCHANGED <<process, read, printed>>

KeepsRest ==
  /\ reader = "split" /\ ~HasEol
  /\ reader' = "read"
  /\ UNCHANGED <<process, read, partial, printed>>

PrintsRest ==
  /\ reader = "last"
  /\ reader' = "done"
  /\ printed' = IF partial = <<>> THEN printed ELSE Append(printed, partial)
  /\ partial' = <<>>
  /\ UNCHANGED <<process, read>>

ReadFromPipe == Reads \/ ReadsNothing \/ ReadFails \/ PrintsLine \/ KeepsRest \/ PrintsRest

-----------------------------------------------------------------------------

(***************************************************************************)
(* The types of the variables; a printed line holds no end of line.        *)
(***************************************************************************)
ProcessTypeOK ==
  LET text == {n \in 1 .. read : output[n] = "text"} IN
  /\ habit \in Habits /\ faulty \in BOOLEAN
  /\ child \in {None, "running", "immune", "exited"} /\ childCtrl \in BOOLEAN
  /\ output \in Seq(Symbols) /\ Len(output) <= MaxOutput[habit] /\ read \in 0 .. Len(output)
  /\ reader \in {None, "read", "split", "last", "done"}
  /\ partial \in Seq(1 .. read) /\ printed \in Seq(Seq(text))

(***************************************************************************)
(* The lines of the output: text between two ends of lines, of which the   *)
(* last may be a write of no bytes.                                        *)
(***************************************************************************)
Lines ==
  {Range(p[1], p[2]) : p \in
    {p \in (1 .. Len(output)) \X (1 .. Len(output)) :
       /\ p[1] <= p[2] /\ \A n \in p[1] .. p[2] : output[n] = "text"
       /\ p[1] = 1 \/ output[p[1] - 1] = "eol"
       /\ p[2] < Len(output) /\ output[p[2] + 1] # "text"}}
Clean == \A n \in 1 .. Len(output) : output[n] # "zero"
Ended(line) == output[line[Len(line)] + 1] = "eol"
Handled == IF partial = <<>> THEN read ELSE partial[1] - 1

(***************************************************************************)
(* However the output is cut into chunks, the lines that are printed are   *)
(* the lines the child wrote, whole, once each and in their order, as far  *)
(* as they were read; only the number of empty lines depends on the chunks.*)
(***************************************************************************)
LinesInOrder ==
  Clean /\ ~faulty =>
    /\ \A k \in 1 .. Len(printed) : printed[k] # <<>> => printed[k] \in Lines
    /\ \A j, k \in 1 .. Len(printed) :
         j < k /\ printed[j] # <<>> /\ printed[k] # <<>> => printed[j][1] < printed[k][1]
    /\ \A l \in Lines : Ended(l) /\ l[Len(l)] < Handled => \E k \in 1 .. Len(printed) : printed[k] = l
=============================================================================
