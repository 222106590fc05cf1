-------------------------- MODULE LogMonitor_proofs --------------------------
(***************************************************************************)
(* Proofs of the invariants of LogMonitor, for any output of the child,    *)
(* any sizes of the buffer and the pipe, and any number of control events. *)
(***************************************************************************)
EXTENDS LogMonitor, WellFoundedInduction, TLAPS

(***************************************************************************)
(* A set of natural numbers that is not empty has a least element.         *)
(***************************************************************************)
LEMMA LeastNumber ==
  ASSUME NEW S, S \subseteq Nat, S # {}
  PROVE  \E m \in S : \A k \in S : m <= k
<1> DEFINE Less == {ss \in Nat \X Nat : ss[1] < ss[2]}
<1>1. IsWellFoundedOn(Less, Nat)
  BY NatLessThanWellFounded DEF OpToRel
<1>2. \A x, y \in Nat : y < x => <<y, x>> \in Less
  OBVIOUS
<1> HIDE DEF Less
<1>3. \E m \in S : \A k \in S : ~(<<k, m>> \in Less)
  BY <1>1, WFMin
<1>4. \A x, y \in Nat : ~(y < x) => x <= y
  OBVIOUS
<1> QED BY <1>2, <1>3, <1>4

(***************************************************************************)
(* The first end of line of partialLine, and what follows the ends of      *)
(* lines that begin with it.                                               *)
(***************************************************************************)
LEMMA FirstEolIs ==
  ASSUME Len(partial) \in Nat, HasEol
  PROVE  /\ FirstEol \in 1 .. Len(partial) /\ IsEol(FirstEol)
         /\ \A i \in 1 .. FirstEol - 1 : ~IsEol(i)
<1> DEFINE S == {n \in 1 .. Len(partial) : IsEol(n)}
<1>1. PICK m \in S : \A k \in S : m <= k
  <2>1. S \subseteq Nat /\ S # {}
    BY DEF HasEol
  <2> HIDE DEF S
  <2> QED BY <2>1, LeastNumber
<1>2. \A i \in 1 .. m - 1 : ~IsEol(i)
  <2> SUFFICES ASSUME NEW i \in 1 .. m - 1, IsEol(i) PROVE FALSE
    OBVIOUS
  <2>1. i \in S /\ i < m
    BY <1>1
  <2>2. m <= i
    BY <1>1, <2>1
  <2> QED BY <1>1, <2>1, <2>2
<1>3. m \in 1 .. Len(partial) /\ IsEol(m)
  BY <1>1
<1> HIDE DEF S
<1> QED BY <1>2, <1>3 DEF FirstEol

LEMMA AfterEolsIs ==
  ASSUME Len(partial) \in Nat, HasEol
  PROVE  /\ AfterEols \in FirstEol + 1 .. Len(partial) + 1
         /\ \A i \in FirstEol .. AfterEols - 1 : IsEol(i)
         /\ AfterEols > Len(partial) \/ ~IsEol(AfterEols)
<1> DEFINE f == FirstEol
           S == {n \in f + 1 .. Len(partial) + 1 : n > Len(partial) \/ ~IsEol(n)}
<1>1. f \in 1 .. Len(partial) /\ IsEol(f)
  BY FirstEolIs
<1> HIDE DEF f
<1>2. PICK m \in S : \A k \in S : m <= k
  <2>1. S \subseteq Nat /\ Len(partial) + 1 \in S
    BY <1>1
  <2> HIDE DEF S
  <2> QED BY <2>1, LeastNumber
<1>3. m \in f + 1 .. Len(partial) + 1 /\ (m > Len(partial) \/ ~IsEol(m))
  BY <1>2
<1>4. \A i \in f .. m - 1 : IsEol(i)
  <2> SUFFICES ASSUME NEW i \in f .. m - 1, ~IsEol(i) PROVE FALSE
    OBVIOUS
  <2>1. i # f
    BY <1>1
  <2>2. i \in S /\ i < m
    BY <1>1, <1>3, <2>1
  <2>3. m <= i
    BY <1>2, <2>2
  <2> QED BY <1>1, <1>3, <2>2, <2>3
<1> HIDE DEF S
<1> QED BY <1>3, <1>4 DEF AfterEols, f

LEMMA BeforeZeroIs ==
  ASSUME read \in Nat, NEW n \in Nat, read < n
  PROVE  /\ BeforeZero(n) \in read .. n
         /\ \A i \in read + 1 .. BeforeZero(n) : output[i] # "zero"
         /\ BeforeZero(n) = n \/ output[BeforeZero(n) + 1] = "zero"
<1> DEFINE S == {z \in read .. n : z = n \/ output[z + 1] = "zero"}
<1>1. PICK m \in S : \A k \in S : m <= k
  <2>1. S \subseteq Nat /\ n \in S
    OBVIOUS
  <2> HIDE DEF S
  <2> QED BY <2>1, LeastNumber
<1>2. m \in read .. n /\ (m = n \/ output[m + 1] = "zero")
  BY <1>1
<1>3. \A i \in read + 1 .. m : output[i] # "zero"
  <2> SUFFICES ASSUME NEW i \in read + 1 .. m, output[i] = "zero" PROVE FALSE
    OBVIOUS
  <2>1. i - 1 \in read .. n /\ (i - 1) + 1 = i /\ i - 1 < m
    BY <1>2
  <2>2. i - 1 \in S
    BY <2>1
  <2>3. m <= i - 1
    BY <1>1, <2>2
  <2> QED BY <1>2, <2>1, <2>3
<1> HIDE DEF S
<1> QED BY <1>2, <1>3 DEF BeforeZero

-----------------------------------------------------------------------------
(***************************************************************************)
(* The type of what the reader has; partialLine holds text and ends of     *)
(* lines, and no end of line but while it is split.                        *)
(***************************************************************************)
Text == {n \in 1 .. read : output[n] = "text"}

ReaderShape ==
  /\ read \in 0 .. Len(output)
  /\ reader \in {None, "read", "split", "last", "done"}
  /\ partial \in Seq(1 .. read) /\ printed \in Seq(Seq(Text))
  /\ \A n \in 1 .. Len(partial) : output[partial[n]] \in {"text", "eol"}
  /\ reader # "split" => ~HasEol

LEMMA SeqGrows ==
  ASSUME NEW A, NEW B, A \subseteq B
  PROVE  Seq(A) \subseteq Seq(B)
  OBVIOUS

LEMMA ElementIn ==
  ASSUME NEW A, NEW s \in Seq(A)
  PROVE  \A i \in 1 .. Len(s) : s[i] \in A
  OBVIOUS

\* More is written or read: what there is keeps its type.
LEMMA ShapeGrows ==
  ASSUME read \in 0 .. Len(output), Len(output) \in Nat, Len(output') \in Nat,
         read' \in read .. Len(output'),
         \A n \in 1 .. Len(output) : output'[n] = output[n]
  PROVE  /\ Seq(1 .. read) \subseteq Seq(1 .. read')
         /\ Seq(Seq(Text)) \subseteq Seq(Seq(Text'))
<1>1. 1 .. read \subseteq 1 .. read' /\ Text \subseteq Text'
  BY DEF Text
<1> QED BY <1>1, SeqGrows

LEMMA JoinShape ==
  ASSUME NEW A, NEW s \in Seq(A), NEW m \in Nat, NEW n \in Nat, m <= n, m + 1 .. n \subseteq A
  PROVE  /\ s \o Range(m + 1, n) \in Seq(A)
         /\ Len(s \o Range(m + 1, n)) = Len(s) + (n - m)
         /\ \A i \in 1 .. Len(s) : (s \o Range(m + 1, n))[i] = s[i]
         /\ \A i \in Len(s) + 1 .. Len(s) + (n - m) :
              (s \o Range(m + 1, n))[i] = m + (i - Len(s))
<1> DEFINE t == Range(m + 1, n)
<1>1. t \in Seq(A) /\ Len(t) = n - m /\ \A i \in 1 .. n - m : t[i] = m + i
  <2>1. t = [i \in 1 .. n - m |-> m + i]
    <3>1. n - (m + 1) + 1 = n - m /\ \A i \in 1 .. n - m : m + 1 + i - 1 = m + i
      OBVIOUS
    <3> QED BY <3>1 DEF Range
  <2>2. n - m \in Nat /\ \A i \in 1 .. n - m : m + i \in A
    OBVIOUS
  <2> HIDE DEF t
  <2> QED BY <2>1, <2>2
<1> HIDE DEF t
<1>2. s \o t \in Seq(A) /\ Len(s \o t) = Len(s) + (n - m)
  BY <1>1
<1>3. \A i \in 1 .. Len(s) : (s \o t)[i] = s[i]
  BY <1>1
<1>4. \A i \in Len(s) + 1 .. Len(s) + (n - m) : (s \o t)[i] = m + (i - Len(s))
  <2> SUFFICES ASSUME NEW i \in Len(s) + 1 .. Len(s) + (n - m)
               PROVE  (s \o t)[i] = m + (i - Len(s))
    OBVIOUS
  <2>1. i - Len(s) \in 1 .. n - m /\ i > Len(s) /\ i \in Nat /\ i <= Len(s) + Len(t)
    BY <1>1
  <2>2. (s \o t)[i] = t[i - Len(s)]
    BY <1>1, <2>1
  <2> QED BY <1>1, <2>1, <2>2
<1> QED BY <1>2, <1>3, <1>4 DEF t

LEMMA PartShape ==
  ASSUME NEW A, NEW s \in Seq(A), NEW a \in 1 .. Len(s) + 1, NEW b \in a - 1 .. Len(s)
  PROVE  /\ SubSeq(s, a, b) \in Seq(A) /\ Len(SubSeq(s, a, b)) = b - a + 1
         /\ \A i \in 1 .. b - a + 1 : SubSeq(s, a, b)[i] = s[a + i - 1]
  OBVIOUS

\* What a ReadFile of n bytes adds to partialLine.
LEMMA ChunkShape ==
  ASSUME output \in Seq(Symbols), ReaderShape, NEW n \in Ends
  PROVE  /\ n \in read + 1 .. Len(output) /\ BeforeZero(n) \in read .. n
         /\ \A i \in read + 1 .. BeforeZero(n) : output[i] \in {"text", "eol"}
<1>1. /\ n \in read + 1 .. Len(output) /\ read \in Nat
      /\ \A i \in read + 1 .. n : output[i] # "empty"
  BY DEF Ends, ReaderShape
<1>2. /\ BeforeZero(n) \in read .. n
      /\ \A i \in read + 1 .. BeforeZero(n) : output[i] # "zero"
  BY <1>1, BeforeZeroIs
<1>3. \A i \in read + 1 .. BeforeZero(n) :
        /\ i \in 1 .. Len(output) /\ i \in read + 1 .. n
        /\ output[i] \in {"text", "eol", "zero", "empty"}
  <2> SUFFICES ASSUME NEW i \in read + 1 .. BeforeZero(n)
               PROVE  /\ i \in 1 .. Len(output) /\ i \in read + 1 .. n
                      /\ output[i] \in {"text", "eol", "zero", "empty"}
    OBVIOUS
  <2>1. i \in 1 .. Len(output) /\ i \in read + 1 .. n
    BY <1>1, <1>2
  <2>2. output[i] \in Symbols
    BY <2>1
  <2> QED BY <2>1, <2>2, ProcessMonitorAssumption
<1> QED BY <1>1, <1>2, <1>3

LEMMA ReadsKeepsShape ==
  ASSUME output \in Seq(Symbols), ReaderShape, Reads
  PROVE  ReaderShape'
<1>1. output' = output /\ printed' = printed /\ reader' = "split"
  BY DEF Reads, process
<1>2. PICK n \in Ends : read' = n /\ partial' = partial \o Range(read + 1, BeforeZero(n))
  BY DEF Reads
<1> DEFINE z == BeforeZero(n)
<1>3. /\ n \in read + 1 .. Len(output) /\ z \in read .. n
      /\ \A i \in read + 1 .. z : output[i] \in {"text", "eol"}
  BY ChunkShape
<1> HIDE DEF z
<1>4. read \in 0 .. Len(output) /\ Len(output) \in Nat /\ read' \in read .. Len(output)
  BY <1>2, <1>3 DEF ReaderShape
<1>5. Seq(1 .. read) \subseteq Seq(1 .. read') /\ Seq(Seq(Text)) \subseteq Seq(Seq(Text'))
  BY <1>1, <1>4, ShapeGrows
<1>6. /\ partial \in Seq(1 .. n) /\ read \in Nat /\ z \in Nat /\ read <= z
      /\ read + 1 .. z \subseteq 1 .. n /\ printed \in Seq(Seq(Text))
      /\ \A i \in 1 .. Len(partial) : output[partial[i]] \in {"text", "eol"}
  <2>1. read + 1 .. z \subseteq 1 .. n /\ read \in Nat /\ z \in Nat /\ read <= z
    BY <1>3, <1>4
  <2>2. /\ partial \in Seq(1 .. read) /\ printed \in Seq(Seq(Text))
        /\ \A i \in 1 .. Len(partial) : output[partial[i]] \in {"text", "eol"}
    BY DEF ReaderShape
  <2>3. partial \in Seq(1 .. n)
    BY <1>2, <1>5, <2>2
  <2> QED BY <2>1, <2>2, <2>3
<1>7. /\ partial' \in Seq(1 .. n)
      /\ Len(partial') = Len(partial) + (z - read)
      /\ \A i \in 1 .. Len(partial) : partial'[i] = partial[i]
      /\ \A i \in Len(partial) + 1 .. Len(partial) + (z - read) :
           partial'[i] = read + (i - Len(partial))
  <2> DEFINE A == 1 .. n
  <2>1. partial \in Seq(A) /\ read + 1 .. z \subseteq A
    BY <1>6
  <2>2. partial' = partial \o Range(read + 1, z)
    BY <1>2 DEF z
  <2> HIDE DEF A
  <2>3. /\ partial' \in Seq(A)
        /\ Len(partial') = Len(partial) + (z - read)
        /\ \A i \in 1 .. Len(partial) : partial'[i] = partial[i]
        /\ \A i \in Len(partial) + 1 .. Len(partial) + (z - read) :
             partial'[i] = read + (i - Len(partial))
    BY <1>6, <2>1, <2>2, JoinShape
  <2> QED BY <2>3 DEF A
<1>8. \A i \in 1 .. Len(partial') : output[partial'[i]] \in {"text", "eol"}
  <2> SUFFICES ASSUME NEW i \in 1 .. Len(partial') PROVE output[partial'[i]] \in {"text", "eol"}
    OBVIOUS
  <2>1. CASE i \in 1 .. Len(partial)
    BY <1>6, <1>7, <2>1
  <2>2. CASE i \in Len(partial) + 1 .. Len(partial) + (z - read)
    <3>1. read + (i - Len(partial)) \in read + 1 .. z
      BY <1>3, <1>4, <1>6, <2>2
    <3> QED BY <1>3, <1>7, <2>2, <3>1
  <2> QED BY <1>6, <1>7, <2>1, <2>2
<1>9. read' \in 0 .. Len(output')
  BY <1>1, <1>4
<1>10. partial' \in Seq(1 .. read') /\ printed' \in Seq(Seq(Text'))
  BY <1>1, <1>2, <1>5, <1>6, <1>7
<1>11. \A i \in 1 .. Len(partial') : output'[partial'[i]] \in {"text", "eol"}
  BY <1>1, <1>8
<1> QED BY <1>1, <1>9, <1>10, <1>11 DEF ReaderShape

LEMMA LineShape ==
  ASSUME ReaderShape, HasEol
  PROVE  /\ Len(partial) \in Nat
         /\ FirstEol \in 1 .. Len(partial) /\ AfterEols \in FirstEol + 1 .. Len(partial) + 1
         /\ Line \in Seq(Text) /\ Len(Line) = FirstEol - 1
         /\ \A i \in 1 .. FirstEol - 1 : Line[i] = partial[i]
<1>1. Len(partial) \in Nat /\ partial \in Seq(1 .. read)
  BY DEF ReaderShape
<1>2. /\ FirstEol \in 1 .. Len(partial) /\ \A i \in 1 .. FirstEol - 1 : ~IsEol(i)
      /\ AfterEols \in FirstEol + 1 .. Len(partial) + 1
  BY <1>1, FirstEolIs, AfterEolsIs
<1>3. /\ Line \in Seq(1 .. read) /\ Len(Line) = FirstEol - 1
      /\ \A i \in 1 .. FirstEol - 1 : Line[i] = partial[i]
  <2>1. 1 \in 1 .. Len(partial) + 1 /\ FirstEol - 1 \in 1 - 1 .. Len(partial)
    BY <1>1, <1>2
  <2>2. /\ Line \in Seq(1 .. read) /\ Len(Line) = FirstEol - 1 - 1 + 1
        /\ \A i \in 1 .. FirstEol - 1 - 1 + 1 : Line[i] = partial[1 + i - 1]
    BY <1>1, <2>1, PartShape DEF Line
  <2>3. FirstEol - 1 - 1 + 1 = FirstEol - 1 /\ \A i \in 1 .. FirstEol - 1 : 1 + i - 1 = i
    BY <1>2
  <2> QED BY <2>2, <2>3
<1>4. \A i \in 1 .. Len(Line) : Line[i] \in Text
  <2> SUFFICES ASSUME NEW i \in 1 .. Len(Line) PROVE Line[i] \in Text
    OBVIOUS
  <2>1. i \in 1 .. Len(partial) /\ i \in 1 .. FirstEol - 1
    BY <1>1, <1>2, <1>3
  <2>2. Line[i] = partial[i] /\ ~IsEol(i) /\ output[partial[i]] \in {"text", "eol"}
    BY <1>2, <1>3, <2>1 DEF ReaderShape
  <2>3. partial[i] \in 1 .. read
    BY <1>1, <2>1, ElementIn
  <2>4. output[partial[i]] = "text"
    BY <2>2 DEF IsEol
  <2> QED BY <2>2, <2>3, <2>4 DEF Text
<1>5. Line \in Seq(Text)
  BY <1>3, <1>4
<1> QED BY <1>1, <1>2, <1>3, <1>5

LEMMA PrintsLineKeepsShape ==
  ASSUME ReaderShape, PrintsLine
  PROVE  ReaderShape'
<1>1. /\ output' = output /\ read' = read /\ reader' = reader /\ reader = "split" /\ HasEol
      /\ printed' = Append(printed, Line) /\ partial' = SubSeq(partial, AfterEols, Len(partial))
  BY DEF PrintsLine, process
<1>2. /\ Len(partial) \in Nat /\ partial \in Seq(1 .. read) /\ Line \in Seq(Text)
      /\ AfterEols \in 1 .. Len(partial) + 1
  BY <1>1, LineShape DEF ReaderShape
<1>3. Len(partial) \in AfterEols - 1 .. Len(partial)
  BY <1>2
<1>4. /\ partial' \in Seq(1 .. read) /\ Len(partial') = Len(partial) - AfterEols + 1
      /\ \A i \in 1 .. Len(partial) - AfterEols + 1 : partial'[i] = partial[AfterEols + i - 1]
  BY <1>1, <1>2, <1>3, PartShape
<1>5. \A i \in 1 .. Len(partial') : output[partial'[i]] \in {"text", "eol"}
  <2> SUFFICES ASSUME NEW i \in 1 .. Len(partial') PROVE output[partial'[i]] \in {"text", "eol"}
    OBVIOUS
  <2>1. AfterEols + i - 1 \in 1 .. Len(partial)
    BY <1>2, <1>4
  <2> QED BY <1>4, <2>1 DEF ReaderShape
<1>6. printed' \in Seq(Seq(Text))
  BY <1>1, <1>2 DEF ReaderShape
<1>7. Text' = Text
  BY <1>1 DEF Text
<1> QED BY <1>1, <1>4, <1>5, <1>6, <1>7 DEF ReaderShape

LEMMA ReaderKeepsShape ==
  ASSUME output \in Seq(Symbols), ReaderShape, ReadFromPipe
  PROVE  ReaderShape'
<1>1. CASE Reads
  BY <1>1, ReadsKeepsShape
<1>2. CASE ReadsNothing
  <2>1. /\ output' = output /\ partial' = partial /\ printed' = printed
        /\ read' = read + 1 /\ reader' = "last" /\ reader = "read"
    BY <1>2 DEF ReadsNothing, process, Reading
  <2>2. /\ read \in 0 .. Len(output) /\ Len(output) \in Nat /\ read' \in read .. Len(output)
    BY <1>2, <2>1 DEF ReaderShape, ReadsNothing, NextIsEmpty
  <2>3. Seq(1 .. read) \subseteq Seq(1 .. read') /\ Seq(Seq(Text)) \subseteq Seq(Seq(Text'))
    BY <2>1, <2>2, ShapeGrows
  <2> QED BY <2>1, <2>2, <2>3 DEF ReaderShape, HasEol, IsEol
<1>3. CASE ReadFails
  BY <1>3 DEF ReadFails, Reading, ReaderShape, process, Text, HasEol, IsEol
<1>4. CASE PrintsLine
  BY <1>4, PrintsLineKeepsShape
<1>5. CASE KeepsRest
  BY <1>5 DEF KeepsRest, ReaderShape, process, Text, HasEol, IsEol
<1>6. CASE PrintsRest
  <2>1. /\ output' = output /\ read' = read /\ reader' = "done" /\ partial' = <<>>
        /\ printed' = (IF partial = <<>> THEN printed ELSE Append(printed, partial)) /\ ~HasEol
    BY <1>6 DEF PrintsRest, process, ReaderShape
  <2>2. partial \in Seq(Text)
    <3>1. \A i \in 1 .. Len(partial) : partial[i] \in Text
      BY <2>1 DEF ReaderShape, Text, HasEol, IsEol
    <3>2. partial \in Seq(1 .. read)
      BY DEF ReaderShape
    <3> QED BY <3>1, <3>2
  <2>3. printed' \in Seq(Seq(Text)) /\ Text' = Text
    BY <2>1, <2>2 DEF ReaderShape, Text
  <2> QED BY <2>1, <2>3 DEF ReaderShape, HasEol
<1> QED BY <1>1, <1>2, <1>3, <1>4, <1>5, <1>6 DEF ReadFromPipe

LEMMA WriteKeepsShape ==
  ASSUME output \in Seq(Symbols), ReaderShape, ChildWrites
  PROVE  ReaderShape' /\ output' \in Seq(Symbols)
<1>1. PICK c \in Symbols : output' = Append(output, c)
  BY DEF ChildWrites
<1>2. /\ output' \in Seq(Symbols) /\ Len(output) \in Nat /\ Len(output') = Len(output) + 1
      /\ \A n \in 1 .. Len(output) : output'[n] = output[n]
  BY <1>1
<1>3. /\ read' = read /\ reader' = reader /\ partial' = partial /\ printed' = printed
  BY DEF ChildWrites, reading
<1>4. /\ read \in 0 .. Len(output) /\ read' \in read .. Len(output')
  BY <1>2, <1>3 DEF ReaderShape
<1>5. Seq(1 .. read) \subseteq Seq(1 .. read') /\ Seq(Seq(Text)) \subseteq Seq(Seq(Text'))
  BY <1>2, <1>4, ShapeGrows
<1>6. partial \in Seq(1 .. read) /\ 1 .. read \subseteq 1 .. Len(output)
  BY <1>2, <1>4 DEF ReaderShape
<1>7. \A n \in 1 .. Len(partial) : partial[n] \in 1 .. read
  BY <1>6, ElementIn
<1>8. \A n \in 1 .. Len(partial) : output'[partial'[n]] = output[partial[n]]
  BY <1>2, <1>3, <1>6, <1>7
<1>9. HasEol' = HasEol
  BY <1>3, <1>8 DEF HasEol, IsEol
<1>10. partial' \in Seq(1 .. read') /\ printed' \in Seq(Seq(Text'))
  BY <1>3, <1>5, <1>6 DEF ReaderShape
<1>11. \A n \in 1 .. Len(partial') : output'[partial'[n]] \in {"text", "eol"}
  BY <1>3, <1>8 DEF ReaderShape
<1> QED BY <1>2, <1>3, <1>4, <1>9, <1>10, <1>11 DEF ReaderShape

-----------------------------------------------------------------------------
(***************************************************************************)
(* The type invariant by parts.  Until it has created the child, the main  *)
(* thread has no reader.                                                   *)
(***************************************************************************)
MainOK ==
  /\ main \in {"start", "create", "wait child", "wait", "waiting", "close", "exiting", "exited"}
  /\ command \in BOOLEAN
  /\ hStop \in {"event", Invalid} /\ signaled \in BOOLEAN
  /\ waitsFor \in {None, "event", Invalid}
  /\ installed \in BOOLEAN /\ ignoring \in BOOLEAN

HandlersOK ==
  /\ handler \in [Handlers -> {"idle", "set", "forget", "ignore", "generate", "done"}]
  /\ control \in [Handlers -> Controls \cup {None}]
  /\ \A h \in Handlers : handler[h] # "idle" => control[h] \in Controls

ChildOK ==
  /\ habit \in Habits /\ faulty \in BOOLEAN
  /\ child \in {None, "running", "immune", "exited"} /\ childCtrl \in BOOLEAN

OutputOK == output \in Seq(Symbols) /\ Len(output) <= MaxOutput[habit]

Fresh == main \in {"start", "create"} => reader = None

TInv == MainOK /\ HandlersOK /\ ChildOK /\ OutputOK /\ ReaderShape /\ Fresh

LEMMA TInvImplies == TInv => TypeOK
  BY DEF TInv, MainOK, HandlersOK, ChildOK, OutputOK, ReaderShape, Text, TypeOK, ProcessTypeOK

LEMMA ShapeKept ==
  ASSUME ReaderShape, UNCHANGED <<output, reading>>
  PROVE  ReaderShape'
  BY DEF ReaderShape, reading, Text, HasEol, IsEol

\* Starting the thread of the reader: it has nothing yet that it would have to split.
LEMMA ReaderStarts ==
  ASSUME ReaderShape, reader = None, reader' \in {None, "read"},
         UNCHANGED <<output, read, partial, printed>>
  PROVE  ReaderShape'
  BY DEF ReaderShape, Text, HasEol, IsEol, None

\* What is not the reader's keeps its type with its value.
LEMMA OthersKept ==
  ASSUME MainOK, HandlersOK, ChildOK, UNCHANGED <<main, settings, stopping, handling, process>>
  PROVE  MainOK' /\ HandlersOK' /\ ChildOK'
<1>1. MainOK'
  BY DEF MainOK, settings, stopping, handling
<1>2. HandlersOK'
  <2>1. handler' = handler /\ control' = control
    BY DEF handling
  <2> QED BY <2>1 DEF HandlersOK
<1>3. ChildOK'
  BY DEF ChildOK, settings, process
<1> QED BY <1>1, <1>2, <1>3

LEMMA ToHandlerTyped ==
  ASSUME HandlersOK, NEW type \in Controls, NEW hs,
         hs \in [Handlers -> {"idle", "set", "forget", "ignore", "generate", "done"}],
         \A h \in Handlers : hs[h] # "idle" => control[h] \in Controls,
         ToHandler(hs, type)
  PROVE  HandlersOK'
  BY DEF HandlersOK, ToHandler

LEMMA MainTyped ==
  ASSUME TInv, Main
  PROVE  TInv'
<1>1. CASE CreatesChild
  <2>1. /\ main = "create" /\ reader = None /\ reader' \in {None, "read"}
        /\ child' \in {"running", "immune"} /\ main' = "wait child"
        /\ UNCHANGED <<settings, stopping, handling, childCtrl, output, read, partial, printed>>
    BY <1>1 DEF CreatesChild, TInv, Fresh
  <2>2. ReaderShape'
    BY <2>1, ReaderStarts DEF TInv
  <2>3. MainOK'
    BY <2>1 DEF TInv, MainOK, settings, stopping, handling
  <2>4. handler' = handler /\ control' = control
    BY <2>1 DEF handling
  <2>5. HandlersOK'
    BY <2>4 DEF TInv, HandlersOK
  <2>6. ChildOK' /\ OutputOK' /\ Fresh'
    BY <2>1 DEF TInv, ChildOK, OutputOK, Fresh, settings
  <2> QED BY <2>2, <2>3, <2>5, <2>6 DEF TInv
<1>2. CASE ~CreatesChild
  <2>1. /\ UNCHANGED <<settings, handler, control, ignoring, process, reading>>
        /\ main' \in {"create", "wait", "waiting", "close", "exiting", "exited"}
        /\ main' = "create" => main = "start"
        /\ installed' \in {installed, TRUE} /\ hStop' \in {hStop, Invalid}
        /\ signaled' = signaled /\ waitsFor' \in {waitsFor, hStop}
    BY <1>2
    DEF Main, ReturnsEarly, InstallsHandler, CreateChildFails, SeesChildExit, ChildWaitFails,
        Waits, SeesStop, WaitFails, Closes, Exits, stopping, handling
  <2>2. ReaderShape'
    BY <2>1, ShapeKept DEF TInv, process
  <2>3. MainOK'
    BY <2>1 DEF TInv, MainOK, settings
  <2>4. HandlersOK'
    BY <2>1 DEF TInv, HandlersOK
  <2>5. ChildOK' /\ OutputOK' /\ Fresh'
    BY <2>1 DEF TInv, ChildOK, OutputOK, Fresh, settings, process, reading
  <2> QED BY <2>2, <2>3, <2>4, <2>5 DEF TInv
<1> QED BY <1>1, <1>2

LEMMA ControlTyped ==
  ASSUME TInv, NEW h \in Handlers, ControlHandle(h)
  PROVE  TInv'
<1>1. /\ UNCHANGED <<settings, waitsFor, installed, child, output, reading>>
      /\ main' \in {main, "exited"} /\ hStop' \in {hStop, Invalid}
      /\ signaled' \in BOOLEAN /\ ignoring' \in BOOLEAN /\ childCtrl' \in BOOLEAN
  BY DEF TInv, MainOK, ChildOK, ControlHandle, HandlerSetsEvent, HandlerForgetsEvent,
         HandlerIgnores, HandlerGenerates, HandlerEndsProcess, ToChild, stopping, process
<1>2. HandlersOK'
  <2>1. CASE HandlerGenerates(h)
    <3>1. [handler EXCEPT ![h] = "done"]
            \in [Handlers -> {"idle", "set", "forget", "ignore", "generate", "done"}]
      BY DEF TInv, HandlersOK
    <3>4. control[h] \in Controls
      BY <2>1 DEF HandlerGenerates, Handling, TInv, HandlersOK
    <3>5. \A g \in Handlers : [handler EXCEPT ![h] = "done"][g] # "idle" => control[g] \in Controls
      BY <3>4 DEF TInv, HandlersOK
    <3>2. CASE Sees(control[h]) /\ handler[MaxCtrl] = "idle"
      <4>2. ToHandler([handler EXCEPT ![h] = "done"], control[h])
        BY <2>1, <3>2 DEF HandlerGenerates
      <4> QED BY <3>1, <3>4, <3>5, <4>2, ToHandlerTyped DEF TInv
    <3>3. CASE ~(Sees(control[h]) /\ handler[MaxCtrl] = "idle")
      BY <2>1, <3>1, <3>3, <3>5 DEF HandlerGenerates, TInv, HandlersOK
    <3> QED BY <3>2, <3>3
  <2>2. CASE ~HandlerGenerates(h)
    <3>1. /\ \E c \in {"forget", "ignore", "generate", "done"} : handler' = [handler EXCEPT ![h] = c]
          /\ control' = control /\ handler[h] # "idle"
      BY <2>2
      DEF ControlHandle, HandlerSetsEvent, HandlerForgetsEvent, HandlerIgnores,
          HandlerEndsProcess, Handling
    <3> QED BY <3>1 DEF TInv, HandlersOK
  <2> QED BY <2>1, <2>2
<1>3. ReaderShape'
  BY <1>1, ShapeKept DEF TInv
<1>4. MainOK'
  BY <1>1 DEF TInv, MainOK, settings
<1>5. ChildOK' /\ OutputOK' /\ Fresh'
  BY <1>1 DEF TInv, ChildOK, OutputOK, Fresh, settings, reading
<1> QED BY <1>2, <1>3, <1>4, <1>5 DEF TInv

LEMMA ArrivalTyped ==
  ASSUME TInv, NEW type \in Controls, CtrlArrives(type)
  PROVE  TInv'
<1>1. /\ UNCHANGED <<settings, stopping, installed, ignoring, child, output, reading>>
      /\ main' \in {main, "exited"} /\ childCtrl' \in BOOLEAN
  BY DEF CtrlArrives, ToChild, TInv, ChildOK
<1>2. HandlersOK'
  <2>1. CASE ToHandler(handler, type)
    BY <2>1, ToHandlerTyped DEF TInv, HandlersOK
  <2>2. CASE UNCHANGED <<handler, control>>
    BY <2>2 DEF TInv, HandlersOK
  <2> QED BY <2>1, <2>2 DEF CtrlArrives
<1>3. ReaderShape'
  BY <1>1, ShapeKept DEF TInv
<1>4. MainOK'
  BY <1>1 DEF TInv, MainOK, settings, stopping
<1>5. ChildOK' /\ OutputOK' /\ Fresh'
  BY <1>1 DEF TInv, ChildOK, OutputOK, Fresh, settings, reading
<1> QED BY <1>2, <1>3, <1>4, <1>5 DEF TInv

LEMMA ReaderTyped ==
  ASSUME TInv, Reader
  PROVE  TInv'
<1>1. /\ ReadFromPipe /\ UNCHANGED <<main, settings, stopping, handling, process>>
      /\ reader # None
  BY DEF Reader, ReadFromPipe, Reads, ReadsNothing, ReadFails, PrintsLine, KeepsRest, PrintsRest,
         Reading, None
<1>2. ReaderShape'
  BY <1>1, ReaderKeepsShape DEF TInv, OutputOK
<1>3. MainOK' /\ HandlersOK' /\ ChildOK'
  BY <1>1, OthersKept DEF TInv
<1>4. OutputOK'
  BY <1>1 DEF TInv, OutputOK, settings, process
<1>5. Fresh'
  BY <1>1 DEF TInv, Fresh
<1> QED BY <1>2, <1>3, <1>4, <1>5 DEF TInv

LEMMA ChildTyped ==
  ASSUME TInv, Others
  PROVE  TInv'
<1>1. Child /\ UNCHANGED <<main, settings, stopping, handling, reading>>
  BY DEF Others, Child, ChildWrites, ChildExits, ChildTakesCtrl
<1>2. MainOK' /\ HandlersOK' /\ Fresh'
  <2>1. MainOK'
    BY <1>1 DEF TInv, MainOK, settings, stopping, handling
  <2>2. handler' = handler /\ control' = control
    BY <1>1 DEF handling
  <2>3. HandlersOK'
    BY <2>2 DEF TInv, HandlersOK
  <2>4. Fresh'
    BY <1>1 DEF TInv, Fresh, reading
  <2> QED BY <2>1, <2>3, <2>4
<1>3. ChildOK'
  BY <1>1
  DEF Child, ChildWrites, ChildExits, ChildTakesCtrl, TInv, ChildOK, settings
<1>4. ReaderShape' /\ OutputOK'
  <2>1. CASE ChildWrites
    <3>1. ReaderShape' /\ output' \in Seq(Symbols)
      BY <2>1, WriteKeepsShape DEF TInv, OutputOK
    <3>2. Len(output') <= MaxOutput[habit']
      <4>1. MaxOutput[habit] \in Nat /\ Len(output) \in Nat
        BY ProcessMonitorAssumption DEF TInv, ChildOK, OutputOK
      <4>2. Len(output) < MaxOutput[habit] /\ habit' = habit /\ Len(output') = Len(output) + 1
        BY <1>1, <2>1 DEF ChildWrites, settings, TInv, OutputOK
      <4> QED BY <4>1, <4>2
    <3> QED BY <3>1, <3>2 DEF OutputOK
  <2>2. CASE ~ChildWrites
    <3>1. output' = output /\ habit' = habit
      BY <1>1, <2>2 DEF Child, ChildExits, ChildTakesCtrl, settings
    <3>2. ReaderShape'
      BY <1>1, <3>1, ShapeKept DEF TInv
    <3> QED BY <3>1, <3>2 DEF TInv, OutputOK
  <2> QED BY <2>1, <2>2
<1> QED BY <1>2, <1>3, <1>4 DEF TInv

LEMMA TInvHolds == Spec => []TInv
<1>1. Init => TInv
  <2> SUFFICES ASSUME Init PROVE TInv
    OBVIOUS
  <2>1. MainOK /\ HandlersOK /\ ChildOK
    BY DEF Init, ProcessInit, MainOK, HandlersOK, ChildOK
  <2>2. OutputOK
    <3>1. MaxOutput[habit] \in Nat
      BY ProcessMonitorAssumption DEF Init
    <3> QED BY <3>1 DEF Init, ProcessInit, OutputOK
  <2>3. ReaderShape /\ Fresh
    BY DEF Init, ProcessInit, ReaderShape, Fresh, HasEol, None
  <2> QED BY <2>1, <2>2, <2>3 DEF TInv
<1>2. TInv /\ [Next]_vars => TInv'
  <2> SUFFICES ASSUME TInv, [Next]_vars PROVE TInv'
    OBVIOUS
  <2>1. CASE Main
    BY <2>1, MainTyped
  <2>2. CASE Reader
    BY <2>2, ReaderTyped
  <2>3. CASE Others
    BY <2>3, ChildTyped
  <2>4. CASE \E h \in Handlers : ControlHandle(h)
    BY <2>4, ControlTyped
  <2>5. CASE \E type \in Controls : CtrlArrives(type)
    BY <2>5, ArrivalTyped
  <2>6. CASE UNCHANGED vars
    <3>1. UNCHANGED <<main, settings, stopping, handling, process, reading>>
      BY <2>6 DEF vars
    <3>2. ReaderShape'
      BY <3>1, ShapeKept DEF TInv, process
    <3>3. MainOK' /\ HandlersOK' /\ ChildOK'
      BY <3>1, OthersKept DEF TInv
    <3>4. OutputOK'
      BY <3>1 DEF TInv, OutputOK, settings, process
    <3>5. Fresh'
      BY <3>1 DEF TInv, Fresh, reading
    <3> QED BY <3>2, <3>3, <3>4, <3>5 DEF TInv
  <2> QED BY <2>1, <2>2, <2>3, <2>4, <2>5, <2>6 DEF Next
<1> QED BY <1>1, <1>2, PTL DEF Spec

(***************************************************************************)
(* Every variable keeps its type; a line that is printed holds no end of   *)
(* line, no zero byte, and nothing that the reader has not read.           *)
(***************************************************************************)
THEOREM TypeCorrect == Spec => []TypeOK
  BY TInvHolds, TInvImplies, PTL

-----------------------------------------------------------------------------
(***************************************************************************)
(* Lines as spans of the output.                                           *)
(***************************************************************************)
Span(i, j) ==
  /\ i \in 1 .. Len(output) /\ j \in 1 .. Len(output) /\ i <= j
  /\ \A n \in i .. j : output[n] = "text"
  /\ i = 1 \/ output[i - 1] = "eol"
  /\ j < Len(output) /\ output[j + 1] # "text"

LEMMA LinesAre == \A l : l \in Lines <=> \E i, j \in 1 .. Len(output) : Span(i, j) /\ l = Range(i, j)
<1> DEFINE P == {p \in (1 .. Len(output)) \X (1 .. Len(output)) : Span(p[1], p[2])}
<1>1. Lines = {Range(p[1], p[2]) : p \in P}
  BY DEF Lines, Span
<1>2. ASSUME NEW i \in 1 .. Len(output), NEW j \in 1 .. Len(output), Span(i, j)
      PROVE  \E p \in P : p[1] = i /\ p[2] = j
  <2>1. <<i, j>> \in P
    BY <1>2
  <2> QED BY <2>1
<1>3. ASSUME NEW p \in P
      PROVE  p[1] \in 1 .. Len(output) /\ p[2] \in 1 .. Len(output) /\ Span(p[1], p[2])
  OBVIOUS
<1> HIDE DEF P
<1>4. ASSUME NEW l, l \in Lines
      PROVE  \E i, j \in 1 .. Len(output) : Span(i, j) /\ l = Range(i, j)
  BY <1>1, <1>3, <1>4
<1>5. ASSUME NEW l, NEW i \in 1 .. Len(output), NEW j \in 1 .. Len(output), Span(i, j), l = Range(i, j)
      PROVE  l \in Lines
  <2>1. PICK p \in P : p[1] = i /\ p[2] = j
    BY <1>2, <1>5
  <2>2. l = Range(p[1], p[2])
    BY <1>5, <2>1
  <2> QED BY <1>1, <2>2
<1> QED BY <1>4, <1>5

LEMMA RangeIs ==
  ASSUME NEW i \in Nat, NEW j \in Nat, i <= j
  PROVE  /\ Len(Range(i, j)) = j - i + 1 /\ Range(i, j) # <<>>
         /\ Range(i, j)[1] = i /\ Range(i, j)[Len(Range(i, j))] = j
         /\ \A n \in 1 .. j - i + 1 : Range(i, j)[n] = i + n - 1
<1> DEFINE d == j - i + 1
<1>1. d \in Nat /\ d >= 1 /\ i + d - 1 = j /\ i + 1 - 1 = i
  OBVIOUS
<1> HIDE DEF d
<1>2. Range(i, j) = [n \in 1 .. d |-> i + n - 1]
  BY DEF Range, d
<1>3. Len(Range(i, j)) = d
  BY <1>1, <1>2
<1>4. 1 \in 1 .. d /\ d \in 1 .. d
  BY <1>1
<1>5. Range(i, j)[1] = i /\ Range(i, j)[d] = j
  BY <1>1, <1>2, <1>4
<1>6. Range(i, j) # <<>>
  BY <1>1, <1>3
<1> QED BY <1>2, <1>3, <1>5, <1>6 DEF d

\* A sequence of places, one after the other, is a span.
LEMMA IsRange ==
  ASSUME NEW s \in Seq(Nat), NEW h \in Nat, s # <<>>, \A n \in 1 .. Len(s) : s[n] = h + n
  PROVE  s = Range(h + 1, h + Len(s)) /\ h + 1 <= h + Len(s)
<1> DEFINE d == Len(s)
<1>1. d \in Nat /\ d # 0
  OBVIOUS
<1>2. s = [n \in 1 .. d |-> s[n]] /\ \A n \in 1 .. d : s[n] = h + n
  OBVIOUS
<1> HIDE DEF d
<1>3. (h + d) - (h + 1) + 1 = d /\ \A n \in 1 .. d : h + 1 + n - 1 = h + n
  BY <1>1
<1>4. Range(h + 1, h + d) = [n \in 1 .. d |-> h + n]
  <2>1. Range(h + 1, h + d) = [n \in 1 .. (h + d) - (h + 1) + 1 |-> h + 1 + n - 1]
    BY DEF Range
  <2>2. @ = [n \in 1 .. d |-> h + 1 + n - 1]
    BY <1>3
  <2>3. @ = [n \in 1 .. d |-> h + n]
    BY <1>3
  <2> QED BY <2>1, <2>2, <2>3
<1>6. [n \in 1 .. d |-> s[n]] = [n \in 1 .. d |-> h + n]
  BY <1>2
<1>5. s = Range(h + 1, h + d)
  BY <1>2, <1>4, <1>6
<1>7. h + 1 <= h + d
  BY <1>1
<1> QED BY <1>5, <1>7 DEF d

-----------------------------------------------------------------------------
(***************************************************************************)
(* The inductive invariant of LinesInOrder: partialLine is what was read   *)
(* after a place at which a line may begin, Handled, and what lies before  *)
(* that place is printed.                                                  *)
(***************************************************************************)
Regular == Clean /\ ~faulty
AtStart(h) == h = 0 \/ output[h] = "eol"

PartialIs ==
  /\ \A n \in 1 .. Len(partial) : partial[n] = Handled + n
  /\ reader \in {None, "read", "split"} =>
       /\ Handled + Len(partial) = read /\ AtStart(Handled)
       /\ \A n \in 1 .. read : output[n] # "empty"
  /\ reader = "last" =>
       /\ read > 0 /\ output[read] = "empty" /\ \A n \in 1 .. read - 1 : output[n] # "empty"
       /\ partial # <<>> => Handled + Len(partial) = read - 1 /\ AtStart(Handled)
  /\ reader = "done" => partial = <<>>

PrintedAre ==
  \A k \in 1 .. Len(printed) :
    printed[k] # <<>> => printed[k] \in Lines /\ printed[k][1] <= Handled

PrintedRise ==
  \A j, k \in 1 .. Len(printed) :
    j < k /\ printed[j] # <<>> /\ printed[k] # <<>> => printed[j][1] < printed[k][1]

PrintedAll ==
  \A l \in Lines :
    Ended(l) /\ l[Len(l)] < Handled => \E k \in 1 .. Len(printed) : printed[k] = l

LInv == Regular => PartialIs /\ PrintedAre /\ PrintedRise /\ PrintedAll

LEMMA LInvImplies == LInv => LinesInOrder
  BY DEF LInv, Regular, PrintedAre, PrintedRise, PrintedAll, LinesInOrder

LEMMA HandledIs ==
  ASSUME ReaderShape, output \in Seq(Symbols)
  PROVE  /\ Len(output) \in Nat /\ Len(partial) \in Nat /\ read \in Nat /\ read <= Len(output)
         /\ Handled \in Nat /\ Handled <= read
         /\ partial = <<>> => Handled = read /\ Len(partial) = 0
         /\ partial # <<>> => Handled = partial[1] - 1 /\ Len(partial) > 0
<1>1. partial \in Seq(1 .. read) /\ Len(output) \in Nat /\ read \in Nat /\ read <= Len(output)
  BY DEF ReaderShape
<1>2. CASE partial = <<>>
  BY <1>1, <1>2 DEF Handled
<1>3. CASE partial # <<>>
  <2>1. Len(partial) \in Nat /\ Len(partial) > 0
    BY <1>1, <1>3
  <2>2. 1 \in 1 .. Len(partial)
    BY <2>1
  <2>3. partial[1] \in 1 .. read
    BY <1>1, <2>2, ElementIn
  <2> QED BY <1>1, <1>3, <2>1, <2>3 DEF Handled
<1> QED BY <1>1, <1>2, <1>3

LEMMA PrintedKept ==
  ASSUME output' = output, printed' = printed, Handled' = Handled,
         PrintedAre, PrintedRise, PrintedAll
  PROVE  PrintedAre' /\ PrintedRise' /\ PrintedAll'
<1>1. Lines' = Lines
  BY DEF Lines
<1>2. \A l : Ended(l)' = Ended(l)
  BY DEF Ended
<1> QED BY <1>1, <1>2 DEF PrintedAre, PrintedRise, PrintedAll

LEMMA ReadsOrders ==
  ASSUME output \in Seq(Symbols), ReaderShape, LInv, Reads, faulty' = faulty
  PROVE  LInv'
<1> SUFFICES ASSUME Regular' PROVE (PartialIs /\ PrintedAre /\ PrintedRise /\ PrintedAll)'
  BY DEF LInv
<1>1. output' = output /\ printed' = printed /\ reader' = "split" /\ reader = "read"
  BY DEF Reads, process, Reading
<1>2. Regular /\ Clean
  BY <1>1 DEF Regular, Clean
<1>3. PICK n \in Ends : read' = n /\ partial' = partial \o Range(read + 1, BeforeZero(n))
  BY DEF Reads
<1>4. n \in read + 1 .. Len(output) /\ \A i \in read + 1 .. n : output[i] # "empty"
  BY DEF Ends
<1> DEFINE L == Len(partial)
           H == Handled
<1>5. /\ Len(output) \in Nat /\ L \in Nat /\ read \in Nat /\ read <= Len(output)
      /\ H \in Nat /\ H <= read
  BY HandledIs
<1>6. BeforeZero(n) = n
  <2>1. /\ BeforeZero(n) \in read .. n
        /\ BeforeZero(n) = n \/ output[BeforeZero(n) + 1] = "zero"
    BY <1>4, <1>5, BeforeZeroIs
  <2>2. BeforeZero(n) # n => BeforeZero(n) + 1 \in 1 .. Len(output)
    BY <1>4, <1>5, <2>1
  <2> QED BY <1>2, <2>1, <2>2 DEF Clean
<1>7. /\ Len(partial') = L + (n - read)
      /\ \A i \in 1 .. L : partial'[i] = partial[i]
      /\ \A i \in L + 1 .. L + (n - read) : partial'[i] = read + (i - L)
  <2> DEFINE A == 1 .. n
  <2>1. partial \in Seq(A) /\ read + 1 .. n \subseteq A /\ n \in Nat /\ read <= n
    <3>1. 1 .. read \subseteq A /\ n \in Nat /\ read <= n /\ read + 1 .. n \subseteq A
      BY <1>4, <1>5
    <3>2. partial \in Seq(1 .. read)
      BY DEF ReaderShape
    <3> HIDE DEF A
    <3> QED BY <3>1, <3>2, SeqGrows
  <2> HIDE DEF A
  <2> QED BY <1>3, <1>5, <1>6, <2>1, JoinShape
<1>8. /\ \A i \in 1 .. L : partial[i] = H + i
      /\ H + L = read /\ AtStart(H) /\ \A i \in 1 .. read : output[i] # "empty"
  BY <1>1, <1>2 DEF LInv, PartialIs
<1>9. \A i \in 1 .. Len(partial') : partial'[i] = H + i
  <2> SUFFICES ASSUME NEW i \in 1 .. Len(partial') PROVE partial'[i] = H + i
    OBVIOUS
  <2>1. CASE i \in 1 .. L
    BY <1>7, <1>8, <2>1
  <2>2. CASE i \in L + 1 .. L + (n - read)
    <3>1. read + (i - L) = H + i
      <4>1. H + L = read /\ L \in Nat /\ H \in Nat
        BY <1>5, <1>8
      <4> HIDE DEF H
      <4> QED BY <2>2, <4>1
    <3> QED BY <1>7, <2>2, <3>1
  <2> HIDE DEF H
  <2> QED BY <1>4, <1>5, <1>7, <2>1, <2>2
<1>10. Handled' = H
  <2>1. Len(partial') \in Nat /\ Len(partial') > 0
    BY <1>4, <1>5, <1>7
  <2>2. partial' # <<>> /\ partial'[1] = H + 1
    BY <1>9, <2>1
  <2>3. Handled' = partial'[1] - 1
    BY <2>2 DEF Handled
  <2> HIDE DEF H
  <2> QED BY <1>5, <2>2, <2>3
<1>11. PartialIs'
  <2>1. H + Len(partial') = read'
    <3>1. n \in Nat /\ read < n /\ read' = n /\ Len(partial') = L + (n - read) /\ H + L = read
      BY <1>3, <1>4, <1>5, <1>7, <1>8
    <3> HIDE DEF H, L
    <3> QED BY <1>5, <3>1
  <2>2. \A i \in 1 .. read' : output'[i] # "empty"
    BY <1>1, <1>3, <1>4, <1>5, <1>8
  <2>4. AtStart(Handled)'
    BY <1>1, <1>8, <1>10 DEF AtStart
  <2> QED BY <1>1, <1>9, <1>10, <2>1, <2>2, <2>4 DEF PartialIs
<1> QED BY <1>1, <1>2, <1>10, <1>11, PrintedKept DEF LInv

-----------------------------------------------------------------------------
(***************************************************************************)
(* A line by its first and last places; lines that are printed stay lines. *)
(***************************************************************************)
LEMMA LineIs ==
  ASSUME Len(output) \in Nat, NEW l, l \in Lines
  PROVE  \E i, j \in 1 .. Len(output) :
           /\ Span(i, j) /\ l = Range(i, j) /\ l[1] = i /\ l[Len(l)] = j /\ l # <<>>
           /\ Ended(l) <=> output[j + 1] = "eol"
<1>1. PICK i, j \in 1 .. Len(output) : Span(i, j) /\ l = Range(i, j)
  BY LinesAre
<1>2. i \in Nat /\ j \in Nat /\ i <= j
  BY <1>1 DEF Span
<1>3. l[1] = i /\ l[Len(l)] = j /\ l # <<>>
  BY <1>1, <1>2, RangeIs
<1> QED BY <1>1, <1>3 DEF Ended

LEMMA HandledGrows ==
  ASSUME Len(output) \in Nat, output' = output, printed' = printed,
         Handled \in Nat, Handled' \in Nat, Handled <= Handled', PrintedAre, PrintedRise
  PROVE  PrintedAre' /\ PrintedRise'
<1>1. Lines' = Lines
  BY DEF Lines
<1>2. \A l \in Lines : l[1] \in Nat
  BY LineIs
<1> HIDE DEF Handled
<1>3. \A l \in Lines : l[1] <= Handled => l[1] <= Handled'
  BY <1>2
<1> QED BY <1>1, <1>3 DEF PrintedAre, PrintedRise

LEMMA AppendsLine ==
  ASSUME Len(output) \in Nat, output' = output, NEW A, NEW line \in A, printed \in Seq(A),
         printed' = Append(printed, line),
         Handled \in Nat, Handled' \in Nat, Handled <= Handled',
         line # <<>> => line \in Lines /\ line[1] = Handled + 1 /\ Handled + 1 <= Handled',
         PrintedAre, PrintedRise
  PROVE  /\ PrintedAre' /\ PrintedRise'
         /\ \A k \in 1 .. Len(printed) : k \in 1 .. Len(printed') /\ printed'[k] = printed[k]
         /\ \E k \in 1 .. Len(printed') : printed'[k] = line
<1> DEFINE N == Len(printed)
           H == Handled
           G == Handled'
<1>1. /\ N \in Nat /\ Len(printed') = N + 1 /\ printed'[N + 1] = line
      /\ \A k \in 1 .. N : printed'[k] = printed[k]
  OBVIOUS
<1>2. Lines' = Lines
  BY DEF Lines
<1>3. \A l \in Lines : l[1] \in Nat
  BY LineIs
<1>4. \A k \in 1 .. N : printed[k] # <<>> => printed[k] \in Lines /\ printed[k][1] <= H
  BY DEF PrintedAre
<1>5. \A j, k \in 1 .. N :
        j < k /\ printed[j] # <<>> /\ printed[k] # <<>> => printed[j][1] < printed[k][1]
  BY DEF PrintedRise
<1>6. H \in Nat /\ G \in Nat /\ H <= G
  OBVIOUS
<1>7. line # <<>> => line \in Lines /\ line[1] = H + 1 /\ H + 1 <= G
  OBVIOUS
<1> HIDE DEF N, H, G
<1>8. \A k \in 1 .. N + 1 : k \in 1 .. N \/ k = N + 1
  BY <1>1
<1>9. \A k \in 1 .. N + 1 : printed'[k] # <<>> => printed'[k] \in Lines /\ printed'[k][1] <= G
  <2> SUFFICES ASSUME NEW k \in 1 .. N + 1, printed'[k] # <<>>
               PROVE  printed'[k] \in Lines /\ printed'[k][1] <= G
    OBVIOUS
  <2>1. CASE k \in 1 .. N
    <3>1. printed'[k] = printed[k] /\ printed[k] \in Lines /\ printed[k][1] <= H
      BY <1>1, <1>4, <2>1
    <3>2. printed[k][1] \in Nat
      BY <1>3, <3>1
    <3> QED BY <1>6, <3>1, <3>2
  <2>2. CASE k = N + 1
    BY <1>1, <1>7, <2>2
  <2> QED BY <1>8, <2>1, <2>2
<1>10. ASSUME NEW j \in 1 .. N + 1, NEW k \in 1 .. N + 1,
              j < k, printed'[j] # <<>>, printed'[k] # <<>>
       PROVE  printed'[j][1] < printed'[k][1]
  <2>1. j \in 1 .. N
    BY <1>1, <1>10
  <2>2. CASE k \in 1 .. N
    BY <1>1, <1>5, <1>10, <2>1, <2>2
  <2>3. CASE k = N + 1
    <3>1. printed'[j] = printed[j] /\ printed[j] \in Lines /\ printed[j][1] <= H
      BY <1>1, <1>4, <1>10, <2>1
    <3>2. printed[j][1] \in Nat
      BY <1>3, <3>1
    <3>3. printed'[k] = line /\ line[1] = H + 1
      BY <1>1, <1>7, <1>10, <2>3
    <3> QED BY <1>6, <3>1, <3>2, <3>3
  <2> QED BY <1>8, <2>2, <2>3
<1>11. PrintedAre'
  BY <1>1, <1>2, <1>9 DEF PrintedAre, G
<1>12. PrintedRise'
  BY <1>1, <1>10 DEF PrintedRise
<1>13. /\ \A k \in 1 .. N : k \in 1 .. Len(printed')
       /\ N + 1 \in 1 .. Len(printed')
  BY <1>1
<1> QED BY <1>1, <1>11, <1>12, <1>13 DEF N

\* Places of a piece of the output that follows a place where lines begin.
LEMMA SpanIsLine ==
  ASSUME NEW s \in Seq(Text), read \in Nat, Len(output) \in Nat, NEW h \in Nat, s # <<>>,
         \A n \in 1 .. Len(s) : s[n] = h + n, AtStart(h),
         h + Len(s) < Len(output), output[h + Len(s) + 1] # "text"
  PROVE  s \in Lines /\ s[1] = h + 1 /\ s = Range(h + 1, h + Len(s))
<1>1. s \in Seq(Nat)
  <2>1. Text \subseteq Nat
    BY DEF Text
  <2> QED BY <2>1, SeqGrows
<1>2. s = Range(h + 1, h + Len(s)) /\ h + 1 <= h + Len(s)
  BY <1>1, IsRange
<1> DEFINE d == Len(s)
<1>3. d \in Nat /\ d > 0
  OBVIOUS
<1>4. \A n \in 1 .. d : s[n] \in Text
  BY ElementIn
<1>5. \A m \in h + 1 .. h + d : output[m] = "text"
  <2> SUFFICES ASSUME NEW m \in h + 1 .. h + d PROVE output[m] = "text"
    OBVIOUS
  <2>1. m - h \in 1 .. d /\ h + (m - h) = m
    BY <1>3
  <2>2. s[m - h] = m /\ s[m - h] \in Text
    BY <1>4, <2>1
  <2> QED BY <2>2 DEF Text
<1>6. h + d < Len(output) /\ output[h + d + 1] # "text" /\ s = Range(h + 1, h + d) /\ s[1] = h + 1
  BY <1>2, <1>3
<1> HIDE DEF d
<1>7. h + 1 = 1 \/ output[h + 1 - 1] = "eol"
  <2>1. h + 1 - 1 = h
    OBVIOUS
  <2> QED BY <2>1 DEF AtStart
<1>8. h + 1 \in 1 .. Len(output) /\ h + d \in 1 .. Len(output) /\ h + 1 <= h + d
  BY <1>3, <1>6
<1>9. Span(h + 1, h + d)
  BY <1>5, <1>6, <1>7, <1>8 DEF Span
<1>10. s \in Lines
  BY <1>6, <1>8, <1>9, LinesAre
<1> QED BY <1>2, <1>6, <1>10

-----------------------------------------------------------------------------
(***************************************************************************)
(* The steps of the reader.                                                *)
(***************************************************************************)
\* The reader begins, goes on to read, or does nothing.
LEMMA OnlyReaderOrders ==
  ASSUME LInv, UNCHANGED <<output, read, partial, printed, faulty>>,
         reader' = reader \/ {reader, reader'} \subseteq {None, "read", "split"}
  PROVE  LInv'
<1> SUFFICES ASSUME Regular' PROVE (PartialIs /\ PrintedAre /\ PrintedRise /\ PrintedAll)'
  BY DEF LInv
<1>1. Regular /\ Handled' = Handled
  BY DEF Regular, Clean, Handled
<1>2. PartialIs'
  BY <1>1 DEF LInv, PartialIs, AtStart, None
<1> QED BY <1>1, <1>2, PrintedKept DEF LInv

LEMMA ReadsNothingOrders ==
  ASSUME output \in Seq(Symbols), ReaderShape, LInv, ReadsNothing, faulty' = faulty
  PROVE  LInv'
<1> SUFFICES ASSUME Regular' PROVE (PartialIs /\ PrintedAre /\ PrintedRise /\ PrintedAll)'
  BY DEF LInv
<1>1. /\ output' = output /\ printed' = printed /\ partial' = partial
      /\ reader' = "last" /\ reader = "read" /\ read' = read + 1 /\ output[read + 1] = "empty"
  BY DEF ReadsNothing, process, Reading, NextIsEmpty
<1>2. Regular
  BY <1>1 DEF Regular, Clean
<1>3. /\ Len(output) \in Nat /\ Len(partial) \in Nat /\ read \in Nat /\ read <= Len(output)
      /\ Handled \in Nat /\ Handled <= read
      /\ partial = <<>> => Handled = read /\ Len(partial) = 0
      /\ partial # <<>> => Handled = partial[1] - 1 /\ Len(partial) > 0
  BY HandledIs
<1>4. /\ \A i \in 1 .. Len(partial) : partial[i] = Handled + i
      /\ Handled + Len(partial) = read /\ AtStart(Handled)
      /\ \A i \in 1 .. read : output[i] # "empty"
      /\ PrintedAre /\ PrintedRise /\ PrintedAll
  BY <1>1, <1>2 DEF LInv, PartialIs
<1>5. Handled' = (IF partial = <<>> THEN read + 1 ELSE Handled)
  BY <1>1, <1>3 DEF Handled
<1>6. \A i \in 1 .. read' - 1 : output'[i] # "empty"
  BY <1>1, <1>3, <1>4
<1>7. CASE partial # <<>>
  <2>1. Handled' = Handled
    BY <1>5, <1>7
  <2>2. AtStart(Handled)' /\ Handled' + Len(partial') = read' - 1
    BY <1>1, <1>3, <1>4, <2>1 DEF AtStart
  <2>3. PartialIs'
    BY <1>1, <1>3, <1>4, <1>6, <1>7, <2>1, <2>2 DEF PartialIs, None
  <2> QED BY <1>1, <1>4, <2>1, <2>3, PrintedKept
<1>8. CASE partial = <<>>
  <2>1. Handled' = read + 1 /\ Handled = read
    BY <1>3, <1>5, <1>8
  <2>2. PartialIs'
    <3>1. 1 .. Len(partial') = {}
      BY <1>1, <1>3, <1>8
    <3> QED BY <1>1, <1>3, <1>6, <1>8, <3>1 DEF PartialIs, None
  <2>3. PrintedAre' /\ PrintedRise'
    <3>1. Handled' \in Nat /\ Handled <= Handled'
      BY <1>3, <2>1
    <3> QED BY <1>1, <1>3, <1>4, <3>1, HandledGrows
  <2>4. PrintedAll'
    <3>1. Lines' = Lines /\ \A l : Ended(l)' = Ended(l)
      BY <1>1 DEF Lines, Ended
    <3>2. ASSUME NEW l \in Lines, l[Len(l)] < read + 1 PROVE l[Len(l)] < read
      <4>1. PICK i, j \in 1 .. Len(output) : Span(i, j) /\ l[Len(l)] = j
        BY <1>3, LineIs
      <4>2. output[j] = "text"
        BY <4>1 DEF Span
      <4>3. j # read
        BY <1>4, <2>1, <4>2 DEF AtStart
      <4> QED BY <1>3, <3>2, <4>1, <4>3
    <3>3. \A l \in Lines : Ended(l) /\ l[Len(l)] < read => \E k \in 1 .. Len(printed) : printed[k] = l
      BY <1>4, <2>1 DEF PrintedAll
    <3> QED BY <1>1, <2>1, <3>1, <3>2, <3>3 DEF PrintedAll
  <2> QED BY <2>2, <2>3, <2>4
<1> QED BY <1>7, <1>8

LEMMA PrintsRestOrders ==
  ASSUME output \in Seq(Symbols), ReaderShape, LInv, PrintsRest, faulty' = faulty
  PROVE  LInv'
<1> SUFFICES ASSUME Regular' PROVE (PartialIs /\ PrintedAre /\ PrintedRise /\ PrintedAll)'
  BY DEF LInv
<1>1. /\ output' = output /\ partial' = <<>> /\ reader' = "done" /\ reader = "last" /\ read' = read
      /\ printed' = IF partial = <<>> THEN printed ELSE Append(printed, partial)
  BY DEF PrintsRest, process
<1>2. Regular
  BY <1>1 DEF Regular, Clean
<1>3. /\ Len(output) \in Nat /\ Len(partial) \in Nat /\ read \in Nat /\ read <= Len(output)
      /\ Handled \in Nat /\ Handled <= read
      /\ partial = <<>> => Handled = read /\ Len(partial) = 0
      /\ partial # <<>> => Handled = partial[1] - 1 /\ Len(partial) > 0
  BY HandledIs
<1>4. /\ \A i \in 1 .. Len(partial) : partial[i] = Handled + i
      /\ read > 0 /\ output[read] = "empty" /\ \A i \in 1 .. read - 1 : output[i] # "empty"
      /\ partial # <<>> => Handled + Len(partial) = read - 1 /\ AtStart(Handled)
      /\ PrintedAre /\ PrintedRise /\ PrintedAll
  BY <1>1, <1>2 DEF LInv, PartialIs
<1>5. Handled' = read /\ PartialIs'
  <2>1. 1 .. Len(<<>>) = {}
    OBVIOUS
  <2> QED BY <1>1, <2>1 DEF Handled, PartialIs, None
<1>6. CASE partial = <<>>
  BY <1>1, <1>3, <1>4, <1>5, <1>6, PrintedKept
<1>7. CASE partial # <<>>
  <2>1. partial \in Seq(Text) /\ \A n \in 1 .. Len(partial) : output[partial[n]] = "text"
    <3>1. \A n \in 1 .. Len(partial) : output[partial[n]] = "text"
      BY <1>1 DEF ReaderShape, HasEol, IsEol
    <3>2. partial \in Seq(1 .. read)
      BY DEF ReaderShape
    <3>3. \A n \in 1 .. Len(partial) : partial[n] \in Text
      BY <3>1, <3>2, ElementIn DEF Text
    <3> QED BY <3>1, <3>2, <3>3
  <2>2. /\ Handled + Len(partial) < Len(output) /\ Handled + Len(partial) + 1 = read
        /\ output[Handled + Len(partial) + 1] # "text"
    BY <1>3, <1>4, <1>7
  <2>3. partial \in Lines /\ partial[1] = Handled + 1
    BY <1>3, <1>4, <1>7, <2>1, <2>2, SpanIsLine
  <2>4. Handled' \in Nat /\ Handled <= Handled' /\ Handled + 1 <= Handled'
    BY <1>3, <1>5, <2>2
  <2>5. printed \in Seq(Seq(Text)) /\ partial \in Seq(Text) /\ printed' = Append(printed, partial)
    BY <1>1, <1>7, <2>1 DEF ReaderShape
  <2>6. /\ PrintedAre' /\ PrintedRise'
        /\ \A k \in 1 .. Len(printed) : k \in 1 .. Len(printed') /\ printed'[k] = printed[k]
    <3> DEFINE A == Seq(Text)
    <3>1. printed \in Seq(A) /\ partial \in A
      BY <2>5
    <3> HIDE DEF A
    <3> QED BY <1>1, <1>3, <1>4, <2>3, <2>4, <2>5, <3>1, AppendsLine
  <2>7. PrintedAll'
    <3>1. Lines' = Lines /\ \A l : Ended(l)' = Ended(l)
      BY <1>1 DEF Lines, Ended
    <3>2. ASSUME NEW l \in Lines, Ended(l), l[Len(l)] < read PROVE l[Len(l)] < Handled
      <4>1. PICK i, j \in 1 .. Len(output) :
              Span(i, j) /\ l[Len(l)] = j /\ (Ended(l) <=> output[j + 1] = "eol")
        BY <1>3, LineIs
      <4>2. output[j] = "text" /\ output[j + 1] = "eol" /\ j < read
        BY <3>2, <4>1 DEF Span
      <4>3. j # Handled
        BY <1>4, <1>7, <4>2 DEF AtStart
      <4>4. CASE j > Handled
        <5>1. j + 1 = read \/ j + 1 - Handled \in 1 .. Len(partial)
          BY <1>3, <2>2, <4>2, <4>4
        <5>2. j + 1 # read
          BY <1>4, <4>2
        <5>3. j + 1 - Handled \in 1 .. Len(partial)
              => partial[j + 1 - Handled] = Handled + (j + 1 - Handled)
          BY <1>4
        <5>4. Handled + (j + 1 - Handled) = j + 1
          BY <1>3
        <5> QED BY <2>1, <4>2, <5>1, <5>2, <5>3, <5>4
      <4> QED BY <1>3, <4>1, <4>3, <4>4
    <3>3. \A l \in Lines : Ended(l) /\ l[Len(l)] < Handled => \E k \in 1 .. Len(printed) : printed[k] = l
      BY <1>4 DEF PrintedAll
    <3> QED BY <1>5, <2>6, <3>1, <3>2, <3>3 DEF PrintedAll
  <2> QED BY <1>5, <2>6, <2>7
<1> QED BY <1>6, <1>7

\* The ends of lines that PrintsLine skips, and the places it takes off.
LEMMA SplitAt ==
  ASSUME ReaderShape, HasEol, NEW h \in Nat, \A i \in 1 .. Len(partial) : partial[i] = h + i
  PROVE  /\ FirstEol \in Nat /\ AfterEols \in Nat /\ Len(partial) \in Nat
         /\ 1 <= FirstEol /\ FirstEol < AfterEols /\ AfterEols <= Len(partial) + 1
         /\ \A m \in h + FirstEol .. h + AfterEols - 1 : output[m] = "eol"
         /\ \A m \in h + 1 .. h + FirstEol - 1 : output[m] # "eol"
<1> DEFINE f == FirstEol
           a == AfterEols
           L == Len(partial)
<1>1. L \in Nat
  BY DEF ReaderShape
<1>2. /\ f \in 1 .. L /\ a \in f + 1 .. L + 1
      /\ \A i \in 1 .. f - 1 : ~IsEol(i)
      /\ \A i \in f .. a - 1 : IsEol(i)
  BY <1>1, FirstEolIs, AfterEolsIs
<1>3. \A i \in 1 .. L : IsEol(i) <=> output[h + i] = "eol"
  BY DEF IsEol
<1> HIDE DEF f, a, L
<1>4. ASSUME NEW m \in h + f .. h + a - 1 PROVE output[m] = "eol"
  <2>1. m - h \in 1 .. L /\ m - h \in f .. a - 1 /\ h + (m - h) = m
    BY <1>1, <1>2
  <2> QED BY <1>2, <1>3, <2>1
<1>5. ASSUME NEW m \in h + 1 .. h + f - 1 PROVE output[m] # "eol"
  <2>1. m - h \in 1 .. L /\ m - h \in 1 .. f - 1 /\ h + (m - h) = m
    BY <1>1, <1>2
  <2> QED BY <1>2, <1>3, <2>1
<1>6. f \in Nat /\ a \in Nat /\ 1 <= f /\ f < a /\ a <= L + 1
  BY <1>1, <1>2
<1> QED BY <1>1, <1>4, <1>5, <1>6 DEF f, a, L

LEMMA PrintsLineOrders ==
  ASSUME output \in Seq(Symbols), ReaderShape, LInv, PrintsLine, faulty' = faulty
  PROVE  LInv'
<1> SUFFICES ASSUME Regular' PROVE (PartialIs /\ PrintedAre /\ PrintedRise /\ PrintedAll)'
  BY DEF LInv
<1> DEFINE f == FirstEol
           a == AfterEols
           L == Len(partial)
           H == Handled
           G == Handled'
<1>1. /\ output' = output /\ read' = read /\ reader' = "split" /\ reader = "split" /\ HasEol
      /\ printed' = Append(printed, Line) /\ partial' = SubSeq(partial, a, L)
  BY DEF PrintsLine, process
<1>2. Regular
  BY <1>1 DEF Regular, Clean
<1>3. /\ Len(output) \in Nat /\ L \in Nat /\ read \in Nat /\ read <= Len(output) /\ H \in Nat
  BY HandledIs
<1>4. /\ \A i \in 1 .. L : partial[i] = H + i
      /\ H + L = read /\ AtStart(H) /\ \A i \in 1 .. read : output[i] # "empty"
      /\ PrintedAre /\ PrintedRise /\ PrintedAll
  BY <1>1, <1>2 DEF LInv, PartialIs
<1>5. /\ f \in Nat /\ a \in Nat /\ 1 <= f /\ f < a /\ a <= L + 1
      /\ \A m \in H + f .. H + a - 1 : output[m] = "eol"
      /\ \A m \in H + 1 .. H + f - 1 : output[m] # "eol"
  BY <1>1, <1>3, <1>4, SplitAt
<1>6. Line \in Seq(Text) /\ Len(Line) = f - 1 /\ \A i \in 1 .. f - 1 : Line[i] = H + i
  <2>1. Line \in Seq(Text) /\ Len(Line) = f - 1 /\ \A i \in 1 .. f - 1 : Line[i] = partial[i]
    BY <1>1, LineShape
  <2>2. \A i \in 1 .. f - 1 : i \in 1 .. L
    BY <1>3, <1>5
  <2> QED BY <1>4, <2>1, <2>2
<1>7. Len(partial') = L - a + 1 /\ \A i \in 1 .. L - a + 1 : partial'[i] = (H + a - 1) + i
  <2>1. partial \in Seq(1 .. read) /\ a \in 1 .. Len(partial) + 1 /\ L \in a - 1 .. Len(partial)
    BY <1>3, <1>5 DEF ReaderShape
  <2>2. /\ Len(partial') = L - a + 1
        /\ \A i \in 1 .. L - a + 1 : partial'[i] = partial[a + i - 1]
    BY <1>1, <2>1, PartShape
  <2>3. \A i \in 1 .. L - a + 1 : a + i - 1 \in 1 .. L /\ H + (a + i - 1) = (H + a - 1) + i
    BY <1>3, <1>5
  <2> QED BY <1>4, <2>2, <2>3
<1>8. G = H + a - 1
  <2>1. CASE a = L + 1
    <3>1. partial' = <<>>
      BY <1>1, <1>3, <2>1
    <3>2. G = read
      BY <1>1, <3>1 DEF Handled
    <3> HIDE DEF H, G
    <3> QED BY <1>3, <1>4, <1>5, <2>1, <3>2
  <2>2. CASE a # L + 1
    <3>1. 1 \in 1 .. L - a + 1 /\ L - a + 1 # 0
      BY <1>3, <1>5, <2>2
    <3>2. partial' # <<>> /\ partial'[1] = (H + a - 1) + 1
      BY <1>7, <3>1
    <3>3. G = partial'[1] - 1
      BY <3>2 DEF Handled
    <3> HIDE DEF H, G
    <3> QED BY <1>3, <1>5, <3>2, <3>3
  <2> QED BY <2>1, <2>2
<1>9. G \in Nat /\ H <= G /\ H + 1 <= G /\ H + f <= G
  BY <1>3, <1>5, <1>8
<1>10. AtStart(G)
  <2>1. G \in H + f .. H + a - 1
    BY <1>3, <1>5, <1>8, <1>9
  <2> QED BY <1>5, <2>1 DEF AtStart
<1>11. PartialIs'
  <2>1. G + Len(partial') = read
    <3>1. L - a + 1 + (H + a - 1) = H + L
      BY <1>3, <1>5
    <3> HIDE DEF a, L, H, G
    <3>2. L - a + 1 \in Nat /\ H + a - 1 \in Nat
      BY <1>3, <1>5
    <3> QED BY <1>4, <1>7, <1>8, <3>1, <3>2
  <2>2. \A i \in 1 .. Len(partial') : partial'[i] = G + i
    BY <1>7, <1>8
  <2>3. AtStart(Handled)'
    BY <1>1, <1>10 DEF AtStart
  <2> QED BY <1>1, <1>4, <2>1, <2>2, <2>3 DEF PartialIs, None
<1>12. Line # <<>> => /\ Line \in Lines /\ Line[1] = H + 1
                      /\ Line = Range(H + 1, H + f - 1)
  <2> SUFFICES ASSUME Line # <<>>
               PROVE  Line \in Lines /\ Line[1] = H + 1 /\ Line = Range(H + 1, H + f - 1)
    OBVIOUS
  <2>1. H + Len(Line) < Len(output) /\ H + Len(Line) = H + f - 1
    BY <1>3, <1>4, <1>5, <1>6
  <2>2. output[H + Len(Line) + 1] # "text"
    <3>1. H + Len(Line) + 1 \in H + f .. H + a - 1
      BY <1>3, <1>5, <1>6
    <3> QED BY <1>5, <3>1
  <2>3. \A i \in 1 .. Len(Line) : Line[i] = H + i
    BY <1>6
  <2> HIDE DEF H
  <2> QED BY <1>3, <1>4, <1>6, <2>1, <2>2, <2>3, SpanIsLine
<1>13. /\ PrintedAre' /\ PrintedRise'
       /\ \A k \in 1 .. Len(printed) : k \in 1 .. Len(printed') /\ printed'[k] = printed[k]
       /\ \E k \in 1 .. Len(printed') : printed'[k] = Line
  <2> DEFINE A == Seq(Text)
  <2>1. printed \in Seq(A) /\ Line \in A
    BY <1>6 DEF ReaderShape
  <2> HIDE DEF A
  <2>2. Line # <<>> => Line \in Lines /\ Line[1] = Handled + 1 /\ Handled + 1 <= Handled'
    BY <1>9, <1>12
  <2> QED BY <1>1, <1>3, <1>4, <1>9, <2>1, <2>2, AppendsLine
<1>14. PrintedAll'
  <2>1. Lines' = Lines /\ \A l : Ended(l)' = Ended(l)
    BY <1>1 DEF Lines, Ended
  <2>2. ASSUME NEW l \in Lines, Ended(l), l[Len(l)] < G
        PROVE  l[Len(l)] < H \/ l = Line
    <3>1. PICK i, j \in 1 .. Len(output) :
            /\ Span(i, j) /\ l = Range(i, j) /\ l[Len(l)] = j
            /\ Ended(l) <=> output[j + 1] = "eol"
      BY <1>3, LineIs
    <3>2. /\ i <= j /\ \A m \in i .. j : output[m] = "text"
          /\ i = 1 \/ output[i - 1] = "eol"
          /\ output[j + 1] = "eol" /\ j < G /\ output[j] = "text"
      BY <2>2, <3>1 DEF Span
    <3> SUFFICES ASSUME j >= H PROVE l = Line
      BY <1>3, <3>1
    <3> HIDE DEF f, a, L, H, G
    <3>3. H # 0 => output[H] = "eol"
      BY <1>4 DEF AtStart
    <3>4. j > H
      BY <1>3, <3>2, <3>3
    <3>5. j = H + f - 1
      <4>1. ~(j \in H + f .. H + a - 1)
        BY <1>5, <3>2
      <4>2. ~(j + 1 \in H + 1 .. H + f - 1)
        BY <1>5, <3>2
      <4> QED BY <1>3, <1>5, <1>8, <3>2, <3>4, <4>1, <4>2
    <3>6. i = H + 1
      <4>1. ~(i <= H)
        <5>1. i <= H => H \in i .. j /\ H # 0
          BY <1>3, <3>4
        <5> QED BY <3>2, <3>3, <5>1
      <4>2. ~(i - 1 \in H + 1 .. H + f - 1)
        BY <1>5, <3>2, <4>1, <1>3
      <4> QED BY <1>3, <1>5, <3>2, <3>5, <4>1, <4>2
    <3>7. Line # <<>>
      BY <1>5, <1>6, <3>4, <3>5, <1>3
    <3> QED BY <1>12, <3>1, <3>5, <3>6, <3>7
  <2>3. \A l \in Lines : Ended(l) /\ l[Len(l)] < H => \E k \in 1 .. Len(printed) : printed[k] = l
    BY <1>4 DEF PrintedAll
  <2> QED BY <1>13, <2>1, <2>2, <2>3 DEF PrintedAll
<1> QED BY <1>11, <1>13, <1>14

LEMMA ReaderOrders ==
  ASSUME output \in Seq(Symbols), ReaderShape, LInv, ReadFromPipe, faulty' = faulty
  PROVE  LInv'
<1>1. CASE ReadFails
  BY <1>1 DEF ReadFails, LInv, Regular
<1>2. CASE KeepsRest
  BY <1>2, OnlyReaderOrders DEF KeepsRest, process
<1> QED
  BY <1>1, <1>2, ReadsOrders, ReadsNothingOrders, PrintsLineOrders, PrintsRestOrders
  DEF ReadFromPipe

-----------------------------------------------------------------------------
(***************************************************************************)
(* What the child writes comes after all that is read.                     *)
(***************************************************************************)
SpansOfOutput ==
  \A l : l \in Lines <=> \E i, j \in 1 .. Len(output) : Span(i, j) /\ l = Range(i, j)

LEMMA LinesAreNext ==
  \A l : l \in Lines' <=> \E i, j \in 1 .. Len(output') : Span(i, j)' /\ l = Range(i, j)
<1>1. SpansOfOutput
  BY LinesAre DEF SpansOfOutput
<1>2. SpansOfOutput'
  BY <1>1, PTL
<1> QED BY <1>2 DEF SpansOfOutput

LEMMA SpanGrows ==
  ASSUME Len(output) \in Nat, Len(output') = Len(output) + 1,
         \A n \in 1 .. Len(output) : output'[n] = output[n],
         NEW i \in Nat, NEW j \in Nat
  PROVE  /\ Span(i, j) => Span(i, j)'
         /\ Span(i, j)' /\ j < Len(output) => Span(i, j)
<1> DEFINE N == Len(output)
<1>1. /\ N \in Nat /\ Len(output') = N + 1 /\ \A n \in 1 .. N : output'[n] = output[n]
  OBVIOUS
<1>2. ASSUME i \in 1 .. N, j \in 1 .. N, i <= j, j < N
      PROVE  /\ \A n \in i .. j : output'[n] = output[n]
             /\ i = 1 \/ output'[i - 1] = output[i - 1]
             /\ output'[j + 1] = output[j + 1]
  <2>1. j + 1 \in 1 .. N /\ (i = 1 \/ i - 1 \in 1 .. N) /\ \A n \in i .. j : n \in 1 .. N
    BY <1>1, <1>2
  <2> QED BY <1>1, <2>1
<1> HIDE DEF N
<1>3. Span(i, j) => Span(i, j)'
  <2> SUFFICES ASSUME Span(i, j) PROVE Span(i, j)'
    OBVIOUS
  <2>1. i \in 1 .. N /\ j \in 1 .. N /\ i <= j /\ j < N
    BY DEF Span, N
  <2>2. i \in 1 .. N + 1 /\ j \in 1 .. N + 1 /\ j < N + 1
    BY <1>1, <2>1
  <2> QED BY <1>1, <1>2, <2>1, <2>2 DEF Span
<1>4. Span(i, j)' /\ j < N => Span(i, j)
  <2> SUFFICES ASSUME Span(i, j)', j < N PROVE Span(i, j)
    OBVIOUS
  <2>1. i \in 1 .. N + 1 /\ j \in 1 .. N + 1 /\ i <= j
    BY <1>1 DEF Span
  <2>2. i \in 1 .. N /\ j \in 1 .. N
    BY <1>1, <2>1
  <2> QED BY <1>2, <2>1, <2>2 DEF Span, N
<1> QED BY <1>3, <1>4 DEF N

LEMMA WriteOrders ==
  ASSUME output \in Seq(Symbols), ReaderShape, LInv, ChildWrites, faulty' = faulty
  PROVE  LInv'
<1> SUFFICES ASSUME Regular' PROVE (PartialIs /\ PrintedAre /\ PrintedRise /\ PrintedAll)'
  BY DEF LInv
<1>1. UNCHANGED <<read, reader, partial, printed>> /\ Handled' = Handled
  BY DEF ChildWrites, reading, Handled
<1>2. /\ Len(output') = Len(output) + 1
      /\ \A n \in 1 .. Len(output) : output'[n] = output[n]
  <2>1. PICK c \in Symbols : output' = Append(output, c)
    BY DEF ChildWrites
  <2> QED BY <2>1
<1>3. /\ Len(output) \in Nat /\ read \in Nat /\ read <= Len(output)
      /\ Handled \in Nat /\ Handled <= read
  BY HandledIs
<1>4. Regular
  BY <1>2, <1>3 DEF Regular, Clean
<1>5. PartialIs /\ PrintedAre /\ PrintedRise /\ PrintedAll
  BY <1>4 DEF LInv
<1>6. \A n \in 1 .. read : output'[n] = output[n]
  BY <1>2, <1>3
<1>7. PartialIs'
  <2>1. AtStart(Handled)' <=> AtStart(Handled)
    <3>1. Handled = 0 \/ Handled \in 1 .. read
      BY <1>3
    <3> QED BY <1>1, <1>6, <3>1 DEF AtStart
  <2>2. /\ \A n \in 1 .. Len(partial) : partial[n] = Handled + n
        /\ reader \in {None, "read", "split"} =>
             /\ Handled + Len(partial) = read /\ AtStart(Handled)
             /\ \A n \in 1 .. read : output[n] # "empty"
        /\ reader = "last" =>
             /\ read > 0 /\ output[read] = "empty" /\ \A n \in 1 .. read - 1 : output[n] # "empty"
             /\ partial # <<>> => Handled + Len(partial) = read - 1 /\ AtStart(Handled)
        /\ reader = "done" => partial = <<>>
    BY <1>5 DEF PartialIs
  <2>3. (\A n \in 1 .. read : output[n] # "empty") => \A n \in 1 .. read : output'[n] # "empty"
    BY <1>6
  <2>4. read > 0 /\ output[read] = "empty" /\ (\A n \in 1 .. read - 1 : output[n] # "empty")
        => output'[read] = "empty" /\ (\A n \in 1 .. read - 1 : output'[n] # "empty")
    BY <1>3, <1>6
  <2> HIDE DEF Handled
  <2> QED BY <1>1, <2>1, <2>2, <2>3, <2>4 DEF PartialIs
<1>8. Lines \subseteq Lines'
  <2> SUFFICES ASSUME NEW l \in Lines PROVE l \in Lines'
    OBVIOUS
  <2>1. PICK i, j \in 1 .. Len(output) : Span(i, j) /\ l = Range(i, j)
    BY LinesAre
  <2>2. Span(i, j)' /\ i \in 1 .. Len(output') /\ j \in 1 .. Len(output')
    BY <1>2, <1>3, <2>1, SpanGrows
  <2> QED BY <2>1, <2>2, LinesAreNext
<1>9. ASSUME NEW l \in Lines', l[Len(l)] < Handled, Ended(l)'
      PROVE  l \in Lines /\ Ended(l)
  <2>1. PICK i, j \in 1 .. Len(output') : Span(i, j)' /\ l = Range(i, j)
    BY <1>9, LinesAreNext
  <2>2. i \in Nat /\ j \in Nat /\ i <= j
    BY <2>1 DEF Span
  <2>3. l[Len(l)] = j
    BY <2>1, <2>2, RangeIs
  <2>4. j < Len(output) /\ i \in 1 .. Len(output) /\ j \in 1 .. Len(output) /\ j + 1 \in 1 .. Len(output)
    BY <1>2, <1>3, <1>9, <2>1, <2>2, <2>3
  <2>5. Span(i, j)
    BY <1>2, <1>3, <2>1, <2>2, <2>4, SpanGrows
  <2>6. l \in Lines
    BY <2>1, <2>4, <2>5, LinesAre
  <2>7. Ended(l)
    BY <1>2, <1>9, <2>3, <2>4 DEF Ended
  <2> QED BY <2>6, <2>7
<1>10. PrintedAre' /\ PrintedRise'
  BY <1>1, <1>5, <1>8 DEF PrintedAre, PrintedRise
<1>11. PrintedAll'
  BY <1>1, <1>5, <1>9 DEF PrintedAll
<1> QED BY <1>7, <1>10, <1>11

-----------------------------------------------------------------------------
(***************************************************************************)
(* The steps of the whole process.                                         *)
(***************************************************************************)
LEMMA LStep ==
  ASSUME TInv, LInv, [Next]_vars
  PROVE  LInv'
<1>1. output \in Seq(Symbols) /\ ReaderShape /\ Fresh
  BY DEF TInv, OutputOK
<1>2. CASE Main
  <2>1. UNCHANGED <<output, read, partial, printed, faulty>>
    BY <1>2
    DEF Main, ReturnsEarly, InstallsHandler, CreatesChild, CreateChildFails, SeesChildExit,
        ChildWaitFails, Waits, SeesStop, WaitFails, Closes, Exits, settings, process, reading
  <2>2. reader' = reader \/ {reader, reader'} \subseteq {None, "read", "split"}
    BY <1>1, <1>2
    DEF Main, ReturnsEarly, InstallsHandler, CreatesChild, CreateChildFails, SeesChildExit,
        ChildWaitFails, Waits, SeesStop, WaitFails, Closes, Exits, reading, Fresh
  <2> QED BY <2>1, <2>2, OnlyReaderOrders
<1>3. CASE Reader
  BY <1>1, <1>3, ReaderOrders DEF Reader, settings
<1>4. CASE Others
  <2>1. faulty' = faulty
    BY <1>4 DEF Others, settings
  <2>2. CASE ChildWrites
    BY <1>1, <2>1, <2>2, WriteOrders
  <2>3. CASE ChildExits \/ ChildTakesCtrl
    BY <2>1, <2>3, OnlyReaderOrders DEF ChildExits, ChildTakesCtrl, reading
  <2> QED BY <1>4, <2>2, <2>3 DEF Others, Child
<1>5. CASE \E h \in Handlers : ControlHandle(h)
  <2>1. PICK h \in Handlers : ControlHandle(h)
    BY <1>5
  <2>2. UNCHANGED <<output, read, reader, partial, printed, faulty>>
    BY <2>1
    DEF ControlHandle, HandlerSetsEvent, HandlerForgetsEvent, HandlerIgnores, HandlerGenerates,
        HandlerEndsProcess, settings, process, reading
  <2> QED BY <2>2, OnlyReaderOrders
<1>6. CASE \E type \in Controls : CtrlArrives(type)
  <2>1. UNCHANGED <<output, read, reader, partial, printed, faulty>>
    BY <1>6 DEF CtrlArrives, settings, reading
  <2> QED BY <2>1, OnlyReaderOrders
<1>7. CASE UNCHANGED vars
  BY <1>7, OnlyReaderOrders DEF vars, settings, process, reading
<1> QED BY <1>2, <1>3, <1>4, <1>5, <1>6, <1>7 DEF Next

(***************************************************************************)
(* The lines that are printed are the lines the child wrote, whole, once   *)
(* each and in their order, however the output is cut into chunks.         *)
(***************************************************************************)
THEOREM LinesCorrect == Spec => []LinesInOrder
<1>1. Init => LInv
  <2> SUFFICES ASSUME Init PROVE LInv
    OBVIOUS
  <2>1. output = <<>> /\ read = 0 /\ partial = <<>> /\ printed = <<>> /\ reader = None
    BY DEF Init, ProcessInit
  <2>2. Handled = 0 /\ 1 .. Len(<<>>) = {}
    BY <2>1 DEF Handled
  <2>3. Lines = {}
    BY <2>1, <2>2, LinesAre
  <2> QED
    BY <2>1, <2>2, <2>3
    DEF LInv, PartialIs, PrintedAre, PrintedRise, PrintedAll, AtStart, None
<1>2. TInv /\ LInv /\ [Next]_vars => LInv'
  BY LStep
<1> QED BY <1>1, <1>2, TInvHolds, LInvImplies, PTL DEF Spec
=============================================================================
