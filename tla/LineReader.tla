----------------------------- MODULE LineReader -----------------------------
(***************************************************************************)
(* How the log file monitor turns the bytes of one file into lines         *)
(* (ReadLogFile, WriteToConsole, FileTypeFromBuffer, ConvertStringToUTF16  *)
(* of LogFileMonitor.cpp) while an application appends to the file.        *)
(* FileTail says which files are read and when; here a read may begin at   *)
(* any time.                                                               *)
(*                                                                         *)
(* A character is "text", an end of line, or a "wide" one, whose bytes     *)
(* depend on the encoding of the file and none of which is ASCII or zero.  *)
(* Places are counted in bytes.                                            *)
(***************************************************************************)
EXTENDS Naturals, Sequences, SequencesExt, Selections

CONSTANTS
  Files,       \* the files: their encoding and what is written, BOM included
  ChunkSize,   \* bytesToRead, 4096 in the code
  MaxThrows    \* bound: exceptions while a chunk is handled

VARIABLES
  file,        \* the file that is written
  size,        \* bytes of it that are written
  start,       \* bytes that were there when the monitor started
  reader,      \* where ReadLogFile is
  offset,      \* NextReadOffset
  encoding,    \* EncodingType
  wasBomRead,  \* the first bytes of the file were read apart
  line,        \* currentLineBuffer: characters with their places
  printed,     \* the lines printed
  ends,        \* places where a read ended
  throws,      \* exceptions so far
  cut,         \* a chunk has ended inside a character
  bomFailed    \* the first bytes could not be read apart

vars == <<file, size, start, reader, offset, encoding, wasBomRead, line, printed, ends, throws, cut,
          bomFailed>>

Unknown == "FileTypeUnknown"
Written == {"bom", "text", "wide", "lf", "cr"}
Multibyte == {"UTF16LE", "UTF16BE"}

Width(enc, c) ==
  IF enc \in Multibyte THEN 2
  ELSE IF c = "bom" THEN 3
  ELSE IF c = "wide" /\ enc = "UTF8" THEN 2 ELSE 1

\* The bytes of a file: the character of each, and which of its bytes it is.
BytesOf(enc, c) == [k \in 1 .. Width(enc, c) |-> [c |-> c, k |-> k, of |-> Width(enc, c)]]
Layout ==
  [f \in Files |-> Joined([i \in 1 .. Len(f.chars) |-> BytesOf(f.encoding, f.chars[i])], Len(f.chars))]
Bytes == Layout[file]
Begins(i) == Bytes[i].k = 1
EndsChar(i) == i = 0 \/ Bytes[i].k = Bytes[i].of

ASSUME LineReaderAssumption ==
  /\ \A f \in Files : f.encoding \in {"ANSI", "UTF8"} \cup Multibyte /\ f.chars \in Seq(Written)
  /\ \A f \in Files : f.encoding = "ANSI" => f.chars \in Seq(Written \ {"bom"})
  /\ ChunkSize \in Nat \ {0} /\ MaxThrows \in Nat

\* A file that is there already is read from its end.
Init ==
  /\ file \in Files
  /\ start \in {0} \cup {i \in 1 .. Len(Bytes) : EndsChar(i)}
  /\ size = start /\ offset = start
  /\ reader = "idle" /\ encoding = Unknown /\ wasBomRead = FALSE
  /\ line = <<>> /\ printed = <<>> /\ ends = {} /\ throws = 0 /\ cut = FALSE
  /\ bomFailed = FALSE

-----------------------------------------------------------------------------
(***************************************************************************)
(* FileTypeFromBuffer, for the content at from .. to and the bytes that    *)
(* are taken for the BOM, at first .. last.  Without a BOM, the heuristic  *)
(* of the system may take any content for UTF-16.                          *)
(***************************************************************************)
IsTextUTF8(from, to) ==
  \A i \in from .. to :
    /\ Bytes[i].c = "wide" => file.encoding = "UTF8"
    /\ Bytes[i].c = "bom" => Bytes[i].of = 3
    /\ Bytes[i].k = 1 => i + Bytes[i].of - 1 <= to \/ file.encoding \in Multibyte
    /\ Bytes[i].k > 1 => i - Bytes[i].k + 1 >= from \/ file.encoding \in Multibyte

FoundBom(first, last) ==
  /\ Bytes[first].c = "bom" /\ Bytes[first].k = 1
  /\ last >= first + Bytes[first].of - 1

FileTypesFromBuffer(from, to, first, last) ==
  IF to <= from /\ last <= first THEN {Unknown}
  ELSE IF FoundBom(first, last) THEN {file.encoding}
  ELSE {"UTF16LE", IF IsTextUTF8(from, to) THEN "UTF8" ELSE "ANSI"}

(***************************************************************************)
(* ConvertStringToUTF16: the characters of the bytes at from .. to, read   *)
(* in the given encoding.  A byte out of place gives some other character, *)
(* "?", or "nul" if it is zero; so does a byte of ANSI text that is not    *)
(* ASCII, which is widened with its sign.  A last byte that is half of a   *)
(* UTF-16 character is dropped.                                            *)
(***************************************************************************)
Char(c, i) == [c |-> c, at |-> i]

FromUTF16(type, from, to) ==
  [n \in 1 .. (to - from + 1) \div 2 |->
     LET i == from + 2 * (n - 1)
     IN Char(IF type = file.encoding /\ Begins(i) THEN Bytes[i].c ELSE "?", i)]

\* The byte i on its own: in UTF-16, ASCII has a zero byte beside its own.
Alone(i) ==
  IF Bytes[i].c \notin {"text", "lf", "cr"} THEN "?"
  ELSE IF Bytes[i].k = (IF file.encoding = "UTF16BE" THEN 2 ELSE 1) THEN Bytes[i].c ELSE "nul"

\* The byte i of UTF-8 text: a character that is whole is told by its first byte.
ByteOfUTF8(i, from, to) ==
  LET first == i - Bytes[i].k
      whole == file.encoding = "UTF8" /\ first + 1 >= from /\ first + Bytes[i].of <= to
  IN IF ~whole THEN <<Char(Alone(i), i)>>
     ELSE IF Begins(i) THEN <<Char(Bytes[i].c, i)>> ELSE <<>>

FromUTF8(from, to) ==
  Joined([n \in 1 .. to - from + 1 |-> ByteOfUTF8(from + n - 1, from, to)], to - from + 1)

FromANSI(from, to) ==
  [n \in 1 .. to - from + 1 |-> Char(Alone(from + n - 1), from + n - 1)]

ConvertStringToUTF16(type, from, to) ==
  CASE type \in Multibyte -> FromUTF16(type, from, to)
    [] type = "UTF8" -> FromUTF8(from, to)
    [] OTHER -> FromANSI(from, to)

(***************************************************************************)
(* WriteToConsole: a line for each LF, without one CR before it; the rest  *)
(* as it is; empty lines are ignored.  What follows a zero is not shown.   *)
(***************************************************************************)
BeforeNul(s) ==
  SubSeq(s, 1, Max({n \in 0 .. Len(s) : \A i \in 1 .. n : s[i].c # "nul"}))

LineStart(message, n) == Max({0} \cup {k \in 1 .. n - 1 : message[k].c = "lf"}) + 1

\* What is printed when the place n is reached, which is an LF or the end of the message.
LineTo(message, n) ==
  LET msg == SubSeq(message, LineStart(message, n), n - 1)
      shown == IF n <= Len(message) /\ msg # <<>> /\ Last(msg).c = "cr" THEN Front(msg) ELSE msg
  IN IF shown = <<>> \/ (n <= Len(message) /\ message[n].c # "lf") THEN <<>>
     ELSE <<BeforeNul(shown)>>

WriteToConsole(message) ==
  Joined([n \in 1 .. Len(message) + 1 |-> LineTo(message, n)], Len(message) + 1)

-----------------------------------------------------------------------------
(***************************************************************************)
(* ReadLogFile.  The BOM is read apart if the file is read from beyond it, *)
(* which may fail; the buffer of the chunks may fail to be allocated, and  *)
(* then the handler's thread ends.                                         *)
(***************************************************************************)
BomIsApart == offset >= 3 /\ encoding = Unknown

Opens ==
  /\ reader = "idle"
  /\ reader' = "read" /\ line' = <<>>
  /\ wasBomRead' \in IF BomIsApart THEN BOOLEAN ELSE {FALSE}
  /\ bomFailed' = (bomFailed \/ (BomIsApart /\ ~wasBomRead'))
  /\ UNCHANGED <<file, size, start, offset, encoding, printed, ends, throws, cut>>

OpenThrows ==
  /\ reader = "idle" /\ throws < MaxThrows
  /\ reader' = "ended" /\ throws' = throws + 1
  /\ UNCHANGED <<file, size, start, offset, encoding, wasBomRead, line, printed, ends, cut, bomFailed>>

\* A mistake: the BOM is looked for in the content.
MutTypes(to) ==
  IF encoding # Unknown THEN {encoding}
  ELSE FileTypesFromBuffer(offset + 1, to, offset + 1, to)

\* What a chunk that ends at the given place can be taken for.
Types(to) ==
  IF encoding # Unknown THEN {encoding}
  ELSE IF wasBomRead THEN FileTypesFromBuffer(offset + 1, to, 1, 3)
  ELSE FileTypesFromBuffer(offset + 1, to, offset + 1, to)

\* The BOM, or what is left of it, is skipped if the content was taken for one.
Skipped(to) ==
  IF encoding = Unknown /\ offset = 0 /\ FoundBom(1, to) THEN Bytes[1].of ELSE 0

\* The encoding and the text of a chunk that ends at the given place.
Decoded(to) ==
  {[type |-> type, text |-> ConvertStringToUTF16(type, offset + 1 + Skipped(to), to)] :
     type \in Types(to)}

IsEol(d) == d.c \in {"lf", "cr"}
LastEol(s) == CHOOSE n \in 1 .. Len(s) : IsEol(s[n]) /\ \A i \in n + 1 .. Len(s) : ~IsEol(s[i])
HasEol(s) == \E n \in 1 .. Len(s) : IsEol(s[n])

\* What is before the last end of line, which may be of two characters.
BeforeEol(s) ==
  LET n == LastEol(s) IN
  SubSeq(s, 1, IF n > 1 /\ IsEol(s[n - 1]) /\ s[n - 1].c # s[n].c THEN n - 2 ELSE n - 1)
AfterEol(s) == SubSeq(s, LastEol(s) + 1, Len(s))

\* A mistake: the line so far is cleared when there is no end of line.
MutHandles(s) ==
  IF HasEol(s)
  THEN printed' = printed \o WriteToConsole(line \o BeforeEol(s)) /\ line' = AfterEol(s)
  ELSE printed' = printed /\ line' = s

Handles(s) ==
  IF HasEol(s)
  THEN printed' = printed \o WriteToConsole(line \o BeforeEol(s)) /\ line' = AfterEol(s)
  ELSE printed' = printed /\ line' = line \o s

ChunkEnd == IF size - offset < ChunkSize THEN size ELSE offset + ChunkSize
CutsChar == cut' = (cut \/ ~EndsChar(ChunkEnd))

ReadsChunk ==
  /\ reader = "read" /\ size > offset
  /\ \E d \in Decoded(ChunkEnd) : encoding' = d.type /\ Handles(d.text)
  /\ offset' = ChunkEnd /\ CutsChar
  /\ UNCHANGED <<file, size, start, reader, wasBomRead, ends, throws, bomFailed>>

(***************************************************************************)
(* found - 1 is unsigned: if the last end of line is the first character,  *)
(* what is looked at lies before the string.  If that happens to be the    *)
(* other end of line, the chunk is printed whole, and its rest once more.  *)
(***************************************************************************)
ReadsBeforeString ==
  /\ reader = "read" /\ size > offset /\ throws < MaxThrows
  /\ \E d \in Decoded(ChunkEnd) :
       LET s == d.text IN
       /\ HasEol(s) /\ LastEol(s) = 1
       /\ encoding' = d.type
       /\ printed' = printed \o WriteToConsole(line) \o WriteToConsole(s)
       /\ line' = AfterEol(s)
  /\ offset' = ChunkEnd /\ throws' = throws + 1 /\ CutsChar
  /\ UNCHANGED <<file, size, start, reader, wasBomRead, ends, bomFailed>>

(***************************************************************************)
(* An exception ends the loop, when the chunk is decoded or after some of  *)
(* its lines are printed, and the chunk is read again the next time.  If   *)
(* the line had begun in an earlier chunk, all of it is printed once more  *)
(* and the loop goes on.                                                   *)
(***************************************************************************)
\* A mistake: the offset has moved before the chunk is handled.
MutChunkThrows ==
  /\ reader = "read" /\ size > offset /\ throws < MaxThrows
  /\ \E d \in Decoded(ChunkEnd) :
       LET s == d.text IN
       /\ encoding' = d.type /\ line' = line
       /\ \/ printed' = printed
          \/ /\ HasEol(s) /\ line = <<>>
             /\ \E lines \in Prefixes(WriteToConsole(BeforeEol(s))) : printed' = printed \o lines
  /\ offset' = ChunkEnd
  /\ reader' = "last" /\ throws' = throws + 1 /\ CutsChar
  /\ UNCHANGED <<file, size, start, wasBomRead, ends, bomFailed>>

ChunkThrows ==
  /\ reader = "read" /\ size > offset /\ throws < MaxThrows
  /\ \E d \in Decoded(ChunkEnd) :
       LET s == d.text IN
       /\ encoding' = d.type /\ line' = line
       /\ \/ printed' = printed
          \/ /\ HasEol(s) /\ line = <<>>
             /\ \E lines \in Prefixes(WriteToConsole(BeforeEol(s))) : printed' = printed \o lines
  /\ reader' = "last" /\ throws' = throws + 1 /\ CutsChar
  /\ UNCHANGED <<file, size, start, offset, wasBomRead, ends, bomFailed>>

PrintsAgain ==
  /\ reader = "read" /\ size > offset /\ throws < MaxThrows /\ line # <<>>
  /\ \E d \in Decoded(ChunkEnd) :
       LET s == d.text IN
       /\ HasEol(s)
       /\ encoding' = d.type /\ line' = AfterEol(s)
       /\ \/ printed' = printed \o WriteToConsole(line) \o WriteToConsole(BeforeEol(s))
          \/ \E lines \in Prefixes(WriteToConsole(line \o BeforeEol(s))) :
               printed' = printed \o lines \o WriteToConsole(line \o BeforeEol(s))
                                  \o WriteToConsole(BeforeEol(s))
  /\ offset' = ChunkEnd /\ throws' = throws + 1 /\ CutsChar
  /\ UNCHANGED <<file, size, start, reader, wasBomRead, ends, bomFailed>>

(***************************************************************************)
(* What cannot be put on the line is printed at once, behind the line, and *)
(* the loop goes on.                                                       *)
(***************************************************************************)
PrintsRest ==
  /\ reader = "read" /\ size > offset /\ throws < MaxThrows
  /\ \E d \in Decoded(ChunkEnd) :
       LET s == d.text IN
       /\ encoding' = d.type /\ line' = <<>>
       /\ \/ /\ HasEol(s) /\ AfterEol(s) # <<>>
             /\ printed' = printed \o WriteToConsole(line \o BeforeEol(s))
                                   \o WriteToConsole(AfterEol(s))
          \/ /\ ~HasEol(s) /\ s # <<>>
             /\ printed' = printed \o WriteToConsole(line) \o WriteToConsole(s)
  /\ offset' = ChunkEnd /\ throws' = throws + 1 /\ CutsChar
  /\ UNCHANGED <<file, size, start, reader, wasBomRead, ends, bomFailed>>

\* The end of the file, or a read that fails.
ReadsNothing ==
  /\ reader = "read" /\ (size = offset \/ throws < MaxThrows)
  /\ reader' = "last"
  /\ throws' = IF size = offset THEN throws ELSE throws + 1
  /\ UNCHANGED <<file, size, start, offset, encoding, wasBomRead, line, printed, ends, cut, bomFailed>>

PrintsLast ==
  /\ reader = "last"
  /\ reader' = "idle" /\ line' = <<>>
  /\ printed' = printed \o WriteToConsole(line)
  /\ ends' = ends \cup {offset}
  /\ UNCHANGED <<file, size, start, offset, encoding, wasBomRead, throws, cut, bomFailed>>

(***************************************************************************)
(* An exception here is behind the try: the thread ends, and what is left  *)
(* of the line is not printed, though the offset has passed it.            *)
(***************************************************************************)
LastThrows ==
  /\ reader = "last" /\ line # <<>> /\ throws < MaxThrows
  /\ reader' = "ended" /\ throws' = throws + 1
  /\ \E lines \in Prefixes(WriteToConsole(line)) : printed' = printed \o lines
  /\ UNCHANGED <<file, size, start, offset, encoding, wasBomRead, line, ends, cut, bomFailed>>

ReadLogFile ==
  \/ Opens \/ OpenThrows \/ ReadsChunk \/ ReadsBeforeString \/ ChunkThrows \/ PrintsAgain
  \/ PrintsRest \/ ReadsNothing \/ PrintsLast \/ LastThrows

\* The application writes what it has to write, in pieces of any size.
Writes ==
  /\ size < Len(Bytes)
  /\ \E n \in size + 1 .. Len(Bytes) : size' = n
  /\ UNCHANGED <<file, start, reader, offset, encoding, wasBomRead, line, printed, ends, throws, cut,
                 bomFailed>>

Next == ReadLogFile \/ Writes
Spec == Init /\ [][Next]_vars
\* The monitor reads a changed file, and once in a while every file.
FairSpec == Spec /\ WF_vars(ReadLogFile)
-----------------------------------------------------------------------------

Output == FlattenSeq(printed)
Readable == \A n \in 1 .. Len(Output \o line) : (Output \o line)[n].c \notin {"?", "nul"}

\* Bytes are taken for UTF-16 that are not, or the other way round.
Mistaken == encoding # Unknown /\ ~(encoding \in Multibyte <=> file.encoding \in Multibyte)

(***************************************************************************)
(* The BOM decides the encoding, wherever the monitor begins to read and   *)
(* however often it starts anew, if it could be read; and text that is     *)
(* taken for what it is is not garbled, though an exception may have it    *)
(* read again.  Excepted are reads that end inside a character, and a      *)
(* UTF-16 file of which the BOM, and nothing else, was there when the      *)
(* monitor started, since it is looked up only beyond the third byte.      *)
(* Bytes of ANSI text that are not ASCII are always garbled.               *)
(***************************************************************************)
GarbledOnlyIfCut ==
  ~cut =>
    /\ /\ file.chars # <<>> /\ file.chars[1] = "bom" /\ ~bomFailed
       /\ file.encoding \in Multibyte => start # 2
       => encoding \in {Unknown, file.encoding}
    /\ encoding \in {Unknown, file.encoding} /\ file.encoding # "ANSI" => Readable

\* A place where a line may begin or end: at an end of line, or where a read has ended.
Border(i) ==
  i \in ends \cup {start} \/ Bytes[i].c \in {"lf", "cr", "bom"} \/ i = Len(Bytes)
    \/ (i + 1 <= Len(Bytes) /\ Bytes[i + 1].c \in {"lf", "cr"})

(***************************************************************************)
(* However the writes and the reads are cut into chunks, the lines that    *)
(* are printed are what was written: no character of the text that was     *)
(* read is lost, printed twice or moved, and a line is broken only at an   *)
(* end of line and where the reader has met the end of the file.  Nothing  *)
(* is printed that was in the file before the monitor.  This is for reads  *)
(* without exceptions, of text that is taken for what it is.               *)
(***************************************************************************)
LinesInOrder ==
  LET out == Output \o line IN
  /\ \A n \in 1 .. Len(out) : out[n].at > start /\ out[n].at <= size
  /\ throws = 0 /\ ~cut /\ ~Mistaken /\ Readable =>
    /\ \A n \in 1 .. Len(out) - 1 : out[n].at < out[n + 1].at
    /\ \A i \in start + 1 .. offset :
         Begins(i) /\ Bytes[i].c \in {"text", "wide"} =>
           \E n \in 1 .. Len(out) : out[n] = Char(Bytes[i].c, i)
    /\ \A k \in 1 .. Len(printed) :
         LET l == printed[k] IN
         /\ Border(l[1].at - 1)
         /\ Border(Last(l).at + Bytes[Last(l).at].of - 1)
         /\ \A n \in 1 .. Len(l) : l[n].c # "lf"

(***************************************************************************)
(* And if exceptions are thrown while chunks are handled, whether they end *)
(* a read or let it go on, nothing is skipped: what the offset has passed  *)
(* is printed once or more, or on the line under way.  If the handler's    *)
(* thread has ended, that line is the only text that is lost.  Excepted    *)
(* are chunks that end inside a character, and UTF-16 that is not taken    *)
(* for it, of which lines are printed up to the first zero, or the reverse.*)
(***************************************************************************)
NothingSkipped ==
  LET out == Output \o line IN
  ~cut /\ ~Mistaken =>
    \A i \in start + 1 .. offset :
      Begins(i) /\ Bytes[i].c = "text" => \E n \in 1 .. Len(out) : out[n].at = i

(***************************************************************************)
(* What is written is printed in the end, though an exception may end a    *)
(* read at any chunk and some of it may be printed twice.  Excepted are    *)
(* the cases above, and the end of the handler's thread.                   *)
(***************************************************************************)
AllPrinted ==
  \A i \in start + 1 .. size :
    Begins(i) /\ Bytes[i].c = "text" => \E n \in 1 .. Len(Output) : Output[n].at = i

EverythingPrinted == []<>(AllPrinted \/ cut \/ Mistaken \/ reader = "ended")
=============================================================================
