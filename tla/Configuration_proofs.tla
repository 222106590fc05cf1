------------------------ MODULE Configuration_proofs ------------------------
(***************************************************************************)
(* What is proved of the configuration: the types, that the monitors which *)
(* are started are those that the document asks for, and that a line that  *)
(* is printed is the format of its source, filled in.                      *)
(*                                                                         *)
(* The document has the sources, and ReadConfigFile takes the good ones;   *)
(* StartMonitors joins what these ask for.  So the two loops are one over  *)
(* the document (JoinedThrough, LastTaken of Selections_proofs).           *)
(***************************************************************************)
EXTENDS Configuration, Selections_proofs, TLAPS

(***************************************************************************)
(* The settings of every source of a document, and the sources that        *)
(* ReadConfigFile takes.                                                   *)
(***************************************************************************)
SettingsOf(s) ==
  CASE s.type = "eventlog" -> EventSource(s)
    [] s.type = "file" -> FileSource(s)
    [] s.type = "etw" -> ETWSource(s)
    [] OTHER -> [type |-> "process", format |-> Or(s.format, <<>>)]

Settings(d) == [n \in 1 .. Len(d.sources) |-> SettingsOf(d.sources[n])]
Good(d) == {n \in 1 .. Len(d.sources) : GoodSource(d.sources[n])}
Read(d, n) == Joined(Picks(Settings(d), Good(d)), n)

LEMMA DocumentTyped ==
  ASSUME NEW d \in Documents
  PROVE  /\ d.shape \in Shapes /\ d.logFormat \in {None, "JSON", "XML", "Custom"}
         /\ Len(d.sources) \in Nat
         /\ \A n \in 1 .. Len(d.sources) : d.sources[n] # NoObject => Readable(d.sources[n])
BY ConfigurationAssumption

(***************************************************************************)
(* What is taken from a good source.                                       *)
(***************************************************************************)
LEMMA AskedFormat ==
  ASSUME NEW s, Readable(s), s.type \in Types
  PROVE  Or(s.format, <<>>) = FormatAsked(s) /\ FormatAsked(s) \in Seq(Characters)
<1>1. s.format \in Seq(Characters) \cup {None}
  BY DEF Readable
<1>2. <<>> \in Seq(Characters)
  OBVIOUS
<1> QED BY <1>1, <1>2 DEF Or, FormatAsked

LEMMA SourceOfChannels ==
  ASSUME NEW s, Readable(s), GoodSource(s), s.type = "eventlog"
  PROVE  /\ EventSource(s).channels = ChannelsAsked(s)
         /\ Len(ChannelsAsked(s)) \in Nat /\ ChannelsAsked(s) \in Seq(Range(ChannelsAsked(s)))
         /\ \A n \in 1 .. Len(ChannelsAsked(s)) : ChannelsAsked(s)[n].level \in Levels
         /\ EventSource(s).multiLine = (s.multiLine # FALSE)
         /\ EventSource(s).oldest = (s.oldest = TRUE)
<1>1. /\ s.multiLine \in BOOLEAN \cup {None} /\ s.oldest \in BOOLEAN \cup {None}
      /\ s.channels \in Seq(Range(s.channels))
      /\ \A n \in 1 .. Len(s.channels) : s.channels[n].level = None \/ s.channels[n].level \in Levels
  BY DEF Readable, GoodSource
<1>2. EventSource(s).channels = ChannelsAsked(s)
  BY DEF EventSource, ChannelsAsked, ChannelOf, Or
<1>3. Len(s.channels) \in Nat
  BY <1>1
<1>4. /\ ChannelsAsked(s) \in Seq(Range(ChannelsAsked(s)))
      /\ Len(ChannelsAsked(s)) = Len(s.channels)
  <2> DEFINE f == ChannelsAsked(s)
  <2>1. DOMAIN f = 1 .. Len(s.channels) /\ f = [n \in 1 .. Len(s.channels) |-> f[n]]
    BY DEF ChannelsAsked
  <2>2. \A n \in 1 .. Len(s.channels) : f[n] \in Range(f)
    BY <2>1 DEF Range
  <2> HIDE DEF f
  <2>3. f \in Seq(Range(f)) /\ Len(f) = Len(s.channels)
    BY <1>3, <2>1, <2>2
  <2> QED BY <2>3 DEF f
<1>5. \A n \in 1 .. Len(s.channels) : ChannelsAsked(s)[n].level \in Levels
  <2>1. "Error" \in Levels
    BY DEF Levels
  <2> QED BY <1>1, <2>1 DEF ChannelsAsked
<1>6. EventSource(s).multiLine = (s.multiLine # FALSE) /\ EventSource(s).oldest = (s.oldest = TRUE)
  <2>1. None # TRUE /\ None # FALSE
    BY ConfigurationAssumption
  <2>2. EventSource(s).multiLine = Or(s.multiLine, TRUE) /\ EventSource(s).oldest = Or(s.oldest, FALSE)
    BY DEF EventSource
  <2> QED BY <1>1, <2>1, <2>2 DEF Or
<1> QED BY <1>2, <1>3, <1>4, <1>5, <1>6

LEMMA SourceOfProviders ==
  ASSUME NEW s, Readable(s), GoodSource(s), s.type = "etw"
  PROVE  /\ ETWSource(s).providers = ProvidersAsked(s)
         /\ Len(ProvidersAsked(s)) \in Nat /\ ProvidersAsked(s) \in Seq(Range(ProvidersAsked(s)))
         /\ \A n \in 1 .. Len(ProvidersAsked(s)) : ProvidersAsked(s)[n].level \in Levels
<1>1. s.providers \in Seq(Range(s.providers))
  BY DEF Readable, GoodSource
<1> DEFINE named == {n \in 1 .. Len(s.providers) :
                       s.providers[n].name # None \/ s.providers[n].guid = "valid"}
           kept == Selected(s.providers, named)
           f == ProvidersAsked(s)
<1>2. ETWSource(s).providers = f
  BY DEF ETWSource, ProvidersAsked, IsValidProvider
<1>3. Len(s.providers) \in Nat
  BY <1>1
<1>4. kept \in Seq(Range(s.providers))
  <2>1. \A k \in 1 .. Len(s.providers) : k \in named => s.providers[k] \in Range(s.providers)
    BY <1>1
  <2> HIDE DEF named
  <2> QED BY <1>3, <2>1, SelectedTyped
<1>5. f = [n \in 1 .. Len(kept) |-> ProviderOf(kept[n])]
  BY DEF ProvidersAsked
<1> HIDE DEF f, kept, named
<1>6. Len(kept) \in Nat
  BY <1>4
<1>7. DOMAIN f = 1 .. Len(kept) /\ f = [n \in 1 .. Len(kept) |-> f[n]]
  BY <1>5
<1>8. \A n \in 1 .. Len(kept) : f[n] \in Range(f)
  BY <1>7 DEF Range
<1>9. f \in Seq(Range(f)) /\ Len(f) = Len(kept)
  BY <1>6, <1>7, <1>8
<1>10. \A n \in 1 .. Len(kept) : f[n].level \in Levels
  <2>1. \A p : ProviderOf(p).level \in Levels
    BY DEF ProviderOf, Levels
  <2> QED BY <1>5, <2>1
<1> QED BY <1>2, <1>6, <1>9, <1>10 DEF f

LEMMA SettingsTyped ==
  ASSUME NEW s, Readable(s), GoodSource(s)
  PROVE  /\ SettingsOf(s).type = s.type /\ s.type \in Types
         /\ SettingsOf(s).format = FormatAsked(s) /\ FormatAsked(s) \in Seq(Characters)
         /\ s.type = "eventlog" => SettingsOf(s) = EventSource(s)
         /\ s.type = "file" => SettingsOf(s) = FileSource(s)
         /\ s.type = "etw" => SettingsOf(s) = ETWSource(s)
<1>1. s.type \in Types
  BY DEF GoodSource, Types
<1>2. Or(s.format, <<>>) = FormatAsked(s) /\ FormatAsked(s) \in Seq(Characters)
  BY <1>1, AskedFormat
<1>3. CASE s.type = "eventlog"
  <2>1. SettingsOf(s) = EventSource(s)
    BY <1>3 DEF SettingsOf
  <2> QED BY <1>1, <1>2, <1>3, <2>1 DEF EventSource
<1>4. CASE s.type = "file"
  <2>1. SettingsOf(s) = FileSource(s)
    BY <1>4 DEF SettingsOf
  <2>2. FileSource(s).type = "file" /\ FileSource(s).format = Or(s.format, <<>>)
    BY DEF FileSource
  <2> QED BY <1>1, <1>2, <1>4, <2>1, <2>2
<1>5. CASE s.type = "etw"
  <2>1. SettingsOf(s) = ETWSource(s)
    BY <1>5 DEF SettingsOf
  <2> QED BY <1>1, <1>2, <1>5, <2>1 DEF ETWSource
<1>6. CASE s.type = "process"
  <2>1. SettingsOf(s) = [type |-> "process", format |-> Or(s.format, <<>>)]
    BY <1>6 DEF SettingsOf
  <2> QED BY <1>1, <1>2, <1>6, <2>1
<1> QED BY <1>1, <1>3, <1>4, <1>5, <1>6 DEF Types

(***************************************************************************)
(* The settings that ReadConfigFile has after n sources.                   *)
(***************************************************************************)
LEMMA ReadTyped ==
  ASSUME NEW d \in Documents
  PROVE  /\ Settings(d) \in Seq(Range(Settings(d))) /\ Len(Settings(d)) = Len(d.sources)
         /\ Len(d.sources) \in Nat
         /\ \A n \in 1 .. Len(d.sources) : Settings(d)[n] = SettingsOf(d.sources[n])
<1> DEFINE f == Settings(d)
<1>1. Len(d.sources) \in Nat
  BY DocumentTyped
<1>2. DOMAIN f = 1 .. Len(d.sources) /\ f = [n \in 1 .. Len(d.sources) |-> f[n]]
      /\ \A n \in 1 .. Len(d.sources) : f[n] = SettingsOf(d.sources[n])
  BY DEF Settings
<1>3. \A n \in 1 .. Len(d.sources) : f[n] \in Range(f)
  BY <1>2 DEF Range
<1> HIDE DEF f
<1>4. f \in Seq(Range(f)) /\ Len(f) = Len(d.sources)
  BY <1>1, <1>2, <1>3
<1> QED BY <1>1, <1>2, <1>4 DEF f

LEMMA GoodTyped ==
  ASSUME NEW d \in Documents, NEW n \in Good(d)
  PROVE  n \in 1 .. Len(d.sources) /\ Readable(d.sources[n]) /\ GoodSource(d.sources[n])
<1>1. n \in 1 .. Len(d.sources) /\ GoodSource(d.sources[n])
  BY DEF Good
<1>2. d.sources[n] # NoObject
  BY <1>1 DEF GoodSource
<1> QED BY <1>1, <1>2, DocumentTyped

\* Every source that was read is that of a good one of the document.
LEMMA ReadFrom ==
  ASSUME NEW d \in Documents, NEW n \in 0 .. Len(d.sources)
  PROVE  /\ Read(d, n) \in Seq(Range(Settings(d))) /\ Len(Read(d, n)) <= n
         /\ \A k \in 1 .. Len(Read(d, n)) :
              \E m \in 1 .. n : /\ m \in Good(d) /\ Count(Settings(d), Good(d), m) = k
                                /\ Read(d, n)[k] = SettingsOf(d.sources[m])
<1> DEFINE s == Settings(d)
           I == Good(d)
<1>1. s \in Seq(Range(s)) /\ Len(s) = Len(d.sources) /\ Len(s) \in Nat
  BY ReadTyped
<1>2. Read(d, n) \in Seq(Range(s)) /\ Len(Read(d, n)) = Count(s, I, n)
  BY <1>1, PicksTyped DEF Read, Count
<1>3. ASSUME NEW k \in 1 .. Len(Read(d, n))
      PROVE  \E m \in 1 .. n : m \in I /\ Count(s, I, m) = k /\ Read(d, n)[k] = SettingsOf(d.sources[m])
  <2>1. PICK m \in 1 .. n : m \in I /\ Count(s, I, m) = k
    BY <1>1, <1>2, TakenFrom
  <2>2. m \in 1 .. Len(s) /\ n \in m .. Len(s)
    BY <1>1
  <2>3. Joined(Picks(s, I), n)[k] = s[m]
    BY <1>1, <2>1, <2>2, TakenAt
  <2>4. s[m] = SettingsOf(d.sources[m])
    BY <1>1, <2>2, ReadTyped
  <2> QED BY <2>1, <2>3, <2>4 DEF Read
<1>4. Count(s, I, n) <= n
  <2> DEFINE S == {m \in 0 .. Len(s) : Count(s, I, m) <= m}
  <2>1. 0 \in S
    BY <1>1, CountNext
  <2>2. ASSUME NEW m \in 0 .. Len(s) - 1, m \in S PROVE m + 1 \in S
    <3>1. Count(s, I, m) \in Nat /\ Count(s, I, m) <= m /\ m + 1 \in 0 .. Len(s)
      <4>1. m \in 0 .. Len(s) /\ m + 1 \in 0 .. Len(s)
        BY <1>1
      <4> QED BY <1>1, <4>1, <2>2, PicksTyped
    <3>2. Count(s, I, m + 1) = Count(s, I, m) \/ Count(s, I, m + 1) = Count(s, I, m) + 1
      BY <1>1, CountNext
    <3>3. Count(s, I, m + 1) <= m + 1
      BY <3>1, <3>2
    <3> QED BY <3>1, <3>3
  <2> HIDE DEF S
  <2>3. n \in S
    BY <1>1, <2>1, <2>2, UpTo
  <2> QED BY <2>3 DEF S
<1> QED BY <1>2, <1>3, <1>4

LEMMA ReadNext ==
  ASSUME NEW d \in Documents, NEW n \in 1 .. Len(d.sources)
  PROVE  Read(d, n) = IF GoodSource(d.sources[n]) THEN Append(Read(d, n - 1), SettingsOf(d.sources[n]))
                                                  ELSE Read(d, n - 1)
<1> DEFINE s == Settings(d)
           I == Good(d)
           m == n - 1
<1>1. s \in Seq(Range(s)) /\ Len(s) = Len(d.sources) /\ Len(s) \in Nat /\ s[n] = SettingsOf(d.sources[n])
  BY ReadTyped
<1>2. m \in 0 .. Len(s) - 1 /\ m + 1 = n
  BY <1>1
<1>3. n \in I <=> GoodSource(d.sources[n])
  BY DEF Good
<1> HIDE DEF s, I, m
<1>4. /\ n \notin I => Joined(Picks(s, I), n) = Joined(Picks(s, I), m)
      /\ n \in I => Joined(Picks(s, I), n) = Append(Joined(Picks(s, I), m), s[n])
  BY <1>1, <1>2, CountStep
<1> QED BY <1>1, <1>3, <1>4 DEF Read, s, I, m

LEMMA ReadNone == \A d : Read(d, 0) = <<>>
BY JoinedNone DEF Read

(***************************************************************************)
(* What every settings record is.                                          *)
(***************************************************************************)
SettingsOK(x) ==
  /\ x.type \in Types /\ x.format \in Seq(Characters)
  /\ x.type = "eventlog" =>
       /\ x.channels \in Seq(Range(x.channels))
       /\ \A n \in 1 .. Len(x.channels) : x.channels[n].level \in Levels
  /\ x.type = "etw" =>
       /\ x.providers \in Seq(Range(x.providers))
       /\ \A n \in 1 .. Len(x.providers) : x.providers[n].level \in Levels

LEMMA ReadOK ==
  ASSUME NEW d \in Documents, NEW n \in 0 .. Len(d.sources), NEW k \in 1 .. Len(Read(d, n))
  PROVE  SettingsOK(Read(d, n)[k])
<1>1. PICK m \in 1 .. n : m \in Good(d) /\ Read(d, n)[k] = SettingsOf(d.sources[m])
  BY ReadFrom
<1> DEFINE s == d.sources[m]
<1>2. Readable(s) /\ GoodSource(s)
  BY <1>1, GoodTyped
<1> HIDE DEF s
<1>3. /\ SettingsOf(s).type \in Types /\ SettingsOf(s).format \in Seq(Characters)
      /\ SettingsOf(s).type = s.type
      /\ s.type = "eventlog" => SettingsOf(s) = EventSource(s)
      /\ s.type = "etw" => SettingsOf(s) = ETWSource(s)
  BY <1>2, SettingsTyped
<1>4. SettingsOK(SettingsOf(s))
  BY <1>2, <1>3, SourceOfChannels, SourceOfProviders DEF SettingsOK
<1> QED BY <1>1, <1>4 DEF s

(***************************************************************************)
(* The invariant.  Through is how many settings StartMonitors has seen.    *)
(***************************************************************************)
Starts == {"start", "start etw", "started"}
Through == IF main \in Starts THEN next - 1 ELSE 0

OfKind(ss, m, type) == {k \in 1 .. m : ss[k].type = type}
ChannelItems(ss) == [k \in 1 .. Len(ss) |-> IF ss[k].type = "eventlog" THEN ss[k].channels ELSE <<>>]
FileMonitorOf(x) == [kind |-> "file", source |-> x, format |-> x.format]
FileItems(ss) == [k \in 1 .. Len(ss) |-> IF ss[k].type = "file" THEN <<FileMonitorOf(ss[k])>> ELSE <<>>]
ProviderItems(ss) == [k \in 1 .. Len(ss) |-> IF ss[k].type = "etw" THEN ss[k].providers ELSE <<>>]

\* The settings are those of the good sources so far.
Taken ==
  /\ document \in Documents
  /\ main \in {"read", "sources", "refused"} \cup Starts
  /\ logFormat \in {"JSON", "XML", "Custom"}
  /\ main \notin Starts =>
       next \in 1 .. Len(document.sources) + 1 /\ sources = Read(document, next - 1)
  /\ main \in Starts =>
       next \in 1 .. Len(sources) + 1 /\ sources = Read(document, Len(document.sources))
  /\ main \in Starts \ {"start"} => next = Len(sources) + 1
  /\ main = "refused" =>
       document.shape # "whole" \/ \E n \in GoodAt("etw") : HasNoObject(document.sources[n])

\* Channels and providers are joined, and the settings are the last ones.
Collected ==
  /\ channels = Joined(ChannelItems(sources), Through)
  /\ providers = Joined(ProviderItems(sources), Through)

LastKept ==
  /\ LET K == OfKind(sources, Through, "eventlog") IN
       K # {} => eventSettings = [multiLine |-> sources[Max(K)].multiLine, oldest |-> sources[Max(K)].oldest,
                                  format |-> sources[Max(K)].format]
  /\ LET K == OfKind(sources, Through, "etw") IN
       K # {} => etwSettings = [multiLine |-> sources[Max(K)].multiLine, format |-> sources[Max(K)].format]
  /\ LET K == OfKind(sources, Through, "process") IN
       processFormat = IF K = {} THEN <<>> ELSE sources[Max(K)].format

\* The file monitors come first, one for each file source that was seen, then that of the event
\* log, and that of ETW.
Files == Joined(FileItems(sources), Through)
EventMonitorIs ==
  [kind |-> "eventlog", channels |-> channels, multiLine |-> eventSettings.multiLine,
   oldest |-> eventSettings.oldest, format |-> eventSettings.format]
EtwMonitorIs == [kind |-> "etw", providers |-> providers, format |-> etwSettings.format]
WithEvents == IF channels = <<>> THEN Files ELSE Append(Files, EventMonitorIs)
WithEtw == IF providers = <<>> THEN WithEvents ELSE Append(WithEvents, EtwMonitorIs)

Made ==
  /\ main \notin Starts => monitors = <<>>
  /\ main = "start" => monitors = Files
  /\ main = "start etw" => monitors = WithEvents
  /\ main = "started" => monitors = WithEtw

CInv == Taken /\ Collected /\ LastKept /\ Made

(***************************************************************************)
(* Nothing is started while the file is read.                              *)
(***************************************************************************)
NothingStarted ==
  Through = 0 /\ channels = <<>> /\ providers = <<>> /\ monitors = <<>> /\ processFormat = <<>>

LEMMA NothingIs == NothingStarted => Collected /\ LastKept /\ Made
<1> SUFFICES ASSUME NothingStarted PROVE Collected /\ LastKept /\ Made
  OBVIOUS
<1>0. Through = 0 /\ channels = <<>> /\ providers = <<>> /\ monitors = <<>> /\ processFormat = <<>>
  BY DEF NothingStarted
<1>1. Collected
  BY <1>0, JoinedNone DEF Collected
<1>2. \A type : OfKind(sources, Through, type) = {}
  BY <1>0 DEF OfKind
<1>3. LastKept
  BY <1>0, <1>2 DEF LastKept
<1>4. Made
  <2>1. Files = <<>>
    BY <1>0, JoinedNone DEF Files
  <2> QED BY <1>0, <2>1 DEF Made, WithEvents, WithEtw
<1> QED BY <1>1, <1>3, <1>4

LEMMA NothingYet == LastKept /\ Collected /\ Made /\ main \notin Starts => NothingStarted
<1> SUFFICES ASSUME LastKept, Collected, Made, main \notin Starts PROVE NothingStarted
  OBVIOUS
<1>1. Through = 0
  BY DEF Through
<1>2. OfKind(sources, Through, "process") = {}
  BY <1>1 DEF OfKind
<1>3. channels = <<>> /\ providers = <<>>
  BY <1>1, JoinedNone DEF Collected
<1>4. processFormat = <<>>
  BY <1>2 DEF LastKept
<1>5. monitors = <<>>
  BY DEF Made
<1> QED BY <1>1, <1>3, <1>4, <1>5 DEF NothingStarted

LEMMA CInvInit == Init => CInv
<1> SUFFICES ASSUME Init PROVE CInv
  OBVIOUS
<1>1. main \notin Starts
  BY DEF Init, Starts
<1>2. Taken
  <2>1. document \in Documents /\ main = "read" /\ next = 1 /\ sources = <<>> /\ logFormat = "JSON"
    BY DEF Init
  <2>2. next \in 1 .. Len(document.sources) + 1 /\ next - 1 = 0
    BY <2>1, DocumentTyped
  <2>3. sources = Read(document, next - 1)
    BY <2>1, <2>2, ReadNone
  <2> QED BY <1>1, <2>1, <2>2, <2>3 DEF Taken
<1>3. NothingStarted
  <2>1. Through = 0
    BY <1>1 DEF Through
  <2> QED BY <2>1 DEF Init, NothingStarted
<1> QED BY <1>2, <1>3, NothingIs DEF CInv

(***************************************************************************)
(* A turn of the loop over the sources: a good source is taken as it is    *)
(* asked for, and any other leaves nothing.                                *)
(***************************************************************************)
TakesSource ==
  SkipsSource \/ HandlesEventLog \/ HandlesFile \/ HandlesETW \/ HandlesProcess

LEMMA GoodIsTaken ==
  ASSUME document \in Documents, next \in 1 .. Len(document.sources) + 1, TakesSource
  PROVE  /\ Looking /\ next' = next + 1 /\ main' = main
         /\ UNCHANGED <<document, logFormat, starting, printer, formatting>>
         /\ sources' = IF GoodSource(Source) THEN Append(sources, SettingsOf(Source)) ELSE sources
<1> DEFINE s == Source
<1>1. CASE SkipsSource
  <2>1. ~GoodSource(s)
    BY <1>1 DEF SkipsSource, GoodSource, Types
  <2> QED BY <1>1, <2>1 DEF SkipsSource, Refuses
<1>2. CASE HandlesEventLog
  <2>1. Looking /\ s # NoObject /\ s.type = "eventlog"
    BY <1>2 DEF HandlesEventLog, OfType
  <2>2. GoodSource(s) <=> s.channels # None /\ \A n \in 1 .. Len(s.channels) : ValidChannel(s.channels[n])
    BY <2>1 DEF GoodSource, ValidChannel
  <2>3. SettingsOf(s) = EventSource(s)
    BY <2>1 DEF SettingsOf
  <2>4. IF GoodSource(s) THEN Accepts(SettingsOf(s)) ELSE Refuses
    BY <1>2, <2>2, <2>3 DEF HandlesEventLog
  <2> HIDE DEF s
  <2>5. CASE GoodSource(s)
    BY <2>1, <2>4, <2>5 DEF Accepts, s
  <2>6. CASE ~GoodSource(s)
    BY <2>1, <2>4, <2>6 DEF Refuses, s
  <2> QED BY <2>5, <2>6
<1>3. CASE HandlesFile
  <2>1. Looking /\ s # NoObject /\ s.type = "file"
    BY <1>3 DEF HandlesFile, OfType
  <2>2. GoodSource(s) <=> IsValidSourceFile(s)
    <3>1. s.subdirectories \in BOOLEAN \cup {None} /\ None # TRUE
      <4>1. next \in 1 .. Len(document.sources)
        BY <2>1, DocumentTyped DEF Looking
      <4>2. Readable(s)
        BY <2>1, <4>1, DocumentTyped DEF Source
      <4> QED BY <2>1, <4>2, ConfigurationAssumption DEF Readable
    <3>2. Or(s.subdirectories, FALSE) <=> s.subdirectories = TRUE
      BY <3>1 DEF Or
    <3> QED BY <2>1, <3>2 DEF GoodSource, IsValidSourceFile
  <2>3. SettingsOf(s) = FileSource(s)
    BY <2>1 DEF SettingsOf
  <2>4. IF GoodSource(s) THEN Accepts(SettingsOf(s)) ELSE Refuses
    BY <1>3, <2>2, <2>3 DEF HandlesFile
  <2> HIDE DEF s
  <2>5. CASE GoodSource(s)
    BY <2>1, <2>4, <2>5 DEF Accepts, s
  <2>6. CASE ~GoodSource(s)
    BY <2>1, <2>4, <2>6 DEF Refuses, s
  <2> QED BY <2>5, <2>6
<1>4. CASE HandlesETW
  <2>1. Looking /\ s # NoObject /\ s.type = "etw"
    BY <1>4 DEF HandlesETW, OfType
  <2>2. GoodSource(s) <=> s.providers # None
    BY <2>1 DEF GoodSource
  <2>3. SettingsOf(s) = ETWSource(s)
    BY <2>1 DEF SettingsOf
  <2>4. IF GoodSource(s) THEN Accepts(SettingsOf(s)) ELSE Refuses
    BY <1>4, <2>2, <2>3 DEF HandlesETW
  <2> HIDE DEF s
  <2>5. CASE GoodSource(s)
    BY <2>1, <2>4, <2>5 DEF Accepts, s
  <2>6. CASE ~GoodSource(s)
    BY <2>1, <2>4, <2>6 DEF Refuses, s
  <2> QED BY <2>5, <2>6
<1>5. CASE HandlesProcess
  <2>1. Looking /\ s # NoObject /\ s.type = "process"
    BY <1>5 DEF HandlesProcess, OfType
  <2>2. GoodSource(s)
    BY <2>1 DEF GoodSource
  <2>3. SettingsOf(s) = [type |-> "process", format |-> Or(s.format, <<>>)]
    BY <2>1 DEF SettingsOf
  <2>4. Accepts(SettingsOf(s))
    BY <1>5, <2>3 DEF HandlesProcess
  <2> HIDE DEF s
  <2> QED BY <2>1, <2>2, <2>4 DEF Accepts, s
<1> QED BY <1>1, <1>2, <1>3, <1>4, <1>5 DEF TakesSource

LEMMA ReadingStep == CInv /\ ReadConfigFile => CInv'
<1> SUFFICES ASSUME CInv, ReadConfigFile PROVE CInv'
  OBVIOUS
<1> USE DEF CInv
<1>0. /\ document \in Documents /\ main \in {"read", "sources"} /\ main \notin Starts
      /\ next \in 1 .. Len(document.sources) + 1 /\ sources = Read(document, next - 1)
      /\ logFormat \in {"JSON", "XML", "Custom"} /\ Len(document.sources) \in Nat
  <2>1. main \in {"read", "sources"}
    BY DEF ReadConfigFile, ReadsDocument, RefusesDocument, SkipsSource, HandlesEventLog, HandlesFile,
           HandlesETW, ETWThrows, HandlesProcess, SourcesEnd, OfType, Looking
  <2>2. main \notin Starts
    BY <2>1 DEF Starts
  <2> QED BY <2>1, <2>2, DocumentTyped DEF Taken
<1>1. NothingStarted
  BY <1>0, NothingYet
<1>2. UNCHANGED <<document, starting>>
  BY <1>0, GoodIsTaken DEF ReadConfigFile, ReadsDocument, RefusesDocument, ETWThrows, SourcesEnd, TakesSource
<1>3. Taken' /\ (main' \in Starts => next' = 1)
  <2>1. CASE ReadsDocument \/ RefusesDocument
    <3>1. Or(document.logFormat, "JSON") \in {"JSON", "XML", "Custom"}
      BY <1>0, DocumentTyped DEF Or
    <3>2. /\ main' \in {"sources", "refused"} /\ logFormat' \in {"JSON", "XML", "Custom"}
          /\ UNCHANGED <<document, next, sources>>
          /\ main' = "refused" => document.shape # "whole"
      BY <1>0, <2>1, <3>1 DEF ReadsDocument, RefusesDocument
    <3>3. main' \notin Starts
      BY <3>2 DEF Starts
    <3> QED BY <1>0, <3>2, <3>3 DEF Taken
  <2>2. CASE TakesSource
    <3>1. /\ Looking /\ next' = next + 1 /\ main' = main /\ UNCHANGED <<document, logFormat>>
          /\ sources' = IF GoodSource(Source) THEN Append(sources, SettingsOf(Source)) ELSE sources
      BY <1>0, <2>2, GoodIsTaken
    <3>2. next \in 1 .. Len(document.sources) /\ next' - 1 = next
          /\ next' \in 1 .. Len(document.sources) + 1
      BY <1>0, <3>1 DEF Looking
    <3>3. sources' = Read(document, next)
      BY <1>0, <3>1, <3>2, ReadNext DEF Source
    <3>4. sources' = Read(document', next' - 1)
      BY <3>1, <3>2, <3>3
    <3> QED BY <1>0, <3>1, <3>2, <3>4 DEF Taken
  <2>3. CASE ETWThrows
    <3>1. main' = "refused" /\ UNCHANGED <<document, next, sources, logFormat>>
      BY <2>3 DEF ETWThrows
    <3>2. main' \notin Starts
      BY <3>1 DEF Starts
    <3>3. next \in GoodAt("etw")' /\ HasNoObject(document'.sources[next])
      <4>1. /\ next \in 1 .. Len(document.sources) /\ Source # NoObject
            /\ Source.type = "etw" /\ HasNoObject(Source)
        BY <1>0, <2>3 DEF ETWThrows, OfType, Looking
      <4>2. GoodSource(Source)
        BY <4>1 DEF GoodSource, HasNoObject
      <4> QED BY <3>1, <4>1, <4>2 DEF GoodAt, Source
    <3> QED BY <1>0, <3>1, <3>2, <3>3 DEF Taken
  <2>4. CASE SourcesEnd
    <3>1. /\ main' = "start" /\ next' = 1 /\ UNCHANGED <<document, sources, logFormat>>
          /\ next > Len(document.sources)
      BY <2>4 DEF SourcesEnd
    <3>2. next - 1 = Len(document.sources)
      BY <1>0, <3>1
    <3>3. sources' = Read(document', Len(document'.sources)) /\ Len(sources') \in Nat
      <4>1. Len(document.sources) \in 0 .. Len(document.sources)
        BY <1>0
      <4>2. Read(document, Len(document.sources)) \in Seq(Range(Settings(document)))
        BY <1>0, <4>1, ReadFrom
      <4> QED BY <1>0, <3>1, <3>2, <4>2
    <3>4. next' \in 1 .. Len(sources') + 1
      BY <3>1, <3>3
    <3>5. main' \in Starts /\ main' \notin Starts \ {"start"}
      BY <3>1 DEF Starts
    <3> QED BY <1>0, <3>1, <3>3, <3>4, <3>5 DEF Taken
  <2> QED BY <2>1, <2>2, <2>3, <2>4 DEF ReadConfigFile, TakesSource
<1>4. NothingStarted'
  <2>1. Through' = 0
    BY <1>3 DEF Through
  <2> QED BY <1>1, <1>2, <2>1 DEF NothingStarted, starting
<1>5. (NothingStarted => Collected /\ LastKept /\ Made)'
  BY NothingIs, PTL
<1> QED BY <1>3, <1>4, <1>5

(***************************************************************************)
(* One more settings record is seen.                                       *)
(***************************************************************************)
LEMMA KindNext ==
  ASSUME NEW ss, NEW m \in Nat, NEW type
  PROVE  /\ ss[m + 1].type # type => OfKind(ss, m + 1, type) = OfKind(ss, m, type)
         /\ ss[m + 1].type = type =>
              OfKind(ss, m + 1, type) # {} /\ Max(OfKind(ss, m + 1, type)) = m + 1
<1> DEFINE K == OfKind(ss, m + 1, type)
<1>1. \A k \in 1 .. m + 1 : k \in 1 .. m \/ k = m + 1
  OBVIOUS
<1>2. m + 1 \in 1 .. m + 1 /\ 1 .. m \subseteq 1 .. m + 1
  OBVIOUS
<1>3. ss[m + 1].type # type => K = OfKind(ss, m, type)
  BY <1>1, <1>2 DEF OfKind
<1>4. ASSUME ss[m + 1].type = type PROVE K # {} /\ Max(K) = m + 1
  <2>1. m + 1 \in K /\ K \subseteq 0 .. m + 1 /\ m + 1 \in Nat /\ K \subseteq 1 .. m + 1
    BY <1>2, <1>4 DEF OfKind
  <2> HIDE DEF K
  <2>2. Max(K) \in K /\ \A k \in K : k <= Max(K)
    BY <2>1, MaxIs
  <2>3. m + 1 <= Max(K) /\ Max(K) \in 1 .. m + 1
    BY <2>1, <2>2
  <2>4. Max(K) = m + 1
    BY <2>3
  <2> QED BY <2>1, <2>4
<1> QED BY <1>3, <1>4

LEMMA ItemsTyped ==
  ASSUME NEW ss, Len(ss) \in Nat, \A k \in 1 .. Len(ss) : SettingsOK(ss[k])
  PROVE  \E C, P : /\ \A k \in 1 .. Len(ss) : ChannelItems(ss)[k] \in Seq(C)
                   /\ \A k \in 1 .. Len(ss) : ProviderItems(ss)[k] \in Seq(P)
                   /\ \A c \in C \cup P : c.level \in Levels
<1> DEFINE C == {c \in UNION {Range(ss[k].channels) : k \in 1 .. Len(ss)} : c.level \in Levels}
           P == {c \in UNION {Range(ss[k].providers) : k \in 1 .. Len(ss)} : c.level \in Levels}
<1>1. ASSUME NEW k \in 1 .. Len(ss) PROVE ChannelItems(ss)[k] \in Seq(C)
  <2>1. CASE ss[k].type = "eventlog"
    <3>1. /\ ss[k].channels \in Seq(Range(ss[k].channels))
          /\ \A n \in 1 .. Len(ss[k].channels) : ss[k].channels[n].level \in Levels
      BY <2>1 DEF SettingsOK
    <3>2. \A n \in 1 .. Len(ss[k].channels) : ss[k].channels[n] \in C
      <4>1. \A n \in 1 .. Len(ss[k].channels) : ss[k].channels[n] \in Range(ss[k].channels)
        BY <3>1
      <4> QED BY <3>1, <4>1
    <3> HIDE DEF C
    <3>3. ss[k].channels \in Seq(C)
      BY <3>1, <3>2
    <3> QED BY <2>1, <3>3 DEF ChannelItems
  <2>2. CASE ss[k].type # "eventlog"
    <3>1. <<>> \in Seq(C)
      OBVIOUS
    <3> HIDE DEF C
    <3> QED BY <2>2, <3>1 DEF ChannelItems
  <2> QED BY <2>1, <2>2
<1>2. ASSUME NEW k \in 1 .. Len(ss) PROVE ProviderItems(ss)[k] \in Seq(P)
  <2>1. CASE ss[k].type = "etw"
    <3>1. /\ ss[k].providers \in Seq(Range(ss[k].providers))
          /\ \A n \in 1 .. Len(ss[k].providers) : ss[k].providers[n].level \in Levels
      BY <2>1 DEF SettingsOK
    <3>2. \A n \in 1 .. Len(ss[k].providers) : ss[k].providers[n] \in P
      <4>1. \A n \in 1 .. Len(ss[k].providers) : ss[k].providers[n] \in Range(ss[k].providers)
        BY <3>1
      <4> QED BY <3>1, <4>1
    <3> HIDE DEF P
    <3>3. ss[k].providers \in Seq(P)
      BY <3>1, <3>2
    <3> QED BY <2>1, <3>3 DEF ProviderItems
  <2>2. CASE ss[k].type # "etw"
    <3>1. <<>> \in Seq(P)
      OBVIOUS
    <3> HIDE DEF P
    <3> QED BY <2>2, <3>1 DEF ProviderItems
  <2> QED BY <2>1, <2>2
<1>3. \A c \in C \cup P : c.level \in Levels
  OBVIOUS
<1> HIDE DEF C, P
<1> QED BY <1>1, <1>2, <1>3

LEMMA ItemsNext ==
  ASSUME NEW ss, Len(ss) \in Nat, \A k \in 1 .. Len(ss) : SettingsOK(ss[k]), NEW m \in 0 .. Len(ss) - 1
  PROVE  /\ Joined(ChannelItems(ss), m + 1) =
              IF ss[m + 1].type = "eventlog" THEN Joined(ChannelItems(ss), m) \o ss[m + 1].channels
                                             ELSE Joined(ChannelItems(ss), m)
         /\ Joined(ProviderItems(ss), m + 1) =
              IF ss[m + 1].type = "etw" THEN Joined(ProviderItems(ss), m) \o ss[m + 1].providers
                                        ELSE Joined(ProviderItems(ss), m)
<1>1. PICK C, P : /\ \A k \in 1 .. Len(ss) : ChannelItems(ss)[k] \in Seq(C)
                  /\ \A k \in 1 .. Len(ss) : ProviderItems(ss)[k] \in Seq(P)
  BY ItemsTyped
<1>2. /\ Joined(ChannelItems(ss), m + 1) = Joined(ChannelItems(ss), m) \o ChannelItems(ss)[m + 1]
      /\ Joined(ChannelItems(ss), m) \in Seq(C)
  BY <1>1, JoinedStep
<1>3. /\ Joined(ProviderItems(ss), m + 1) = Joined(ProviderItems(ss), m) \o ProviderItems(ss)[m + 1]
      /\ Joined(ProviderItems(ss), m) \in Seq(P)
  BY <1>1, JoinedStep
<1>4. /\ ChannelItems(ss)[m + 1] = IF ss[m + 1].type = "eventlog" THEN ss[m + 1].channels ELSE <<>>
      /\ ProviderItems(ss)[m + 1] = IF ss[m + 1].type = "etw" THEN ss[m + 1].providers ELSE <<>>
  <2>1. m + 1 \in 1 .. Len(ss)
    OBVIOUS
  <2> QED BY <2>1 DEF ChannelItems, ProviderItems
<1>5. /\ Joined(ChannelItems(ss), m) \o <<>> = Joined(ChannelItems(ss), m)
      /\ Joined(ProviderItems(ss), m) \o <<>> = Joined(ProviderItems(ss), m)
  <2>1. \A x \in Seq(C) : x \o <<>> = x
    OBVIOUS
  <2>2. \A x \in Seq(P) : x \o <<>> = x
    OBVIOUS
  <2> QED BY <1>2, <1>3, <2>1, <2>2
<1> QED BY <1>2, <1>3, <1>4, <1>5

FileMonitorsOf(ss) == {FileMonitorOf(ss[k]) : k \in 1 .. Len(ss)}

LEMMA FileItemsTyped ==
  ASSUME NEW ss, Len(ss) \in Nat, NEW k \in 1 .. Len(ss)
  PROVE  /\ FileItems(ss)[k] = IF ss[k].type = "file" THEN <<FileMonitorOf(ss[k])>> ELSE <<>>
         /\ FileItems(ss)[k] \in Seq(FileMonitorsOf(ss))
<1>1. FileItems(ss)[k] = IF ss[k].type = "file" THEN <<FileMonitorOf(ss[k])>> ELSE <<>>
  BY DEF FileItems
<1>2. FileMonitorOf(ss[k]) \in FileMonitorsOf(ss)
  BY DEF FileMonitorsOf
<1> DEFINE e == FileMonitorOf(ss[k])
           U == FileMonitorsOf(ss)
<1> HIDE DEF e, U
<1>3. <<>> \in Seq(U) /\ (e \in U => <<e>> \in Seq(U))
  OBVIOUS
<1> QED BY <1>1, <1>2, <1>3 DEF e, U

\* One more behind a sequence.
LEMMA AppendIs ==
  ASSUME NEW T, NEW s \in Seq(T), NEW e
  PROVE  /\ s \o <<e>> = Append(s, e) /\ s \o <<>> = s
         /\ Append(s, e) \in Seq(T \cup {e})
         /\ \A n \in 1 .. Len(Append(s, e)) : Append(s, e)[n] \in T \cup {e}
<1>1. s \in Seq(T \cup {e}) /\ e \in T \cup {e}
  OBVIOUS
<1> DEFINE U == T \cup {e}
<1> HIDE DEF U
<1>2. \A x \in Seq(U), y \in U :
        /\ x \o <<y>> = Append(x, y) /\ x \o <<>> = x /\ Append(x, y) \in Seq(U)
  OBVIOUS
<1>3. \A x \in Seq(U) : \A n \in 1 .. Len(x) : x[n] \in U
  OBVIOUS
<1>4. s \in Seq(U) /\ e \in U
  BY <1>1 DEF U
<1> QED BY <1>2, <1>3, <1>4 DEF U

LEMMA FilesNext ==
  ASSUME NEW ss, Len(ss) \in Nat, NEW m \in 0 .. Len(ss) - 1
  PROVE  Joined(FileItems(ss), m + 1) =
           IF ss[m + 1].type = "file" THEN Append(Joined(FileItems(ss), m), FileMonitorOf(ss[m + 1]))
                                      ELSE Joined(FileItems(ss), m)
<1>1. \A k \in 1 .. Len(ss) :
        /\ FileItems(ss)[k] = IF ss[k].type = "file" THEN <<FileMonitorOf(ss[k])>> ELSE <<>>
        /\ FileItems(ss)[k] \in Seq(FileMonitorsOf(ss))
  BY FileItemsTyped
<1>2. m + 1 \in 1 .. Len(ss)
  OBVIOUS
<1> DEFINE F == FileItems(ss)
           U == FileMonitorsOf(ss)
           e == FileMonitorOf(ss[m + 1])
<1>3. \A k \in 1 .. Len(ss) : F[k] \in Seq(U)
  BY <1>1
<1>4. F[m + 1] = IF ss[m + 1].type = "file" THEN <<e>> ELSE <<>>
  BY <1>1, <1>2
<1> HIDE DEF F, U, e
<1>5. Joined(F, m + 1) = Joined(F, m) \o F[m + 1] /\ Joined(F, m) \in Seq(U)
  BY <1>3, JoinedStep
<1>6. Joined(F, m) \o <<e>> = Append(Joined(F, m), e) /\ Joined(F, m) \o <<>> = Joined(F, m)
  BY <1>5, AppendIs
<1>7. Joined(F, m + 1) = IF ss[m + 1].type = "file" THEN Append(Joined(F, m), e) ELSE Joined(F, m)
  BY <1>4, <1>5, <1>6
<1> QED BY <1>7 DEF F, e

(***************************************************************************)
(* What the actions of StartMonitors share.                                *)
(***************************************************************************)
Sees == main = "start" /\ next <= Len(sources) /\ next' = next + 1 /\ UNCHANGED <<document, main, sources, logFormat>>

LEMMA SourcesOK ==
  ASSUME Taken, main \in Starts
  PROVE  /\ sources \in Seq(Range(Settings(document))) /\ Len(sources) \in Nat
         /\ \A k \in 1 .. Len(sources) : SettingsOK(sources[k])
         /\ sources = Selected(Settings(document), Good(document))
         /\ Len(sources) = Count(Settings(document), Good(document), Len(Settings(document)))
<1> DEFINE N == Len(document.sources)
<1>1. document \in Documents /\ sources = Read(document, N) /\ N \in 0 .. N /\ N = Len(Settings(document))
  <2>1. document \in Documents /\ sources = Read(document, N)
    BY DEF Taken
  <2> QED BY <2>1, ReadTyped
<1>2. sources \in Seq(Range(Settings(document)))
  BY <1>1, ReadFrom
<1>3. \A k \in 1 .. Len(sources) : SettingsOK(sources[k])
  BY <1>1, ReadOK
<1>4. /\ sources = Selected(Settings(document), Good(document))
      /\ Len(sources) = Count(Settings(document), Good(document), Len(Settings(document)))
  BY <1>1 DEF Read, Selected, Count
<1> QED BY <1>2, <1>3, <1>4

LEMMA SeesOne ==
  ASSUME CInv, Sees
  PROVE  /\ Taken' /\ Through = next - 1 /\ Through' = next
         /\ next \in 1 .. Len(sources) /\ Through \in 0 .. Len(sources) - 1 /\ Through + 1 = next
         /\ Len(sources) \in Nat /\ \A k \in 1 .. Len(sources) : SettingsOK(sources[k])
<1>1. main = "start" /\ main' = "start" /\ "start" \in Starts
  BY DEF Sees, Starts
<1>2. Taken /\ next \in 1 .. Len(sources) + 1 /\ sources = Read(document, Len(document.sources))
      /\ document \in Documents /\ logFormat \in {"JSON", "XML", "Custom"}
  BY <1>1 DEF CInv, Taken
<1>3. Len(sources) \in Nat /\ \A k \in 1 .. Len(sources) : SettingsOK(sources[k])
  BY <1>1, <1>2, SourcesOK
<1>4. next \in 1 .. Len(sources) /\ next' \in 1 .. Len(sources) + 1 /\ next' - 1 = next
      /\ next - 1 \in 0 .. Len(sources) - 1 /\ (next - 1) + 1 = next
  BY <1>2, <1>3 DEF Sees
<1>5. Through = next - 1 /\ Through' = next
  BY <1>1, <1>4 DEF Through
<1>6. Taken'
  BY <1>1, <1>2, <1>4 DEF Taken, Sees
<1> QED BY <1>3, <1>4, <1>5, <1>6

\* A file source has its monitor, and any other leaves the monitors as they are.
LEMMA FileSeen ==
  ASSUME CInv, Sees,
         monitors' = IF sources[next].type = "file" THEN Append(monitors, FileMonitorOf(sources[next]))
                                                    ELSE monitors
  PROVE  Made'
<1>1. /\ Through \in 0 .. Len(sources) - 1 /\ Through + 1 = next /\ Through' = next
      /\ Len(sources) \in Nat
  BY SeesOne
<1>2. main = "start" /\ main' = "start" /\ sources' = sources /\ "start" \in Starts
  BY DEF Sees, Starts
<1>3. monitors = Joined(FileItems(sources), Through)
  BY <1>2 DEF CInv, Made, Files
<1> DEFINE m == Through
<1>4. Joined(FileItems(sources), m + 1) =
        IF sources[m + 1].type = "file"
        THEN Append(Joined(FileItems(sources), m), FileMonitorOf(sources[m + 1]))
        ELSE Joined(FileItems(sources), m)
  BY <1>1, FilesNext
<1>5. m + 1 = next /\ monitors = Joined(FileItems(sources), m)
  BY <1>1, <1>3
<1> HIDE DEF m
<1>6. monitors' = Joined(FileItems(sources), next)
  BY <1>4, <1>5
<1>7. Files' = monitors'
  BY <1>1, <1>2, <1>6 DEF Files
<1> QED BY <1>2, <1>7 DEF Made

LEMMA CollectedNext ==
  ASSUME CInv, Sees,
         channels' = IF sources[next].type = "eventlog" THEN channels \o sources[next].channels ELSE channels,
         providers' = IF sources[next].type = "etw" THEN providers \o sources[next].providers ELSE providers
  PROVE  Collected'
<1>1. /\ Through \in 0 .. Len(sources) - 1 /\ Through + 1 = next /\ Through' = next
      /\ Len(sources) \in Nat /\ \A k \in 1 .. Len(sources) : SettingsOK(sources[k])
  BY SeesOne
<1>2. sources' = sources
  BY DEF Sees
<1> DEFINE m == Through
<1>3. /\ Joined(ChannelItems(sources), m + 1) =
           IF sources[m + 1].type = "eventlog" THEN Joined(ChannelItems(sources), m) \o sources[m + 1].channels
                                               ELSE Joined(ChannelItems(sources), m)
      /\ Joined(ProviderItems(sources), m + 1) =
           IF sources[m + 1].type = "etw" THEN Joined(ProviderItems(sources), m) \o sources[m + 1].providers
                                          ELSE Joined(ProviderItems(sources), m)
  BY <1>1, ItemsNext
<1>4. channels = Joined(ChannelItems(sources), m) /\ providers = Joined(ProviderItems(sources), m)
  BY DEF CInv, Collected
<1>5. m + 1 = next /\ Through' = next
  BY <1>1
<1> HIDE DEF m
<1>6. channels' = Joined(ChannelItems(sources), next) /\ providers' = Joined(ProviderItems(sources), next)
  BY <1>3, <1>4, <1>5
<1> QED BY <1>2, <1>5, <1>6 DEF Collected

LEMMA LastKeptNext ==
  ASSUME CInv, Sees,
         eventSettings' = IF sources[next].type = "eventlog"
                          THEN [multiLine |-> sources[next].multiLine, oldest |-> sources[next].oldest,
                                format |-> sources[next].format]
                          ELSE eventSettings,
         etwSettings' = IF sources[next].type = "etw"
                        THEN [multiLine |-> sources[next].multiLine, format |-> sources[next].format]
                        ELSE etwSettings,
         processFormat' = IF sources[next].type = "process" THEN sources[next].format ELSE processFormat
  PROVE  LastKept'
<1>1. /\ Through \in Nat /\ Through + 1 = next /\ Through' = next
  <2>1. Through \in 0 .. Len(sources) - 1 /\ Through + 1 = next /\ Through' = next /\ Len(sources) \in Nat
    BY SeesOne
  <2> QED BY <2>1
<1>2. sources' = sources
  BY DEF Sees
<1>3. ASSUME NEW type
      PROVE  /\ sources[next].type # type => OfKind(sources, next, type) = OfKind(sources, Through, type)
             /\ sources[next].type = type =>
                  OfKind(sources, next, type) # {} /\ Max(OfKind(sources, next, type)) = next
  BY <1>1, KindNext
<1> DEFINE K(type) == OfKind(sources', Through', type)
<1>4. K("eventlog") # {} =>
        eventSettings' = [multiLine |-> sources'[Max(K("eventlog"))].multiLine,
                          oldest |-> sources'[Max(K("eventlog"))].oldest,
                          format |-> sources'[Max(K("eventlog"))].format]
  <2>1. CASE sources[next].type = "eventlog"
    BY <1>1, <1>2, <1>3, <2>1
  <2>2. CASE sources[next].type # "eventlog"
    BY <1>1, <1>2, <1>3, <2>2 DEF CInv, LastKept
  <2> QED BY <2>1, <2>2
<1>5. K("etw") # {} =>
        etwSettings' = [multiLine |-> sources'[Max(K("etw"))].multiLine,
                        format |-> sources'[Max(K("etw"))].format]
  <2>1. CASE sources[next].type = "etw"
    BY <1>1, <1>2, <1>3, <2>1
  <2>2. CASE sources[next].type # "etw"
    BY <1>1, <1>2, <1>3, <2>2 DEF CInv, LastKept
  <2> QED BY <2>1, <2>2
<1>6. processFormat' = IF K("process") = {} THEN <<>> ELSE sources'[Max(K("process"))].format
  <2>1. CASE sources[next].type = "process"
    BY <1>1, <1>2, <1>3, <2>1
  <2>2. CASE sources[next].type # "process"
    BY <1>1, <1>2, <1>3, <2>2 DEF CInv, LastKept
  <2> QED BY <2>1, <2>2
<1> QED BY <1>4, <1>5, <1>6 DEF LastKept

LEMMA SourceSeen ==
  ASSUME CInv, InitializeEventLogMonitor \/ InitializeEtwMonitor \/ InitializeProcessMonitor \/ InitializeFileMonitor
  PROVE  CInv'
<1>1. CASE InitializeEventLogMonitor
  <2>1. /\ Sees /\ sources[next].type = "eventlog"
        /\ channels' = channels \o sources[next].channels
        /\ eventSettings' = [multiLine |-> sources[next].multiLine, oldest |-> sources[next].oldest,
                             format |-> sources[next].format]
        /\ UNCHANGED <<providers, etwSettings, processFormat, monitors>>
    BY <1>1 DEF InitializeEventLogMonitor, Starting, Started, Sees
  <2>2. Taken' /\ Collected' /\ LastKept'
    BY <2>1, SeesOne, CollectedNext, LastKeptNext
  <2>3. Made'
    BY <2>1, FileSeen
  <2> QED BY <2>2, <2>3 DEF CInv
<1>2. CASE InitializeEtwMonitor
  <2>1. /\ Sees /\ sources[next].type = "etw"
        /\ providers' = providers \o sources[next].providers
        /\ etwSettings' = [multiLine |-> sources[next].multiLine, format |-> sources[next].format]
        /\ UNCHANGED <<channels, eventSettings, processFormat, monitors>>
    BY <1>2 DEF InitializeEtwMonitor, Starting, Started, Sees
  <2>2. Taken' /\ Collected' /\ LastKept'
    BY <2>1, SeesOne, CollectedNext, LastKeptNext
  <2>3. Made'
    BY <2>1, FileSeen
  <2> QED BY <2>2, <2>3 DEF CInv
<1>3. CASE InitializeProcessMonitor
  <2>1. /\ Sees /\ sources[next].type = "process" /\ processFormat' = sources[next].format
        /\ UNCHANGED <<channels, providers, eventSettings, etwSettings, monitors>>
    BY <1>3 DEF InitializeProcessMonitor, Starting, Started, Sees
  <2>2. Taken' /\ Collected' /\ LastKept'
    BY <2>1, SeesOne, CollectedNext, LastKeptNext
  <2>3. Made'
    BY <2>1, FileSeen
  <2> QED BY <2>2, <2>3 DEF CInv
<1>4. CASE InitializeFileMonitor
  <2>1. /\ Sees /\ sources[next].type = "file"
        /\ UNCHANGED <<channels, providers, eventSettings, etwSettings, processFormat>>
        /\ monitors' = Append(monitors, FileMonitorOf(sources[next]))
    BY <1>4 DEF InitializeFileMonitor, Starting, Started, Sees, Creates, FileMonitorOf
  <2>2. Taken' /\ Collected' /\ LastKept'
    BY <2>1, SeesOne, CollectedNext, LastKeptNext
  <2>3. Made'
    BY <2>1, FileSeen
  <2> QED BY <2>2, <2>3 DEF CInv
<1> QED BY <1>1, <1>2, <1>3, <1>4

(***************************************************************************)
(* The monitors of the event log and of ETW come last.                     *)
(***************************************************************************)
LEMMA PartsStay ==
  ASSUME UNCHANGED <<sources, Through, channels, providers, eventSettings, etwSettings>>
  PROVE  UNCHANGED <<Files, WithEvents, WithEtw, EventMonitorIs, EtwMonitorIs>>
<1>1. UNCHANGED <<Files, EventMonitorIs, EtwMonitorIs>>
  BY DEF Files, EventMonitorIs, EtwMonitorIs
<1>2. UNCHANGED WithEvents
  BY <1>1 DEF WithEvents
<1>3. UNCHANGED WithEtw
  BY <1>1, <1>2 DEF WithEtw
<1> QED BY <1>1, <1>2, <1>3

LEMMA EventMonitorMade == CInv /\ CreateEventMonitor => CInv'
<1> SUFFICES ASSUME CInv, CreateEventMonitor PROVE CInv'
  OBVIOUS
<1>1. /\ main = "start" /\ main' = "start etw" /\ next > Len(sources)
      /\ UNCHANGED <<document, next, sources, logFormat, channels, providers, eventSettings, etwSettings, processFormat>>
      /\ monitors' = IF channels = <<>> THEN monitors ELSE Append(monitors, EventMonitorIs)
  BY DEF CreateEventMonitor, Creates, CreatesNone, reading, EventMonitorIs
<1>2. main \in Starts /\ main' \in Starts
  BY <1>1 DEF Starts
<1>3. UNCHANGED Through
  BY <1>1, <1>2 DEF Through
<1>4. Taken'
  <2>1. next \in 1 .. Len(sources) + 1 /\ Len(sources) \in Nat
    <3>1. Taken
      BY DEF CInv
    <3>2. Len(sources) \in Nat
      BY <1>2, <3>1, SourcesOK
    <3> QED BY <1>2, <3>1, <3>2 DEF Taken
  <2>2. next = Len(sources) + 1
    <3> DEFINE L == Len(sources)
    <3>1. next \in 1 .. L + 1 /\ L \in Nat /\ next > L
      BY <1>1, <2>1
    <3> HIDE DEF L
    <3>2. next = L + 1
      BY <3>1
    <3> QED BY <3>2 DEF L
  <2> QED BY <1>1, <1>2, <2>2 DEF CInv, Taken
<1>5. Collected' /\ LastKept'
  BY <1>1, <1>3 DEF CInv, Collected, LastKept
<1>6. monitors = Files
  BY <1>1 DEF CInv, Made
<1>7. monitors' = WithEvents'
  <2>1. monitors' = WithEvents
    BY <1>1, <1>6 DEF WithEvents
  <2> QED BY <1>1, <1>3, <2>1, PartsStay
<1>8. Made'
  BY <1>1, <1>2, <1>7 DEF Made
<1> QED BY <1>4, <1>5, <1>8 DEF CInv

LEMMA EtwMonitorMade == CInv /\ CreateEtwMonitor => CInv'
<1> SUFFICES ASSUME CInv, CreateEtwMonitor PROVE CInv'
  OBVIOUS
<1>1. /\ main = "start etw" /\ main' = "started"
      /\ UNCHANGED <<document, next, sources, logFormat, channels, providers, eventSettings, etwSettings, processFormat>>
      /\ monitors' = IF providers = <<>> THEN monitors ELSE Append(monitors, EtwMonitorIs)
  BY DEF CreateEtwMonitor, Creates, CreatesNone, reading, EtwMonitorIs
<1>2. main \in Starts \ {"start"} /\ main' \in Starts \ {"start"}
  BY <1>1 DEF Starts
<1>3. UNCHANGED Through
  BY <1>1, <1>2 DEF Through
<1>4. Taken'
  BY <1>1, <1>2 DEF CInv, Taken
<1>5. Collected' /\ LastKept'
  BY <1>1, <1>3 DEF CInv, Collected, LastKept
<1>6. monitors = WithEvents
  BY <1>1 DEF CInv, Made
<1>7. monitors' = WithEtw'
  <2>1. monitors' = WithEtw
    BY <1>1, <1>6 DEF WithEtw
  <2> QED BY <1>1, <1>3, <2>1, PartsStay
<1>8. Made'
  BY <1>1, <1>2, <1>7 DEF Made
<1> QED BY <1>4, <1>5, <1>8 DEF CInv

LEMMA CInvUnchanged ==
  ASSUME CInv, UNCHANGED <<document, main, reading, starting>>
  PROVE  CInv'
<1>1. UNCHANGED <<document, main, next, sources, logFormat, channels, providers, eventSettings, etwSettings,
                  processFormat, monitors>>
  BY DEF reading, starting
<1>2. UNCHANGED Through
  BY <1>1 DEF Through
<1>3. Collected' /\ LastKept'
  BY <1>1, <1>2 DEF CInv, Collected, LastKept
<1>4. Taken'
  <2>1. GoodAt("etw")' = GoodAt("etw")
    BY <1>1 DEF GoodAt
  <2> QED BY <1>1, <2>1 DEF CInv, Taken
<1>5. Made'
  BY <1>1, <1>2, PartsStay DEF CInv, Made
<1> QED BY <1>3, <1>4, <1>5 DEF CInv

LEMMA CInvStep == CInv /\ [Next]_vars => CInv'
<1> SUFFICES ASSUME CInv, [Next]_vars PROVE CInv'
  OBVIOUS
<1>1. CASE ReadConfigFile
  BY <1>1, ReadingStep
<1>2. CASE StartMonitors
  BY <1>2, SourceSeen, EventMonitorMade, EtwMonitorMade DEF StartMonitors
<1>3. CASE Lines \/ UNCHANGED vars
  <2>1. UNCHANGED <<document, main, reading, starting>>
    BY <1>3 DEF Lines, ProcessPrints, MonitorPrints, Prints, vars
  <2> QED BY <2>1, CInvUnchanged
<1> QED BY <1>1, <1>2, <1>3 DEF Next, Main

LEMMA CInvHolds == Spec => []CInv
BY CInvInit, CInvStep, PTL DEF Spec

(***************************************************************************)
(* From the settings back to the document.                                 *)
(***************************************************************************)
LEMMA TakenAs ==
  ASSUME Taken, main \in Starts, NEW n \in Good(document)
  PROVE  /\ n \in 1 .. Len(document.sources)
         /\ Readable(document.sources[n]) /\ GoodSource(document.sources[n])
         /\ Count(Settings(document), Good(document), n) \in 1 .. Len(sources)
         /\ sources[Count(Settings(document), Good(document), n)] = SettingsOf(document.sources[n])
         /\ Settings(document)[n] = SettingsOf(document.sources[n])
         /\ SettingsOf(document.sources[n]).type = document.sources[n].type
<1> DEFINE s == Settings(document)
           I == Good(document)
<1>1. document \in Documents
  BY DEF Taken
<1>2. n \in 1 .. Len(document.sources) /\ Readable(document.sources[n]) /\ GoodSource(document.sources[n])
  BY <1>1, GoodTyped
<1>3. /\ s \in Seq(Range(s)) /\ Len(s) = Len(document.sources) /\ Len(s) \in Nat
      /\ s[n] = SettingsOf(document.sources[n])
  BY <1>1, <1>2, ReadTyped
<1>4. sources = Selected(s, I) /\ Len(sources) = Count(s, I, Len(s))
  BY SourcesOK
<1>5. n \in 1 .. Len(s) /\ n \in I /\ Len(s) \in n .. Len(s)
  BY <1>2, <1>3
<1>6. SettingsOf(document.sources[n]).type = document.sources[n].type
  BY <1>2, SettingsTyped
<1> HIDE DEF s, I
<1>7. Count(s, I, n) \in 1 .. Count(s, I, Len(s)) /\ Joined(Picks(s, I), Len(s))[Count(s, I, n)] = s[n]
  BY <1>3, <1>5, TakenAt
<1>8. Count(s, I, n) \in 1 .. Len(sources) /\ sources[Count(s, I, n)] = s[n]
  BY <1>4, <1>7 DEF Selected
<1> QED BY <1>2, <1>3, <1>6, <1>8 DEF s, I

LEMMA LastOfKind ==
  ASSUME Taken, main \in Starts, NEW type
  PROVE  LET K == OfKind(sources, Len(sources), type) IN
         /\ K = {} <=> GoodAt(type) = {}
         /\ GoodAt(type) # {} =>
              /\ sources[Max(K)] = SettingsOf(LastGood(type)) /\ LastGood(type).type = type
              /\ Readable(LastGood(type)) /\ GoodSource(LastGood(type))
<1> DEFINE s == Settings(document)
           I == Good(document)
           A == {x \in Range(s) : x.type = type}
           K == OfKind(sources, Len(sources), type)
           G == GoodAt(type)
<1>1. /\ s \in Seq(Range(s)) /\ Len(s) = Len(document.sources)
      /\ sources = Selected(s, I) /\ Len(sources) = Count(s, I, Len(s))
      /\ sources \in Seq(Range(s))
  BY SourcesOK, ReadTyped DEF Taken
<1>2. K = SelectedIn(s, I, A)
  <2>1. \A k \in 1 .. Len(sources) : sources[k] \in Range(s)
    BY <1>1
  <2>2. K = {k \in 1 .. Len(sources) : sources[k].type = type}
    BY DEF OfKind
  <2>3. \A k \in 1 .. Len(sources) : sources[k].type = type <=> sources[k] \in A
    BY <2>1
  <2> HIDE DEF s, I, A, K
  <2> QED BY <1>1, <2>2, <2>3 DEF SelectedIn
<1>3. G = TakenIn(s, I, A)
  <2>1. ASSUME NEW n \in 1 .. Len(s)
        PROVE  n \in G <=> n \in I /\ s[n] \in A
    <3>1. n \in 1 .. Len(document.sources) /\ s[n] \in Range(s)
      BY <1>1
    <3>2. CASE n \in I
      <4>1. s[n].type = document.sources[n].type /\ GoodSource(document.sources[n])
        BY <3>2, TakenAs
      <4>2. n \in G <=> document.sources[n].type = type
        BY <3>1, <4>1 DEF GoodAt
      <4> QED BY <3>1, <3>2, <4>1, <4>2
    <3>3. CASE n \notin I
      BY <3>1, <3>3 DEF GoodAt, Good
    <3> QED BY <3>2, <3>3
  <2>2. G \subseteq 1 .. Len(s)
    BY <1>1 DEF GoodAt
  <2> HIDE DEF G, s, I, A
  <2> QED BY <2>1, <2>2 DEF TakenIn
<1>4. /\ K = {} <=> G = {}
      /\ G # {} => Max(G) \in G /\ sources[Max(K)] = s[Max(G)]
  <2>1. s \in Seq(Range(s))
    BY <1>1
  <2> HIDE DEF G, K, s, I, A
  <2>2. /\ K = {} <=> G = {}
        /\ G # {} => Max(G) \in G /\ Selected(s, I)[Max(K)] = s[Max(G)]
    <3> DEFINE R == Range(s)
    <3>1. s \in Seq(R)
      BY <2>1
    <3> HIDE DEF R
    <3> QED BY <1>2, <1>3, <3>1, LastTaken
  <2> QED BY <1>1, <2>2
<1>5. ASSUME G # {}
      PROVE  /\ sources[Max(K)] = SettingsOf(LastGood(type)) /\ LastGood(type).type = type
             /\ Readable(LastGood(type)) /\ GoodSource(LastGood(type))
  <2> DEFINE n == Max(G)
  <2>1. n \in G
    BY <1>4, <1>5
  <2>2. n \in I /\ document.sources[n].type = type
    BY <2>1 DEF GoodAt, Good
  <2>3. LastGood(type) = document.sources[n]
    BY DEF LastGood
  <2> HIDE DEF n, G, I
  <2>4. /\ Readable(document.sources[n]) /\ GoodSource(document.sources[n])
        /\ s[n] = SettingsOf(document.sources[n])
    BY <2>2, TakenAs DEF I
  <2>5. sources[Max(K)] = s[n]
    BY <1>4, <1>5 DEF n
  <2> QED BY <2>2, <2>3, <2>4, <2>5
<1> QED BY <1>4, <1>5

LEMMA ItemsAsked ==
  ASSUME Taken, main \in Starts
  PROVE  /\ Joined(ChannelItems(sources), Len(sources)) = OfSources(GoodAt("eventlog"), ChannelsAsked)
         /\ Joined(ProviderItems(sources), Len(sources)) = OfSources(GoodAt("etw"), ProvidersAsked)
<1> DEFINE s == Settings(document)
           I == Good(document)
           N == Len(document.sources)
           f == [n \in 1 .. N |-> IF n \in GoodAt("eventlog") THEN ChannelsAsked(document.sources[n]) ELSE <<>>]
           g == [n \in 1 .. N |-> IF n \in GoodAt("etw") THEN ProvidersAsked(document.sources[n]) ELSE <<>>]
<1>1. /\ s \in Seq(Range(s)) /\ Len(s) = N /\ Len(sources) = Count(s, I, Len(s)) /\ Len(sources) \in Nat
      /\ \A k \in 1 .. Len(sources) : SettingsOK(sources[k])
  BY SourcesOK, ReadTyped DEF Taken
<1>2. PICK C, P : /\ \A k \in 1 .. Len(sources) : ChannelItems(sources)[k] \in Seq(C)
                  /\ \A k \in 1 .. Len(sources) : ProviderItems(sources)[k] \in Seq(P)
  BY <1>1, ItemsTyped
<1>3. ASSUME NEW n \in 1 .. N
      PROVE  /\ f[n] = IF n \in I THEN ChannelItems(sources)[Count(s, I, n)] ELSE <<>>
             /\ g[n] = IF n \in I THEN ProviderItems(sources)[Count(s, I, n)] ELSE <<>>
  <2> DEFINE d == document.sources[n]
             x == SettingsOf(d)
  <2>1. CASE n \in I
    <3>1. /\ Count(s, I, n) \in 1 .. Len(sources) /\ sources[Count(s, I, n)] = x
          /\ Readable(d) /\ GoodSource(d) /\ x.type = d.type
      BY <2>1, TakenAs
    <3>2. /\ ChannelItems(sources)[Count(s, I, n)] = IF x.type = "eventlog" THEN x.channels ELSE <<>>
          /\ ProviderItems(sources)[Count(s, I, n)] = IF x.type = "etw" THEN x.providers ELSE <<>>
      BY <3>1 DEF ChannelItems, ProviderItems
    <3>3. d.type = "eventlog" => x.channels = ChannelsAsked(d)
      BY <3>1, SettingsTyped, SourceOfChannels
    <3>4. d.type = "etw" => x.providers = ProvidersAsked(d)
      BY <3>1, SettingsTyped, SourceOfProviders
    <3>5. /\ n \in GoodAt("eventlog") <=> d.type = "eventlog"
          /\ n \in GoodAt("etw") <=> d.type = "etw"
      BY <3>1 DEF GoodAt
    <3>6. /\ f[n] = IF n \in GoodAt("eventlog") THEN ChannelsAsked(d) ELSE <<>>
          /\ g[n] = IF n \in GoodAt("etw") THEN ProvidersAsked(d) ELSE <<>>
      OBVIOUS
    <3> HIDE DEF x, d, f, g
    <3> QED BY <2>1, <3>1, <3>2, <3>3, <3>4, <3>5, <3>6
  <2>2. CASE n \notin I
    <3>1. n \notin GoodAt("eventlog") /\ n \notin GoodAt("etw")
      BY <2>2 DEF GoodAt, Good
    <3> QED BY <2>2, <3>1
  <2> QED BY <2>1, <2>2
<1>4. Joined(ChannelItems(sources), Len(sources)) = Joined(f, N)
  <2> HIDE DEF f, s, I, g, N
  <2> QED BY <1>1, <1>2, <1>3, JoinedThrough
<1>5. Joined(ProviderItems(sources), Len(sources)) = Joined(g, N)
  <2> HIDE DEF f, s, I, g, N
  <2> QED BY <1>1, <1>2, <1>3, JoinedThrough
<1>6. /\ OfSources(GoodAt("eventlog"), ChannelsAsked) = Joined(f, N)
      /\ OfSources(GoodAt("etw"), ProvidersAsked) = Joined(g, N)
  BY DEF OfSources
<1> QED BY <1>4, <1>5, <1>6

LEMMA FileIsAsked ==
  ASSUME NEW s, Readable(s), GoodSource(s), s.type = "file"
  PROVE  FileMonitorOf(SettingsOf(s))
           = [kind |-> "file", source |-> FileAsked(s), format |-> FormatAsked(s)]
<1>1. SettingsOf(s) = FileSource(s) /\ SettingsOf(s).format = FormatAsked(s)
  BY SettingsTyped
<1>2. Or(s.format, <<>>) = FormatAsked(s)
  BY DEF Or, FormatAsked
<1>3. Or(s.subdirectories, FALSE) = (s.subdirectories = TRUE)
  <2>1. s.subdirectories \in BOOLEAN \cup {None} /\ None # TRUE /\ None # FALSE
    BY ConfigurationAssumption DEF Readable
  <2> QED BY <2>1 DEF Or
<1>4. WaitOf(s) = IF IsText(s.wait) THEN WaitOf(s) ELSE WaitAsked(s)
  <2>1. s.wait = None \/ s.wait.text = TRUE \/ s.wait.text = FALSE
    BY DEF Readable
  <2> QED BY <2>1 DEF WaitOf, IsText, WaitAsked
<1>5. FileSource(s) = FileAsked(s)
  BY <1>2, <1>3, <1>4 DEF FileSource, FileAsked, Or
<1> QED BY <1>1, <1>5 DEF FileMonitorOf

LEMMA FilesAsked ==
  ASSUME Taken, main \in Starts
  PROVE  Joined(FileItems(sources), Len(sources))
           = OfSources(GoodAt("file"),
               LAMBDA x : <<[kind |-> "file", source |-> FileAsked(x), format |-> FormatAsked(x)]>>)
<1> DEFINE s == Settings(document)
           I == Good(document)
           N == Len(document.sources)
           m(x) == [kind |-> "file", source |-> FileAsked(x), format |-> FormatAsked(x)]
           f == [n \in 1 .. N |-> IF n \in GoodAt("file") THEN <<m(document.sources[n])>> ELSE <<>>]
           h == FileItems(sources)
           U == FileMonitorsOf(sources)
<1>1. /\ s \in Seq(Range(s)) /\ Len(s) = N /\ Len(sources) = Count(s, I, Len(s)) /\ Len(sources) \in Nat
  BY SourcesOK, ReadTyped DEF Taken
<1>2. \A k \in 1 .. Len(sources) :
        /\ h[k] = IF sources[k].type = "file" THEN <<FileMonitorOf(sources[k])>> ELSE <<>>
        /\ h[k] \in Seq(U)
  BY <1>1, FileItemsTyped
<1>3. ASSUME NEW n \in 1 .. N
      PROVE  f[n] = IF n \in I THEN h[Count(s, I, n)] ELSE <<>>
  <2> DEFINE d == document.sources[n]
             x == SettingsOf(d)
  <2>0. f[n] = IF n \in GoodAt("file") THEN <<m(d)>> ELSE <<>>
    OBVIOUS
  <2>1. CASE n \in I
    <3>1. /\ Count(s, I, n) \in 1 .. Len(sources) /\ sources[Count(s, I, n)] = x
          /\ Readable(d) /\ GoodSource(d) /\ x.type = d.type
      BY <2>1, TakenAs
    <3>2. h[Count(s, I, n)] = IF x.type = "file" THEN <<FileMonitorOf(x)>> ELSE <<>>
      <4> HIDE DEF x, d, f, h, s, I
      <4> QED BY <1>2, <3>1
    <3>3. d.type = "file" => FileMonitorOf(x) = m(d)
      BY <3>1, FileIsAsked
    <3>4. n \in GoodAt("file") <=> d.type = "file"
      BY <3>1 DEF GoodAt
    <3> HIDE DEF x, d, f, h, m
    <3> QED BY <2>0, <2>1, <3>1, <3>2, <3>3, <3>4
  <2>2. CASE n \notin I
    <3>1. n \notin GoodAt("file")
      BY <2>2 DEF GoodAt, Good
    <3> QED BY <2>0, <2>2, <3>1
  <2> QED BY <2>1, <2>2
<1>4. Joined(h, Len(sources)) = Joined(f, N)
  <2> DEFINE V == Range(s)
  <2>1. s \in Seq(V) /\ \A k \in 1 .. Count(s, I, Len(s)) : h[k] \in Seq(U)
    BY <1>1, <1>2
  <2>2. \A n \in 1 .. Len(s) : f[n] = IF n \in I THEN h[Count(s, I, n)] ELSE <<>>
    BY <1>1, <1>3
  <2> HIDE DEF f, s, I, h, N, U, V
  <2>3. Joined(h, Count(s, I, Len(s))) = Joined(f, Len(s))
    <3>1. \A k \in 1 .. Count(s, I, Len(s)) : h[k] \in Seq(U)
      BY <2>1
    <3>2. s \in Seq(V)
      BY <2>1
    <3> QED BY <2>2, <3>1, <3>2, JoinedThrough, SMTT(30)
  <2> QED BY <1>1, <2>3
<1>5. OfSources(GoodAt("file"),
        LAMBDA x : <<[kind |-> "file", source |-> FileAsked(x), format |-> FormatAsked(x)]>>) = Joined(f, N)
  BY DEF OfSources
<1> QED BY <1>4, <1>5

(***************************************************************************)
(* The monitors that are started are those that the document asks for.     *)
(***************************************************************************)
LEMMA AllSeen ==
  ASSUME CInv, main \in Starts \ {"start"}
  PROVE  Through = Len(sources) /\ main \in Starts /\ Taken /\ Len(sources) \in Nat
<1>1. Taken /\ next = Len(sources) + 1 /\ main \in Starts
  BY DEF CInv, Taken
<1>2. Len(sources) \in Nat
  BY <1>1, SourcesOK
<1>3. Through = Len(sources)
  BY <1>1, <1>2 DEF Through
<1> QED BY <1>1, <1>2, <1>3

LEMMA EventMonitorAsked ==
  ASSUME CInv, main \in Starts \ {"start"}
  PROVE  /\ channels = OfSources(GoodAt("eventlog"), ChannelsAsked)
         /\ channels # <<>> =>
              /\ eventSettings.oldest = (LastGood("eventlog").oldest = TRUE)
              /\ eventSettings.multiLine = (LastGood("eventlog").multiLine # FALSE)
              /\ GoodAt("eventlog") # {} /\ eventSettings.format = FormatAsked(LastGood("eventlog"))
              /\ eventSettings.format \in Seq(Characters)
<1>2. Through = Len(sources) /\ main \in Starts /\ Taken /\ Len(sources) \in Nat
  BY AllSeen
<1>3. channels = OfSources(GoodAt("eventlog"), ChannelsAsked)
  BY <1>2, ItemsAsked DEF CInv, Collected
<1> SUFFICES ASSUME channels # <<>>
             PROVE  /\ eventSettings.oldest = (LastGood("eventlog").oldest = TRUE)
                    /\ eventSettings.multiLine = (LastGood("eventlog").multiLine # FALSE)
                    /\ GoodAt("eventlog") # {} /\ eventSettings.format = FormatAsked(LastGood("eventlog"))
                    /\ eventSettings.format \in Seq(Characters)
  BY <1>3
<1> DEFINE K == OfKind(sources, Len(sources), "eventlog")
           s == LastGood("eventlog")
<1>4. /\ K = {} <=> GoodAt("eventlog") = {}
      /\ GoodAt("eventlog") # {} =>
           sources[Max(K)] = SettingsOf(s) /\ s.type = "eventlog" /\ Readable(s) /\ GoodSource(s)
  BY <1>2, LastOfKind
<1>5. GoodAt("eventlog") # {}
  <2> SUFFICES ASSUME GoodAt("eventlog") = {} PROVE channels = <<>>
    OBVIOUS
  <2>1. \A k \in 1 .. Len(sources) : ChannelItems(sources)[k] = <<>>
    BY <1>4 DEF OfKind, ChannelItems
  <2> QED BY <1>2, <2>1, JoinedOfNothing DEF CInv, Collected
<1>6. eventSettings = [multiLine |-> sources[Max(K)].multiLine, oldest |-> sources[Max(K)].oldest,
                       format |-> sources[Max(K)].format]
  BY <1>2, <1>4, <1>5 DEF CInv, LastKept
<1>7. sources[Max(K)] = SettingsOf(s) /\ s.type = "eventlog" /\ Readable(s) /\ GoodSource(s)
  BY <1>4, <1>5
<1> HIDE DEF K, s
<1>8. /\ SettingsOf(s) = EventSource(s)
      /\ SettingsOf(s).format = FormatAsked(s) /\ FormatAsked(s) \in Seq(Characters)
  BY <1>7, SettingsTyped
<1>9. EventSource(s).multiLine = (s.multiLine # FALSE) /\ EventSource(s).oldest = (s.oldest = TRUE)
  BY <1>7, SourceOfChannels
<1>10. /\ eventSettings.multiLine = (s.multiLine # FALSE) /\ eventSettings.oldest = (s.oldest = TRUE)
       /\ eventSettings.format = FormatAsked(s)
  BY <1>6, <1>7, <1>8, <1>9
<1> QED BY <1>5, <1>8, <1>10 DEF s

LEMMA EtwMonitorAsked ==
  ASSUME CInv, main \in Starts \ {"start"}
  PROVE  /\ providers = OfSources(GoodAt("etw"), ProvidersAsked)
         /\ providers # <<>> =>
              /\ GoodAt("etw") # {} /\ etwSettings.format = FormatAsked(LastGood("etw"))
              /\ etwSettings.format \in Seq(Characters)
<1>2. Through = Len(sources) /\ main \in Starts /\ Taken /\ Len(sources) \in Nat
  BY AllSeen
<1>3. providers = OfSources(GoodAt("etw"), ProvidersAsked)
  BY <1>2, ItemsAsked DEF CInv, Collected
<1> SUFFICES ASSUME providers # <<>>
             PROVE  /\ GoodAt("etw") # {} /\ etwSettings.format = FormatAsked(LastGood("etw"))
                    /\ etwSettings.format \in Seq(Characters)
  BY <1>3
<1> DEFINE K == OfKind(sources, Len(sources), "etw")
           s == LastGood("etw")
<1>4. /\ K = {} <=> GoodAt("etw") = {}
      /\ GoodAt("etw") # {} => sources[Max(K)] = SettingsOf(s) /\ Readable(s) /\ GoodSource(s)
  BY <1>2, LastOfKind
<1>5. GoodAt("etw") # {}
  <2> SUFFICES ASSUME GoodAt("etw") = {} PROVE providers = <<>>
    OBVIOUS
  <2>1. \A k \in 1 .. Len(sources) : ProviderItems(sources)[k] = <<>>
    BY <1>4 DEF OfKind, ProviderItems
  <2> QED BY <1>2, <2>1, JoinedOfNothing DEF CInv, Collected
<1>6. etwSettings = [multiLine |-> sources[Max(K)].multiLine, format |-> sources[Max(K)].format]
  BY <1>2, <1>4, <1>5 DEF CInv, LastKept
<1>7. sources[Max(K)] = SettingsOf(s) /\ Readable(s) /\ GoodSource(s)
  BY <1>4, <1>5
<1> HIDE DEF K, s
<1>8. SettingsOf(s).format = FormatAsked(s) /\ FormatAsked(s) \in Seq(Characters)
  BY <1>7, SettingsTyped
<1>9. etwSettings.format = FormatAsked(s)
  BY <1>6, <1>7, <1>8
<1> QED BY <1>5, <1>8, <1>9 DEF s

LEMMA ProcessFormatAsked ==
  ASSUME CInv, main = "started"
  PROVE  /\ processFormat = IF GoodAt("process") = {} THEN <<>> ELSE FormatAsked(LastGood("process"))
         /\ processFormat \in Seq(Characters)
<1>1. Through = Len(sources) /\ main \in Starts /\ Taken
  <2>1. main \in Starts \ {"start"}
    BY DEF Starts
  <2> QED BY <2>1, AllSeen
<1> DEFINE K == OfKind(sources, Len(sources), "process")
           s == LastGood("process")
<1>2. /\ K = {} <=> GoodAt("process") = {}
      /\ GoodAt("process") # {} => sources[Max(K)] = SettingsOf(s) /\ Readable(s) /\ GoodSource(s)
  BY <1>1, LastOfKind
<1>3. processFormat = IF K = {} THEN <<>> ELSE sources[Max(K)].format
  BY <1>1 DEF CInv, LastKept
<1>4. <<>> \in Seq(Characters)
  OBVIOUS
<1>5. ASSUME GoodAt("process") # {}
      PROVE  SettingsOf(s).format = FormatAsked(s) /\ FormatAsked(s) \in Seq(Characters)
  BY <1>2, <1>5, SettingsTyped
<1> HIDE DEF K, s
<1>6. CASE GoodAt("process") = {}
  BY <1>2, <1>3, <1>4, <1>6
<1>7. CASE GoodAt("process") # {}
  <2>1. processFormat = FormatAsked(s) /\ processFormat \in Seq(Characters)
    BY <1>2, <1>3, <1>5, <1>7
  <2> QED BY <1>7, <2>1 DEF s
<1> QED BY <1>6, <1>7

\* The monitors of each kind, in the order of their creation.
LEMMA FilesTyped ==
  ASSUME CInv, main \in Starts
  PROVE  /\ Files \in Seq(FileMonitorsOf(sources))
         /\ \A m \in FileMonitorsOf(sources) :
              m.kind = "file" /\ m.format = m.source.format /\ m.format \in Seq(Characters)
<1>1. Taken /\ next \in 1 .. Len(sources) + 1
  BY DEF CInv, Taken
<1>2. Len(sources) \in Nat /\ \A k \in 1 .. Len(sources) : SettingsOK(sources[k])
  BY <1>1, SourcesOK
<1>3. Through \in Nat /\ \A k \in 1 .. Through : k \in 1 .. Len(sources)
  BY <1>1, <1>2 DEF Through
<1>4. \A k \in 1 .. Through : FileItems(sources)[k] \in Seq(FileMonitorsOf(sources))
  BY <1>2, <1>3, FileItemsTyped
<1>5. Files \in Seq(FileMonitorsOf(sources))
  BY <1>3, <1>4, JoinedTyped DEF Files
<1>6. ASSUME NEW m \in FileMonitorsOf(sources)
      PROVE  m.kind = "file" /\ m.format = m.source.format /\ m.format \in Seq(Characters)
  <2>1. PICK k \in 1 .. Len(sources) : m = FileMonitorOf(sources[k])
    BY DEF FileMonitorsOf
  <2>2. sources[k].format \in Seq(Characters)
    BY <1>2 DEF SettingsOK
  <2> QED BY <2>1, <2>2 DEF FileMonitorOf
<1> QED BY <1>5, <1>6

LEMMA MonitorIs ==
  ASSUME CInv, NEW n \in 1 .. Len(monitors)
  PROVE  \/ /\ monitors[n].kind = "file" /\ monitors[n].format = monitors[n].source.format
            /\ monitors[n].format \in Seq(Characters)
         \/ main \in Starts \ {"start"} /\ channels # <<>> /\ monitors[n] = EventMonitorIs
         \/ main \in Starts \ {"start"} /\ providers # <<>> /\ monitors[n] = EtwMonitorIs
<1>1. main \in Starts
  <2>1. main \notin Starts => monitors = <<>>
    BY DEF CInv, Made
  <2> QED BY <2>1
<1> DEFINE U == FileMonitorsOf(sources)
<1>2. Files \in Seq(U)
  BY <1>1, FilesTyped
<1>3. \A m \in U : m.kind = "file" /\ m.format = m.source.format /\ m.format \in Seq(Characters)
  BY <1>1, FilesTyped
<1> DEFINE V == IF channels = <<>> THEN U ELSE U \cup {EventMonitorIs}
           W == IF providers = <<>> THEN V ELSE V \cup {EtwMonitorIs}
<1> HIDE DEF U
<1>4. WithEvents \in Seq(V)
  BY <1>2, AppendIs DEF WithEvents
<1> HIDE DEF V
<1>5. WithEtw \in Seq(W)
  BY <1>4, AppendIs DEF WithEtw
<1> HIDE DEF W
<1>6. ASSUME NEW T, monitors \in Seq(T) PROVE monitors[n] \in T
  BY <1>6
<1>7. CASE main = "start"
  <2>1. monitors = Files
    BY <1>7 DEF CInv, Made
  <2>2. monitors[n] \in U
    BY <1>2, <1>6, <2>1
  <2> QED BY <1>3, <2>2
<1>8. CASE main = "start etw"
  <2>1. monitors = WithEvents
    BY <1>8 DEF CInv, Made
  <2>2. monitors[n] \in V
    BY <1>4, <1>6, <2>1
  <2>3. monitors[n] \in U \/ (channels # <<>> /\ monitors[n] = EventMonitorIs)
    BY <2>2 DEF V
  <2>4. main \in Starts \ {"start"}
    BY <1>8 DEF Starts
  <2> QED BY <1>3, <2>3, <2>4
<1>9. CASE main = "started"
  <2>1. monitors = WithEtw
    BY <1>9 DEF CInv, Made
  <2>2. monitors[n] \in W
    BY <1>5, <1>6, <2>1
  <2>3. \/ monitors[n] \in U \/ (channels # <<>> /\ monitors[n] = EventMonitorIs)
        \/ (providers # <<>> /\ monitors[n] = EtwMonitorIs)
    BY <2>2 DEF V, W
  <2>4. main \in Starts \ {"start"}
    BY <1>9 DEF Starts
  <2> QED BY <1>3, <2>3, <2>4
<1> QED BY <1>1, <1>7, <1>8, <1>9 DEF Starts

LEMMA StartedFollows == CInv => StartedAsConfigured
<1> SUFFICES ASSUME CInv PROVE StartedAsConfigured
  OBVIOUS
<1>1. main \notin {"start", "start etw", "started"} => monitors = <<>>
  BY DEF CInv, Made, Starts
<1>2. main = "refused" =>
        document.shape # "whole" \/ \E n \in GoodAt("etw") : HasNoObject(document.sources[n])
  BY DEF CInv, Taken
<1>3. ASSUME main = "started" PROVE monitors = MonitorsAsked
  <2>1. main \in Starts \ {"start"}
    BY <1>3 DEF Starts
  <2>2. Through = Len(sources) /\ main \in Starts /\ Taken
    BY <2>1, AllSeen
  <2> DEFINE files == OfSources(GoodAt("file"),
                        LAMBDA s : <<[kind |-> "file", source |-> FileAsked(s), format |-> FormatAsked(s)]>>)
             watched == OfSources(GoodAt("eventlog"), ChannelsAsked)
             provided == OfSources(GoodAt("etw"), ProvidersAsked)
             event == [kind |-> "eventlog", channels |-> watched,
                       multiLine |-> LastGood("eventlog").multiLine # FALSE,
                       oldest |-> LastGood("eventlog").oldest = TRUE,
                       format |-> FormatAsked(LastGood("eventlog"))]
             etw == [kind |-> "etw", providers |-> provided, format |-> FormatAsked(LastGood("etw"))]
  <2>3. Files = files
    BY <2>2, FilesAsked DEF Files
  <2>4. channels = watched /\ (channels # <<>> => EventMonitorIs = event)
    BY <2>1, EventMonitorAsked DEF EventMonitorIs
  <2>5. providers = provided /\ (providers # <<>> => EtwMonitorIs = etw)
    BY <2>1, EtwMonitorAsked DEF EtwMonitorIs
  <2>6. MonitorsAsked = files \o (IF watched = <<>> THEN <<>> ELSE <<event>>)
                              \o (IF provided = <<>> THEN <<>> ELSE <<etw>>)
    BY DEF MonitorsAsked
  <2>7. monitors = WithEtw
    BY <1>3 DEF CInv, Made
  <2> HIDE DEF files, watched, provided, event, etw
  <2>8. PICK T : files \in Seq(T)
    <3>1. files \in Seq(FileMonitorsOf(sources))
      BY <2>2, <2>3, FilesTyped
    <3> QED BY <3>1
  <2>9. WithEvents = files \o (IF watched = <<>> THEN <<>> ELSE <<event>>)
    BY <2>3, <2>4, <2>8, AppendIs DEF WithEvents
  <2>10. \E V : WithEvents \in Seq(V)
    BY <2>3, <2>8, AppendIs DEF WithEvents
  <2>11. WithEtw = WithEvents \o (IF provided = <<>> THEN <<>> ELSE <<etw>>)
    BY <2>5, <2>10, AppendIs DEF WithEtw
  <2> QED BY <2>6, <2>7, <2>9, <2>11
<1> QED BY <1>1, <1>2, <1>3 DEF StartedAsConfigured

\* Configuration.tla: the monitors are those that the good sources ask for
\* (ReadConfigFile of JsonProcessor.cpp and StartMonitors of Main.cpp).
THEOREM ConfiguredCorrect == Spec => []StartedAsConfigured
BY CInvHolds, StartedFollows, PTL

(***************************************************************************)
(* The format of a source: what is cut off and replaced before it is       *)
(* filled.                                                                 *)
(***************************************************************************)
LEMMA ReplacedTyped ==
  ASSUME NEW s \in Seq(Characters), NEW c, NEW by \in Seq(Characters)
  PROVE  ReplaceEach(s, c, by) \in Seq(Characters)
<1> DEFINE f == [n \in 1 .. Len(s) |-> IF s[n] = c THEN by ELSE <<s[n]>>]
<1>1. Len(s) \in Nat /\ \A n \in 1 .. Len(s) : f[n] \in Seq(Characters)
  <2>1. \A n \in 1 .. Len(s) : s[n] \in Characters
    OBVIOUS
  <2>2. \A e \in Characters : <<e>> \in Seq(Characters)
    OBVIOUS
  <2> QED BY <2>1, <2>2
<1> HIDE DEF f
<1>2. Joined(f, Len(s)) \in Seq(Characters)
  BY <1>1, JoinedTyped
<1> QED BY <1>2 DEF ReplaceEach, f

LEMMA SanitizedTyped ==
  ASSUME NEW s \in Seq(Characters)
  PROVE  SanitizeJson(s) \in Seq(Characters) /\ Len(SanitizeJson(s)) = Len(s)
<1> DEFINE g == [n \in 1 .. Len(s) |-> IF s[n] = "quote" THEN "escaped" ELSE s[n]]
           f == [n \in 1 .. Len(s) |-> IF s[n] = "quote" THEN <<"escaped">> ELSE <<s[n]>>]
<1>1. Len(s) \in Nat /\ \A n \in 1 .. Len(s) : g[n] \in Characters /\ f[n] = <<g[n]>>
  <2>1. "escaped" \in Characters /\ \A n \in 1 .. Len(s) : s[n] \in Characters
    BY DEF Characters
  <2> QED BY <2>1
<1> HIDE DEF f, g
<1>2. Joined(f, Len(s)) \in Seq(Characters) /\ Len(Joined(f, Len(s))) = Len(s)
  BY <1>1, JoinedOnes
<1> QED BY <1>2 DEF SanitizeJson, ReplaceEach, f

LEMMA BarIs ==
  ASSUME NEW s \in Seq(Characters)
  PROVE  /\ HasBar(s) <=> Places(s, "|") # {}
         /\ HasBar(s) => /\ LastBar(s) \in 1 .. Len(s) /\ LastBar(s) = Max(Places(s, "|"))
<1> DEFINE P == Places(s, "|")
<1>1. Len(s) \in Nat /\ \A n : n \in P <=> n \in 1 .. Len(s) /\ s[n] = "|"
  BY DEF Places
<1>2. HasBar(s) <=> \E n \in 1 .. Len(s) : s[n] = "|"
  BY DEF HasBar, Contains
<1>3. HasBar(s) <=> P # {}
  <2> HIDE DEF P
  <2> QED BY <1>1, <1>2
<1>4. ASSUME P # {} PROVE LastBar(s) \in 1 .. Len(s) /\ LastBar(s) = Max(P)
  <2>1. Max(P) \in P /\ \A k \in P : k <= Max(P)
    <3>1. P \subseteq 0 .. Len(s)
      BY <1>1
    <3> HIDE DEF P
    <3> QED BY <1>1, <1>4, <3>1, MaxIs
  <2>2. Max(P) \in 1 .. Len(s) /\ s[Max(P)] = "|"
    <3> HIDE DEF P
    <3> QED BY <1>1, <2>1
  <2> DEFINE IsLast(n) == s[n] = "|" /\ \A k \in n + 1 .. Len(s) : s[k] # "|"
  <2>3. IsLast(Max(P))
    <3> SUFFICES ASSUME NEW k \in Max(P) + 1 .. Len(s), s[k] = "|" PROVE FALSE
      BY <2>2
    <3>1. k \in 1 .. Len(s) /\ ~(k <= Max(P))
      BY <1>1, <2>2
    <3>2. k \in P
      BY <1>1, <3>1
    <3> HIDE DEF P
    <3> QED BY <2>1, <3>1, <3>2
  <2>4. LastBar(s) = CHOOSE n \in 1 .. Len(s) : IsLast(n)
    BY DEF LastBar
  <2>5. LastBar(s) \in 1 .. Len(s) /\ IsLast(LastBar(s))
    <3> HIDE DEF IsLast, P
    <3> QED BY <2>2, <2>3, <2>4
  <2>6. LastBar(s) \in P
    BY <1>1, <2>5
  <2>7. LastBar(s) <= Max(P)
    <3> HIDE DEF P
    <3> QED BY <2>1, <2>6
  <2>8. ~(LastBar(s) < Max(P))
    <3> SUFFICES ASSUME LastBar(s) < Max(P) PROVE FALSE
      OBVIOUS
    <3>1. Max(P) \in LastBar(s) + 1 .. Len(s)
      BY <1>1, <2>2, <2>5
    <3> HIDE DEF P
    <3> QED BY <2>2, <2>5, <3>1
  <2>9. LastBar(s) = Max(P)
    <3> DEFINE x == LastBar(s)
               y == Max(P)
    <3>1. x \in 1 .. Len(s) /\ y \in 1 .. Len(s) /\ x <= y /\ ~(x < y)
      BY <2>2, <2>5, <2>7, <2>8
    <3> HIDE DEF x, y
    <3>2. x = y
      BY <1>1, <3>1
    <3> QED BY <3>2 DEF x, y
  <2> QED BY <2>5, <2>9
<1> QED BY <1>3, <1>4

LEMMA BodyIs ==
  ASSUME NEW s \in Seq(Characters)
  PROVE  /\ Shown(s) \in Seq(Characters) /\ Body(s) \in Seq(Characters)
         /\ Body(s) = IF IsCustomJsonFormat(s) THEN ReplaceEach(Shown(s), "'", <<"~", "quote">>) ELSE Shown(s)
<1>1. Shown(s) = IF HasBar(s) THEN SubSeq(s, 1, LastBar(s) - 1) ELSE s
  BY BarIs DEF Shown
<1>2. Shown(s) \in Seq(Characters)
  <2>1. CASE HasBar(s)
    <3> DEFINE n == LastBar(s) - 1
    <3>1. n \in 0 .. Len(s) /\ Len(s) \in Nat
      <4>1. LastBar(s) \in 1 .. Len(s) /\ Len(s) \in Nat
        BY <2>1, BarIs
      <4> QED BY <4>1
    <3> HIDE DEF n
    <3>2. SubSeq(s, 1, n) \in Seq(Characters)
      BY <3>1
    <3> QED BY <1>1, <2>1, <3>2 DEF n
  <2>2. CASE ~HasBar(s)
    BY <1>1, <2>2
  <2> QED BY <2>1, <2>2
<1>3. Body(s) = IF IsCustomJsonFormat(s) THEN ReplaceEach(Shown(s), "'", <<"~", "quote">>) ELSE Shown(s)
  BY <1>1 DEF Body
<1>4. ReplaceEach(Shown(s), "'", <<"~", "quote">>) \in Seq(Characters)
  <2>1. <<"~", "quote">> \in Seq(Characters)
    <3>1. "~" \in Characters /\ "quote" \in Characters
      BY DEF Characters
    <3>2. \A x, y \in Characters : <<x, y>> \in Seq(Characters)
      OBVIOUS
    <3> QED BY <3>1, <3>2
  <2> QED BY <1>2, <2>1, ReplacedTyped
<1> QED BY <1>2, <1>3, <1>4

LEMMA FieldTyped == \A x : FieldsMapping(x) \in Seq(Characters)
<1>1. <<>> \in Seq(Characters)
  OBVIOUS
<1> QED BY <1>1, LineFormatAssumption DEF FieldsMapping

(***************************************************************************)
(* The percent signs of a text, counted.                                   *)
(***************************************************************************)
Signs(s, n) == Cardinality(Earlier(s, n))

LEMMA SignsNext ==
  ASSUME NEW s \in Seq(Characters)
  PROVE  /\ Signs(s, 1) = 0
         /\ \A n \in 1 .. Len(s) + 1 : Signs(s, n) \in 0 .. n - 1 /\ IsFiniteSet(Earlier(s, n))
         /\ \A n \in 1 .. Len(s) :
              /\ s[n] = "%" => Earlier(s, n + 1) = Earlier(s, n) \cup {n} /\ Signs(s, n + 1) = Signs(s, n) + 1
              /\ s[n] # "%" => Earlier(s, n + 1) = Earlier(s, n) /\ Signs(s, n + 1) = Signs(s, n)
         /\ Earlier(s, Len(s) + 1) = Places(s, "%")
<1> DEFINE N == Len(s)
<1>0. N \in Nat /\ \A n, k : k \in Earlier(s, n) <=> k \in 1 .. N /\ s[k] = "%" /\ k < n
  BY DEF Earlier, Places
<1>1. Earlier(s, 1) = {}
  BY <1>0
<1>2. Signs(s, 1) = 0
  BY <1>1, FS_EmptySet DEF Signs
<1>3. ASSUME NEW n \in 1 .. N
      PROVE  /\ s[n] = "%" => Earlier(s, n + 1) = Earlier(s, n) \cup {n} /\ n \notin Earlier(s, n)
             /\ s[n] # "%" => Earlier(s, n + 1) = Earlier(s, n)
  <2>1. \A k \in 1 .. N : k < n + 1 <=> k < n \/ k = n
    BY <1>0
  <2>2. ~(n < n)
    OBVIOUS
  <2>3. \A k : k \in Earlier(s, n + 1) <=> k \in Earlier(s, n) \/ (k = n /\ s[n] = "%")
    BY <1>0, <2>1
  <2> QED BY <1>0, <2>2, <2>3
<1>4. ASSUME NEW n \in 1 .. N, IsFiniteSet(Earlier(s, n))
      PROVE  /\ IsFiniteSet(Earlier(s, n + 1))
             /\ s[n] = "%" => Signs(s, n + 1) = Signs(s, n) + 1
             /\ s[n] # "%" => Signs(s, n + 1) = Signs(s, n)
  <2> DEFINE E == Earlier(s, n)
  <2>1. Cardinality(E) \in Nat /\ IsFiniteSet(E)
    BY <1>4, FS_CardinalityType
  <2>2. IsFiniteSet(E \cup {n}) /\ (n \notin E => Cardinality(E \cup {n}) = Cardinality(E) + 1)
    <3> HIDE DEF E
    <3> QED BY <2>1, FS_AddElement
  <2> QED BY <1>3, <2>1, <2>2 DEF Signs
<1> DEFINE S == {n \in 0 .. N : IsFiniteSet(Earlier(s, n + 1)) /\ Signs(s, n + 1) \in 0 .. n}
<1>5. 0 \in S
  <2>1. IsFiniteSet(Earlier(s, 1)) /\ Signs(s, 1) = 0
    BY <1>1, <1>2, FS_EmptySet
  <2>2. 0 + 1 = 1 /\ 0 \in 0 .. N /\ 0 \in 0 .. 0
    BY <1>0
  <2> QED BY <2>1, <2>2
<1>6. ASSUME NEW n \in 0 .. N - 1, n \in S PROVE n + 1 \in S
  <2> DEFINE m == n + 1
  <2>1. m \in 1 .. N /\ m \in 0 .. N /\ n \in Nat /\ m \in Nat
    BY <1>0
  <2>2. IsFiniteSet(Earlier(s, m)) /\ Signs(s, m) \in 0 .. n
    BY <1>6
  <2>3. m = n + 1
    OBVIOUS
  <2> HIDE DEF m, S
  <2>4. /\ IsFiniteSet(Earlier(s, m + 1))
        /\ Signs(s, m + 1) = Signs(s, m) + 1 \/ Signs(s, m + 1) = Signs(s, m)
    BY <1>4, <2>1, <2>2
  <2>5. Signs(s, m + 1) \in 0 .. m
    BY <2>1, <2>2, <2>3, <2>4
  <2>6. m \in S
    BY <2>1, <2>4, <2>5 DEF S
  <2> QED BY <2>6 DEF m
<1> HIDE DEF S
<1>7. \A n \in 0 .. N : n \in S
  BY <1>0, <1>5, <1>6, UpTo
<1>8. ASSUME NEW n \in 1 .. N + 1 PROVE Signs(s, n) \in 0 .. n - 1 /\ IsFiniteSet(Earlier(s, n))
  <2> DEFINE m == n - 1
  <2>1. m \in 0 .. N /\ m + 1 = n
    BY <1>0
  <2> HIDE DEF m
  <2>2. IsFiniteSet(Earlier(s, m + 1)) /\ Signs(s, m + 1) \in 0 .. m
    BY <1>7, <2>1 DEF S
  <2>3. IsFiniteSet(Earlier(s, n)) /\ Signs(s, n) \in 0 .. m
    BY <2>1, <2>2
  <2> QED BY <2>3 DEF m
<1>9. Earlier(s, N + 1) = Places(s, "%")
  <2>1. \A k \in 1 .. N : k < N + 1
    BY <1>0
  <2> QED BY <2>1 DEF Earlier, Places
<1>10. \A n \in 1 .. N : n \in 1 .. N + 1
  BY <1>0
<1> QED BY <1>2, <1>3, <1>4, <1>8, <1>9, <1>10

(***************************************************************************)
(* Parts of sequences.                                                     *)
(***************************************************************************)
LEMMA SameSequence ==
  ASSUME NEW T, NEW a \in Seq(T), NEW b \in Seq(T), Len(a) = Len(b), \A k \in 1 .. Len(a) : a[k] = b[k]
  PROVE  a = b
OBVIOUS

LEMMA PartOf ==
  ASSUME NEW T, NEW s \in Seq(T), NEW m \in 1 .. Len(s) + 1, NEW n \in m - 1 .. Len(s)
  PROVE  /\ SubSeq(s, m, n) \in Seq(T) /\ Len(SubSeq(s, m, n)) = (n - m) + 1
         /\ \A k \in 1 .. (n - m) + 1 : SubSeq(s, m, n)[k] = s[(m + k) - 1]
OBVIOUS

LEMMA Behind ==
  ASSUME NEW T, NEW x \in Seq(T), NEW y \in Seq(T)
  PROVE  /\ x \o y \in Seq(T) /\ Len(x \o y) = Len(x) + Len(y)
         /\ \A k \in 1 .. Len(x) : (x \o y)[k] = x[k]
         /\ \A k \in 1 .. Len(y) : (x \o y)[Len(x) + k] = y[k]
OBVIOUS

(***************************************************************************)
(* A format that is filled up to its position c, with a window from p to q *)
(* over what is left of it.                                                *)
(***************************************************************************)
Pieces(s) == [n \in 1 .. Len(s) |-> Piece(s, n)]
Out(s, c) == Joined(Pieces(s), c)

Scanned(s, c, t, p, q) ==
  /\ c \in 0 .. Len(s) /\ Outside(s, c + 1)
  /\ t = Out(s, c) \o SubSeq(s, c + 1, Len(s)) /\ p = Len(Out(s, c)) + 1
  /\ q \in p + 1 .. Len(t) + 2 /\ (q <= Len(t) + 1 \/ q = p + 1)
  /\ q > p + 1 => s[c + 1] = "%"
  /\ \A k \in c + 2 .. (c + (q - p)) - 1 : s[k] # "%"

LEMMA PiecesTyped ==
  ASSUME NEW s \in Seq(Characters)
  PROVE  /\ \A n \in 1 .. Len(s) : Pieces(s)[n] = Piece(s, n) /\ Piece(s, n) \in Seq(Characters)
         /\ \A c \in 0 .. Len(s) : Out(s, c) \in Seq(Characters) /\ Len(Out(s, c)) \in Nat
         /\ \A n \in 1 .. Len(s) :
              /\ Outside(s, n) /\ s[n] # "%" => Piece(s, n) = <<s[n]>>
              /\ Outside(s, n) /\ s[n] = "%" => Piece(s, n) = <<>>
              /\ ~Outside(s, n) /\ s[n] # "%" => Piece(s, n) = <<>>
              /\ ~Outside(s, n) /\ s[n] = "%" =>
                   Piece(s, n) = FieldsMapping(SubSeq(s, Max(Earlier(s, n)) + 1, n - 1))
<1>1. \A n \in 1 .. Len(s) :
        /\ Outside(s, n) /\ s[n] # "%" => Piece(s, n) = <<s[n]>>
        /\ Outside(s, n) /\ s[n] = "%" => Piece(s, n) = <<>>
        /\ ~Outside(s, n) /\ s[n] # "%" => Piece(s, n) = <<>>
        /\ ~Outside(s, n) /\ s[n] = "%" =>
             Piece(s, n) = FieldsMapping(SubSeq(s, Max(Earlier(s, n)) + 1, n - 1))
  BY DEF Piece
<1>2. \A n \in 1 .. Len(s) : Pieces(s)[n] = Piece(s, n) /\ Piece(s, n) \in Seq(Characters)
  <2>1. \A n \in 1 .. Len(s) : <<s[n]>> \in Seq(Characters)
    OBVIOUS
  <2>2. <<>> \in Seq(Characters)
    OBVIOUS
  <2>3. \A n \in 1 .. Len(s) : Pieces(s)[n] = Piece(s, n)
    BY DEF Pieces
  <2> QED BY <1>1, <2>1, <2>2, <2>3, FieldTyped
<1>3. ASSUME NEW c \in 0 .. Len(s) PROVE Out(s, c) \in Seq(Characters) /\ Len(Out(s, c)) \in Nat
  <2>1. c \in Nat /\ \A n \in 1 .. c : n \in 1 .. Len(s)
    OBVIOUS
  <2>2. \A n \in 1 .. c : Pieces(s)[n] \in Seq(Characters)
    BY <1>2, <2>1
  <2>3. Out(s, c) \in Seq(Characters)
    BY <2>1, <2>2, JoinedTyped DEF Out
  <2> QED BY <2>3
<1> QED BY <1>1, <1>2, <1>3

LEMMA OutNext ==
  ASSUME NEW s \in Seq(Characters), NEW c \in 0 .. Len(s) - 1
  PROVE  Out(s, c + 1) = Out(s, c) \o Piece(s, c + 1)
<1>1. c \in Nat /\ c + 1 \in 1 .. Len(s)
  OBVIOUS
<1>2. Pieces(s)[c + 1] = Piece(s, c + 1) /\ Piece(s, c + 1) \in Seq(Characters)
  BY <1>1, PiecesTyped
<1> QED BY <1>1, <1>2, JoinedNext DEF Out

LEMMA TextIs ==
  ASSUME NEW s \in Seq(Characters), NEW c, NEW t, NEW p, NEW q, Scanned(s, c, t, p, q)
  PROVE  /\ c \in 0 .. Len(s) /\ Len(s) \in Nat /\ p \in Nat \ {0} /\ q \in Nat
         /\ t \in Seq(Characters) /\ Len(t) = (p - 1) + (Len(s) - c) /\ p - 1 = Len(Out(s, c))
         /\ \A k \in 1 .. p - 1 : t[k] = Out(s, c)[k]
         /\ \A k \in 1 .. Len(s) - c : t[(p - 1) + k] = s[c + k]
<1> DEFINE x == Out(s, c)
           y == SubSeq(s, c + 1, Len(s))
<1>1. c \in 0 .. Len(s) /\ t = x \o y /\ p = Len(x) + 1 /\ q \in p + 1 .. Len(t) + 2 /\ Len(s) \in Nat
  BY DEF Scanned
<1>2. x \in Seq(Characters) /\ Len(x) \in Nat
  BY <1>1, PiecesTyped
<1>3. /\ y \in Seq(Characters) /\ Len(y) = Len(s) - c
      /\ \A k \in 1 .. Len(s) - c : y[k] = s[c + k]
  <2> DEFINE m == c + 1
             n == Len(s)
  <2>1. m \in 1 .. Len(s) + 1 /\ n \in m - 1 .. Len(s) /\ (n - m) + 1 = Len(s) - c
        /\ \A k \in 1 .. Len(s) - c : (m + k) - 1 = c + k
    BY <1>1
  <2> HIDE DEF m, n
  <2>2. /\ SubSeq(s, m, n) \in Seq(Characters) /\ Len(SubSeq(s, m, n)) = (n - m) + 1
        /\ \A k \in 1 .. (n - m) + 1 : SubSeq(s, m, n)[k] = s[(m + k) - 1]
    BY <2>1, PartOf
  <2>3. /\ SubSeq(s, m, n) \in Seq(Characters) /\ Len(SubSeq(s, m, n)) = Len(s) - c
        /\ \A k \in 1 .. Len(s) - c : SubSeq(s, m, n)[k] = s[c + k]
    BY <2>1, <2>2
  <2> QED BY <2>3 DEF m, n
<1> HIDE DEF x, y
<1>4. /\ t \in Seq(Characters) /\ Len(t) = Len(x) + Len(y)
      /\ \A k \in 1 .. Len(x) : t[k] = x[k]
      /\ \A k \in 1 .. Len(y) : t[Len(x) + k] = y[k]
  BY <1>1, <1>2, <1>3, Behind
<1>5. p - 1 = Len(x) /\ p \in Nat \ {0} /\ q \in Nat /\ Len(t) = (p - 1) + (Len(s) - c)
  BY <1>1, <1>2, <1>3, <1>4
<1>6. \A k \in 1 .. p - 1 : t[k] = x[k]
  BY <1>4, <1>5
<1>7. \A k \in 1 .. Len(s) - c : t[(p - 1) + k] = s[c + k]
  BY <1>3, <1>4, <1>5
<1> QED BY <1>1, <1>4, <1>5, <1>6, <1>7 DEF x

\* What the window shows, while it is not at the end of the text.
SeenIn(s, c, t, p, q) ==
  /\ t[p] = s[c + 1]
  /\ Len(SubSeq(t, p, q - 1)) = q - p /\ Last(SubSeq(t, p, q - 1)) = s[c + (q - p)]
  /\ q - p > 1 =>
       SubSeq(SubSeq(t, p, q - 1), 2, (q - p) - 1) = SubSeq(s, c + 2, (c + (q - p)) - 1)

LEMMA WindowIs ==
  ASSUME NEW s \in Seq(Characters), NEW c, NEW t, NEW p, NEW q, Scanned(s, c, t, p, q), p <= Len(t)
  PROVE  /\ c + 1 \in 1 .. Len(s) /\ q <= Len(t) + 1 /\ c + (q - p) \in c + 1 .. Len(s)
         /\ SeenIn(s, c, t, p, q)
<1> DEFINE N == Len(s)
           w == q - p
           u == SubSeq(t, p, q - 1)
<1>1. /\ c \in 0 .. N /\ N \in Nat /\ p \in Nat \ {0} /\ q \in Nat /\ t \in Seq(Characters)
      /\ Len(t) = (p - 1) + (N - c) /\ \A k \in 1 .. N - c : t[(p - 1) + k] = s[c + k]
  BY TextIs
<1>2. q \in p + 1 .. Len(t) + 2 /\ (q <= Len(t) + 1 \/ q = p + 1)
  BY DEF Scanned
<1>3. /\ c + 1 \in 1 .. N /\ q <= Len(t) + 1 /\ w \in 1 .. N - c /\ c + w \in c + 1 .. N
      /\ p \in 1 .. Len(t) + 1 /\ q - 1 \in p - 1 .. Len(t) /\ ((q - 1) - p) + 1 = w
      /\ 1 \in 1 .. N - c /\ (p - 1) + 1 = p
  <2> DEFINE L == Len(t)
  <2>1. L = (p - 1) + (N - c) /\ q \in p + 1 .. L + 2 /\ (q <= L + 1 \/ q = p + 1) /\ p <= L
    BY <1>1, <1>2
  <2> HIDE DEF L, N
  <2>2. /\ c + 1 \in 1 .. N /\ q <= L + 1 /\ w \in 1 .. N - c /\ c + w \in c + 1 .. N
        /\ p \in 1 .. L + 1 /\ q - 1 \in p - 1 .. L /\ ((q - 1) - p) + 1 = w
        /\ 1 \in 1 .. N - c /\ (p - 1) + 1 = p
    BY <1>1, <2>1
  <2> QED BY <2>2 DEF L, N
<1>4. t[p] = s[c + 1]
  BY <1>1, <1>3
<1>5. /\ u \in Seq(Characters) /\ Len(u) = w
      /\ \A k \in 1 .. w : u[k] = s[c + k]
  <2> DEFINE r == q - 1
  <2>1. r \in p - 1 .. Len(t) /\ (r - p) + 1 = w
    BY <1>3
  <2> HIDE DEF r, w, N
  <2>2. /\ SubSeq(t, p, r) \in Seq(Characters) /\ Len(SubSeq(t, p, r)) = (r - p) + 1
        /\ \A k \in 1 .. (r - p) + 1 : SubSeq(t, p, r)[k] = t[(p + k) - 1]
    BY <1>1, <1>3, <2>1, PartOf
  <2>3. \A k \in 1 .. w : k \in 1 .. N - c /\ (p + k) - 1 = (p - 1) + k
    BY <1>1, <1>3
  <2>4. \A k \in 1 .. w : SubSeq(t, p, r)[k] = s[c + k]
    BY <1>1, <2>1, <2>2, <2>3
  <2> QED BY <2>1, <2>2, <2>4 DEF r
<1>6. Last(u) = s[c + w]
  <2>1. w \in 1 .. w
    BY <1>3
  <2> HIDE DEF u, w
  <2> QED BY <1>5, <2>1 DEF Last
<1>7. ASSUME w > 1 PROVE SubSeq(u, 2, w - 1) = SubSeq(s, c + 2, (c + w) - 1)
  <2> DEFINE m == w - 1
             n == (c + w) - 1
             l == c + 2
             a == SubSeq(u, 2, m)
             b == SubSeq(s, l, n)
  <2>1. /\ 2 \in 1 .. Len(u) + 1 /\ m \in 2 - 1 .. Len(u) /\ l \in 1 .. N + 1 /\ n \in l - 1 .. N
        /\ (m - 2) + 1 = (n - l) + 1 /\ (m - 2) + 1 \in Nat
        /\ \A k \in 1 .. (m - 2) + 1 : (2 + k) - 1 \in 1 .. w /\ c + ((2 + k) - 1) = (l + k) - 1
    <3>1. Len(u) = w
      BY <1>5
    <3> HIDE DEF u, N
    <3>2. /\ 2 \in 1 .. w + 1 /\ m \in 2 - 1 .. w /\ l \in 1 .. N + 1 /\ n \in l - 1 .. N
          /\ (m - 2) + 1 = (n - l) + 1 /\ (m - 2) + 1 \in Nat
      BY <1>1, <1>3, <1>7
    <3>3. \A k \in 1 .. (m - 2) + 1 : (2 + k) - 1 \in 1 .. w /\ c + ((2 + k) - 1) = (l + k) - 1
      BY <1>1, <1>3, <1>7
    <3> QED BY <3>1, <3>2, <3>3
  <2> HIDE DEF m, n, l, u, w
  <2>2. /\ a \in Seq(Characters) /\ Len(a) = (m - 2) + 1
        /\ \A k \in 1 .. (m - 2) + 1 : a[k] = u[(2 + k) - 1]
    BY <1>5, <2>1, PartOf
  <2>3. /\ b \in Seq(Characters) /\ Len(b) = (n - l) + 1
        /\ \A k \in 1 .. (n - l) + 1 : b[k] = s[(l + k) - 1]
    BY <2>1, PartOf
  <2> HIDE DEF a, b
  <2>4. \A k \in 1 .. (m - 2) + 1 : a[k] = b[k]
    <3> TAKE k \in 1 .. (m - 2) + 1
    <3>1. a[k] = u[(2 + k) - 1] /\ b[k] = s[(l + k) - 1]
      BY <2>1, <2>2, <2>3
    <3> DEFINE x == (2 + k) - 1
    <3>2. x \in 1 .. w /\ c + x = (l + k) - 1
      BY <2>1
    <3> HIDE DEF x
    <3>3. u[x] = s[c + x]
      BY <1>5, <3>2
    <3> QED BY <3>1, <3>2, <3>3 DEF x
  <2>5. a = b
    BY <2>1, <2>2, <2>3, <2>4, SameSequence
  <2> QED BY <2>5 DEF a, b, m, n, l
<1>8. SeenIn(s, c, t, p, q)
  BY <1>4, <1>5, <1>6, <1>7 DEF SeenIn
<1> QED BY <1>3, <1>8

(***************************************************************************)
(* The loop of FormatEventLineLog, turn by turn.                           *)
(***************************************************************************)
LEMMA ScanStarts ==
  ASSUME NEW s \in Seq(Characters)
  PROVE  Scanned(s, 0, s, 1, 2)
<1>1. Out(s, 0) = <<>> /\ Len(<<>>) = 0 /\ Len(s) \in Nat
  BY JoinedNone DEF Out
<1>2. Outside(s, 1)
  <2>1. Signs(s, 1) = 2 * 0 /\ 0 \in 0 .. Len(s)
    BY <1>1, SignsNext
  <2> QED BY <2>1 DEF Outside, Signs
<1>3. s = <<>> \o SubSeq(s, 1, Len(s))
  <2>1. SubSeq(s, 1, Len(s)) = s
    OBVIOUS
  <2>2. <<>> \o s = s
    OBVIOUS
  <2> QED BY <2>1, <2>2
<1>4. 0 \in 0 .. Len(s) /\ 0 + 1 = 1
  BY <1>1
<1>5. 1 = Len(Out(s, 0)) + 1
  BY <1>1
<1>6. 2 \in 1 + 1 .. Len(s) + 2 /\ 2 = 1 + 1 /\ ~(2 > 1 + 1)
  BY <1>1
<1>7. \A k \in 0 + 2 .. (0 + (2 - 1)) - 1 : s[k] # "%"
  OBVIOUS
<1> QED BY <1>1, <1>2, <1>3, <1>4, <1>5, <1>6, <1>7 DEF Scanned

\* A number of signs is even or odd.
LEMMA OutsideNext ==
  ASSUME NEW s \in Seq(Characters), NEW n \in 1 .. Len(s)
  PROVE  /\ s[n] # "%" => (Outside(s, n + 1) <=> Outside(s, n))
         /\ s[n] = "%" => (Outside(s, n + 1) <=> ~Outside(s, n))
<1> DEFINE N == Len(s)
           x == Signs(s, n)
           y == Signs(s, n + 1)
<1>1. N \in Nat /\ n + 1 \in 1 .. N + 1 /\ n \in 1 .. N + 1
  OBVIOUS
<1>2. /\ x \in 0 .. n - 1 /\ y \in 0 .. (n + 1) - 1
      /\ s[n] = "%" => y = x + 1
      /\ s[n] # "%" => y = x
  BY <1>1, SignsNext
<1>3. x \in 0 .. N /\ y \in 0 .. N
  BY <1>1, <1>2
<1>4. /\ Outside(s, n) <=> \E k \in 0 .. N : x = 2 * k
      /\ Outside(s, n + 1) <=> \E k \in 0 .. N : y = 2 * k
  BY DEF Outside, Signs
<1> HIDE DEF x, y, N
<1>5. CASE s[n] # "%"
  BY <1>2, <1>4, <1>5
<1>6. CASE s[n] = "%"
  <2>1. y = x + 1
    BY <1>2, <1>6
  <2>2. x = 2 * (x \div 2) + (x % 2) /\ x \div 2 \in Int /\ x % 2 \in {0, 1}
    BY <1>3
  <2>3. CASE x % 2 = 0
    <3>1. x \div 2 \in 0 .. N /\ x = 2 * (x \div 2)
      BY <1>1, <1>3, <2>2, <2>3
    <3>2. ~\E k \in 0 .. N : y = 2 * k
      BY <1>1, <2>1, <3>1
    <3> QED BY <1>4, <1>6, <3>1, <3>2
  <2>4. CASE x % 2 = 1
    <3> DEFINE h == (x \div 2) + 1
    <3>1. h \in 0 .. N /\ y = 2 * h
      BY <1>1, <1>3, <2>1, <2>2, <2>4
    <3>2. ~\E k \in 0 .. N : x = 2 * k
      BY <1>1, <2>2, <2>4
    <3> HIDE DEF h
    <3> QED BY <1>4, <1>6, <3>1, <3>2
  <2> QED BY <2>2, <2>3, <2>4
<1> QED BY <1>5, <1>6

\* The tail of a text, one character less.
LEMMA TailOf ==
  ASSUME NEW T, NEW s \in Seq(T), NEW c \in 0 .. Len(s) - 1
  PROVE  /\ SubSeq(s, c + 1, Len(s)) = <<s[c + 1]>> \o SubSeq(s, c + 2, Len(s))
         /\ <<s[c + 1]>> \in Seq(T) /\ SubSeq(s, c + 2, Len(s)) \in Seq(T)
<1> DEFINE N == Len(s)
           l == c + 1
           m == c + 2
           a == SubSeq(s, l, N)
           b == SubSeq(s, m, N)
           o == <<s[l]>>
<1>1. /\ N \in Nat /\ l \in 1 .. N + 1 /\ m \in 1 .. N + 1 /\ N \in l - 1 .. N /\ N \in m - 1 .. N
      /\ l \in 1 .. N /\ (N - l) + 1 = 1 + ((N - m) + 1) /\ (N - m) + 1 \in Nat
      /\ \A k \in 1 .. (N - m) + 1 : (l + (1 + k)) - 1 = (m + k) - 1 /\ 1 + k \in 1 .. (N - l) + 1
      /\ (l + 1) - 1 = l /\ 1 \in 1 .. (N - l) + 1
      /\ \A k \in 1 .. (N - l) + 1 : k = 1 \/ (k - 1 \in 1 .. (N - m) + 1 /\ 1 + (k - 1) = k)
  OBVIOUS
<1>2. s[l] \in T
  BY <1>1
<1> HIDE DEF l, m, N
<1>3. /\ a \in Seq(T) /\ Len(a) = (N - l) + 1
      /\ \A k \in 1 .. (N - l) + 1 : a[k] = s[(l + k) - 1]
  BY <1>1, PartOf DEF N
<1>4. /\ b \in Seq(T) /\ Len(b) = (N - m) + 1
      /\ \A k \in 1 .. (N - m) + 1 : b[k] = s[(m + k) - 1]
  BY <1>1, PartOf DEF N
<1>5. o \in Seq(T) /\ Len(o) = 1 /\ o[1] = s[l]
  BY <1>2
<1> HIDE DEF a, b, o
<1>6. /\ o \o b \in Seq(T) /\ Len(o \o b) = 1 + Len(b)
      /\ (o \o b)[1] = s[l] /\ \A k \in 1 .. Len(b) : (o \o b)[1 + k] = b[k]
  <2>1. /\ o \o b \in Seq(T) /\ Len(o \o b) = Len(o) + Len(b)
        /\ \A k \in 1 .. Len(o) : (o \o b)[k] = o[k]
        /\ \A k \in 1 .. Len(b) : (o \o b)[Len(o) + k] = b[k]
    <3>1. o \in Seq(T) /\ b \in Seq(T)
      BY <1>4, <1>5
    <3> QED BY <3>1, Behind
  <2>2. 1 \in 1 .. 1
    OBVIOUS
  <2> QED BY <1>5, <2>1, <2>2
<1>7. \A k \in 1 .. (N - l) + 1 : a[k] = (o \o b)[k]
  <2> TAKE k \in 1 .. (N - l) + 1
  <2>1. CASE k = 1
    <3>1. a[1] = s[l]
      BY <1>1, <1>3
    <3> QED BY <1>6, <2>1, <3>1
  <2>2. CASE k # 1
    <3> DEFINE r == k - 1
    <3>1. r \in 1 .. (N - m) + 1 /\ 1 + r = k
      BY <1>1, <2>2
    <3> HIDE DEF r
    <3>2. (o \o b)[k] = b[r] /\ b[r] = s[(m + r) - 1]
      BY <1>4, <1>6, <3>1
    <3>3. (l + k) - 1 = (m + r) - 1
      BY <1>1, <3>1
    <3> QED BY <1>3, <3>2, <3>3
  <2> QED BY <2>1, <2>2
<1>8. a = o \o b
  BY <1>1, <1>3, <1>4, <1>6, <1>7, SameSequence
<1> QED BY <1>4, <1>5, <1>8 DEF a, b, o, l, m, N

LEMMA Associated ==
  ASSUME NEW T, NEW x \in Seq(T), NEW y \in Seq(T), NEW z \in Seq(T)
  PROVE  (x \o y) \o z = x \o (y \o z)
OBVIOUS

LEMMA ScanMovesOn ==
  ASSUME NEW s \in Seq(Characters), NEW c, NEW t, NEW p, NEW q, Scanned(s, c, t, p, q), p <= Len(t),
         s[c + 1] # "%"
  PROVE  q = p + 1 /\ Scanned(s, c + 1, t, p + 1, q + 1)
<1> DEFINE N == Len(s)
           d == c + 1
           e == s[d]
           rest == SubSeq(s, c + 2, N)
<1>1. /\ c \in 0 .. N /\ N \in Nat /\ p \in Nat \ {0} /\ q \in Nat /\ Len(t) = (p - 1) + (N - c)
      /\ p - 1 = Len(Out(s, c))
  BY TextIs
<1>2. d \in 1 .. N /\ c \in 0 .. N - 1 /\ d \in 0 .. N
  <2>1. c + 1 \in 1 .. N
    BY WindowIs
  <2> QED BY <1>1, <2>1
<1>3. q = p + 1
  BY <1>1 DEF Scanned
<1>4. Outside(s, d) /\ t = Out(s, c) \o SubSeq(s, c + 1, N)
  BY DEF Scanned
<1>5. Outside(s, d + 1)
  BY <1>2, <1>4, OutsideNext
<1>6. Out(s, d) = Out(s, c) \o <<e>> /\ Out(s, c) \in Seq(Characters) /\ Out(s, d) \in Seq(Characters)
  <2>1. Out(s, c + 1) = Out(s, c) \o Piece(s, c + 1)
    BY <1>2, OutNext
  <2>2. Piece(s, d) = <<e>>
    BY <1>2, <1>4, PiecesTyped
  <2> QED BY <1>1, <1>2, <2>1, <2>2, PiecesTyped
<1>7. SubSeq(s, c + 1, N) = <<e>> \o rest /\ <<e>> \in Seq(Characters) /\ rest \in Seq(Characters)
  BY <1>2, TailOf
<1> HIDE DEF rest, e
<1>8. t = Out(s, d) \o rest
  <2> DEFINE x == Out(s, c)
             y == <<e>>
  <2>1. x \in Seq(Characters) /\ y \in Seq(Characters) /\ rest \in Seq(Characters)
    BY <1>6, <1>7
  <2>2. t = x \o (y \o rest) /\ Out(s, d) = x \o y
    BY <1>4, <1>6, <1>7
  <2> HIDE DEF x, y, d
  <2>3. (x \o y) \o rest = x \o (y \o rest)
    BY <2>1, Associated
  <2> QED BY <2>2, <2>3
<1>9. Len(Out(s, d)) = Len(Out(s, c)) + 1
  <2>1. Len(<<e>>) = 1
    OBVIOUS
  <2>2. Len(Out(s, c) \o <<e>>) = Len(Out(s, c)) + Len(<<e>>)
    BY <1>6, <1>7, Behind
  <2> QED BY <1>6, <2>1, <2>2
<1>10. p + 1 = Len(Out(s, d)) + 1
  BY <1>1, <1>9
<1>11. /\ q + 1 \in (p + 1) + 1 .. Len(t) + 2 /\ q + 1 = (p + 1) + 1 /\ ~(q + 1 > (p + 1) + 1)
  BY <1>1, <1>2, <1>3
<1>12. d + 2 .. (d + ((q + 1) - (p + 1))) - 1 = {}
  BY <1>1, <1>2, <1>3
<1>13. rest = SubSeq(s, d + 1, N)
  BY <1>1 DEF rest
<1> HIDE DEF d
<1>14. Scanned(s, d, t, p + 1, q + 1)
  BY <1>2, <1>5, <1>8, <1>10, <1>11, <1>12, <1>13 DEF Scanned
<1> QED BY <1>3, <1>14 DEF d

LEMMA ScanWidens ==
  ASSUME NEW s \in Seq(Characters), NEW c, NEW t, NEW p, NEW q, Scanned(s, c, t, p, q), p <= Len(t),
         s[c + 1] = "%", q - p = 1 \/ s[c + (q - p)] # "%"
  PROVE  Scanned(s, c, t, p, IF q <= Len(t) THEN q + 1 ELSE q)
<1>1. /\ c \in 0 .. Len(s) /\ Len(s) \in Nat /\ p \in Nat \ {0} /\ q \in Nat
      /\ Len(t) = (p - 1) + (Len(s) - c)
  BY TextIs
<1>2. CASE ~(q <= Len(t))
  BY <1>2
<1>3. CASE q <= Len(t)
  <2> DEFINE r == q + 1
             L == Len(t)
  <2>1. q \in p + 1 .. L + 2 /\ (q <= L + 1 \/ q = p + 1) /\ L \in Nat
        /\ \A k \in c + 2 .. (c + (q - p)) - 1 : s[k] # "%"
    BY <1>1 DEF Scanned
  <2>2. r \in p + 1 .. L + 2 /\ r <= L + 1
    BY <1>1, <1>3, <2>1
  <2>3. \A k \in c + 2 .. (c + (r - p)) - 1 : s[k] # "%"
    <3> TAKE k \in c + 2 .. (c + (r - p)) - 1
    <3>1. k \in c + 2 .. (c + (q - p)) - 1 \/ (k = c + (q - p) /\ q - p # 1)
      BY <1>1, <2>1
    <3> QED BY <2>1, <3>1
  <2>4. Scanned(s, c, t, p, r)
    <3> HIDE DEF r, L
    <3>1. r \in p + 1 .. Len(t) + 2 /\ r <= Len(t) + 1
      BY <2>2 DEF L
    <3> QED BY <2>3, <3>1 DEF Scanned
  <2> QED BY <1>3, <2>4
<1> QED BY <1>2, <1>3

\* Between the first percent sign of a pair and the second one, no piece is shown.
LEMMA InPair ==
  ASSUME NEW s \in Seq(Characters), NEW c, NEW d, c \in 0 .. Len(s), d \in c + 2 .. Len(s),
         Outside(s, c + 1), s[c + 1] = "%", \A k \in c + 2 .. d - 1 : s[k] # "%"
  PROVE  /\ \A n \in c + 2 .. d : ~Outside(s, n) /\ Max(Earlier(s, n)) = c + 1
         /\ Out(s, d - 1) = Out(s, c)
<1> DEFINE N == Len(s)
           e == c + 1
<1>0. /\ N \in Nat /\ c \in Nat /\ d \in Nat /\ e \in 1 .. N /\ c \in 0 .. N - 1 /\ e + 1 = c + 2
      /\ c + 2 \in 1 .. N
  OBVIOUS
<1>1. ~Outside(s, c + 2) /\ Earlier(s, c + 2) = Earlier(s, e) \cup {e}
  <2>1. s[e] = "%" /\ Outside(s, e)
    OBVIOUS
  <2>2. ~Outside(s, e + 1) /\ Earlier(s, e + 1) = Earlier(s, e) \cup {e}
    <3> HIDE DEF e
    <3> QED BY <1>0, <2>1, OutsideNext, SignsNext
  <2> QED BY <1>0, <2>2
<1>2. \A n, k : k \in Earlier(s, n) <=> k \in 1 .. N /\ s[k] = "%" /\ k < n
  BY DEF Earlier, Places
<1>3. ASSUME NEW n \in c + 2 .. d PROVE ~Outside(s, n) /\ Max(Earlier(s, n)) = e
  <2> DEFINE E == Earlier(s, n)
  <2>1. \A k \in 1 .. N : s[k] = "%" /\ k < n <=> s[k] = "%" /\ k < c + 2
    <3> SUFFICES ASSUME NEW k \in 1 .. N, s[k] = "%", k < n PROVE k < c + 2
      BY <1>0
    <3>1. k \notin c + 2 .. d - 1
      OBVIOUS
    <3> QED BY <1>0, <3>1
  <2>2. E = Earlier(s, c + 2)
    <3>1. \A k : k \in E <=> k \in Earlier(s, c + 2)
      BY <1>2, <2>1
    <3> HIDE DEF E
    <3> QED BY <3>1
  <2>3. ~Outside(s, n)
    BY <1>1, <2>2 DEF Outside
  <2>4. e \in E /\ E \subseteq 0 .. N
    <3>1. e \in E
      BY <1>1, <2>2
    <3>2. \A k \in E : k \in 0 .. N
      BY <1>0, <1>2
    <3> QED BY <3>1, <3>2
  <2>5. Max(E) \in E /\ \A k \in E : k <= Max(E)
    <3> HIDE DEF E
    <3> QED BY <1>0, <2>4, MaxIs
  <2>6. \A k \in E : k \in 1 .. N /\ k < c + 2
    BY <1>2, <2>1
  <2> HIDE DEF E
  <2>7. Max(E) \in 1 .. N /\ Max(E) < c + 2 /\ e <= Max(E)
    BY <2>4, <2>5, <2>6
  <2>8. Max(E) = e
    <3> DEFINE x == Max(E)
    <3>1. x \in 1 .. N /\ x < c + 2 /\ e <= x
      BY <2>7
    <3> HIDE DEF x
    <3>2. x = e
      BY <1>0, <3>1
    <3> QED BY <3>2 DEF x
  <2> QED BY <2>3, <2>8 DEF E
<1>4. Out(s, c) \in Seq(Characters)
  BY PiecesTyped
<1>5. \A k \in c .. d - 2 : Out(s, k + 1) = Out(s, k) \o <<>>
  <2> TAKE k \in c .. d - 2
  <2>1. k \in 0 .. N - 1 /\ k + 1 \in 1 .. N /\ (k = c \/ (k + 1 \in c + 2 .. d /\ k + 1 \in c + 2 .. d - 1))
    BY <1>0
  <2>2. Piece(s, k + 1) = <<>>
    <3>1. CASE k = c
      BY <2>1, <3>1, PiecesTyped
    <3>2. CASE k + 1 \in c + 2 .. d /\ k + 1 \in c + 2 .. d - 1
      BY <1>3, <2>1, <3>2, PiecesTyped
    <3> QED BY <2>1, <3>1, <3>2
  <2> QED BY <2>1, <2>2, OutNext
<1> DEFINE M == (d - 2) - c
           S == {m \in 0 .. M + 1 : Out(s, c + m) = Out(s, c)}
<1>6. 0 \in S
  <2>1. c + 0 = c /\ 0 \in 0 .. M + 1
    BY <1>0
  <2> QED BY <2>1
<1>7. ASSUME NEW m \in 0 .. (M + 1) - 1, m \in S PROVE m + 1 \in S
  <2> DEFINE k == c + m
  <2>1. k \in c .. d - 2 /\ c + (m + 1) = k + 1 /\ m + 1 \in 0 .. M + 1
    BY <1>0
  <2>2. Out(s, k) = Out(s, c)
    BY <1>7
  <2> HIDE DEF k
  <2>3. Out(s, k + 1) = Out(s, c) \o <<>>
    BY <1>5, <2>1, <2>2
  <2>4. Out(s, c) \o <<>> = Out(s, c)
    BY <1>4
  <2> QED BY <2>1, <2>3, <2>4
<1>8. M + 1 \in Nat /\ M + 1 \in 0 .. M + 1 /\ c + (M + 1) = d - 1
  BY <1>0
<1>9. M + 1 \in S
  <2> HIDE DEF S
  <2> DEFINE L == M + 1
  <2>1. L \in Nat /\ L \in 0 .. L /\ \A m \in 0 .. L - 1 : m \in S => m + 1 \in S
    BY <1>7, <1>8
  <2> HIDE DEF L
  <2>2. L \in S
    BY <1>6, <2>1, UpTo
  <2> QED BY <2>2 DEF L
<1>10. Out(s, d - 1) = Out(s, c)
  BY <1>8, <1>9
<1> QED BY <1>3, <1>10

LEMMA ScanSubstitutes ==
  ASSUME NEW s \in Seq(Characters), NEW c, NEW t, NEW p, NEW q, Scanned(s, c, t, p, q), p <= Len(t),
         s[c + 1] = "%", q - p > 1, s[c + (q - p)] = "%",
         NEW v, v = FieldsMapping(SubSeq(s, c + 2, (c + (q - p)) - 1)),
         NEW u, u = SubSeq(t, 1, p - 1) \o v \o SubSeq(t, q, Len(t))
  PROVE  Scanned(s, c + (q - p), u, p + Len(v), (p + Len(v)) + 1)
<1> DEFINE N == Len(s)
           d == c + (q - p)
           x == Out(s, c)
           y == SubSeq(s, d + 1, N)
<1>1. /\ c \in 0 .. N /\ N \in Nat /\ p \in Nat \ {0} /\ q \in Nat /\ t \in Seq(Characters)
      /\ Len(t) = (p - 1) + (N - c) /\ p - 1 = Len(x)
      /\ \A k \in 1 .. p - 1 : t[k] = x[k]
      /\ \A k \in 1 .. N - c : t[(p - 1) + k] = s[c + k]
  <2>1. /\ c \in 0 .. Len(s) /\ Len(s) \in Nat /\ p \in Nat \ {0} /\ q \in Nat
        /\ t \in Seq(Characters) /\ Len(t) = (p - 1) + (Len(s) - c) /\ p - 1 = Len(Out(s, c))
    BY TextIs
  <2>2. \A k \in 1 .. p - 1 : t[k] = Out(s, c)[k]
    BY TextIs
  <2>3. \A k \in 1 .. Len(s) - c : t[(p - 1) + k] = s[c + k]
    BY TextIs
  <2> QED BY <2>1, <2>2, <2>3
<1>2. c + 1 \in 1 .. N /\ q <= Len(t) + 1 /\ d \in c + 1 .. N
  BY WindowIs
<1>3. /\ d \in c + 2 .. N /\ d \in 1 .. N /\ d - 1 \in 0 .. N - 1 /\ (d - 1) + 1 = d /\ d \in d .. N
      /\ d \in c + 2 .. d /\ (c + 1) + 1 = c + 2 /\ d + 1 \in 1 .. N + 1
  <2> HIDE DEF N
  <2>1. c \in 0 .. N /\ N \in Nat /\ p \in Nat /\ q \in Nat
    BY <1>1
  <2>2. q - p > 1
    OBVIOUS
  <2>3. c \in Nat /\ d \in Nat /\ d >= c + 2 /\ d <= N
    BY <1>2, <2>1, <2>2
  <2> HIDE DEF d
  <2> QED BY <2>1, <2>3
<1>4. Outside(s, c + 1) /\ \A k \in c + 2 .. d - 1 : s[k] # "%"
  BY DEF Scanned
<1>5. v \in Seq(Characters) /\ Len(v) \in Nat /\ x \in Seq(Characters)
  BY <1>1, FieldTyped, PiecesTyped
<1>6. ~Outside(s, d) /\ Max(Earlier(s, d)) = c + 1 /\ Out(s, d - 1) = x
  <2> HIDE DEF d
  <2>1. s[c + 1] = "%" /\ s[d] = "%"
    BY DEF d
  <2>2. c \in 0 .. Len(s) /\ d \in c + 2 .. Len(s) /\ Outside(s, c + 1) /\ d \in c + 2 .. d
    BY <1>1, <1>3, <1>4
  <2>3. \A k \in c + 2 .. d - 1 : s[k] # "%"
    BY <1>4
  <2>4. /\ \A n \in c + 2 .. d : ~Outside(s, n) /\ Max(Earlier(s, n)) = c + 1
        /\ Out(s, d - 1) = Out(s, c)
    BY <2>1, <2>2, <2>3, InPair
  <2> QED BY <2>2, <2>4
<1>7. Outside(s, d + 1)
  <2>1. s[d] = "%"
    OBVIOUS
  <2> HIDE DEF d
  <2> QED BY <1>3, <1>6, <2>1, OutsideNext
<1>8. Piece(s, d) = v
  <2>1. s[d] = "%" /\ v = FieldsMapping(SubSeq(s, c + 2, d - 1))
    OBVIOUS
  <2> HIDE DEF d
  <2>2. Piece(s, d) = FieldsMapping(SubSeq(s, (c + 1) + 1, d - 1))
    BY <1>3, <1>6, <2>1, PiecesTyped
  <2> QED BY <1>3, <2>1, <2>2
<1>9. Out(s, d) = x \o v
  <2> DEFINE m == d - 1
  <2>1. m \in 0 .. N - 1 /\ m + 1 = d /\ Out(s, m) = x
    BY <1>3, <1>6
  <2> HIDE DEF m, d, x
  <2>2. Out(s, m + 1) = Out(s, m) \o Piece(s, m + 1)
    BY <2>1, OutNext
  <2> QED BY <1>8, <2>1, <2>2
<1>10. SubSeq(t, 1, p - 1) = x
  <2> DEFINE r == p - 1
             a == SubSeq(t, 1, r)
  <2>1. r \in 1 - 1 .. Len(t) /\ 1 \in 1 .. Len(t) + 1 /\ (r - 1) + 1 = r /\ Len(x) = r
        /\ \A k \in 1 .. r : (1 + k) - 1 = k /\ t[k] = x[k]
    <3>1. Len(t) = r + (N - c) /\ r \in Nat /\ N - c \in Nat /\ Len(x) = r
      BY <1>1
    <3>2. \A k \in 1 .. r : t[k] = x[k]
      BY <1>1
    <3> HIDE DEF r, x, N
    <3> QED BY <3>1, <3>2
  <2>0. t \in Seq(Characters) /\ r \in 1 - 1 .. Len(t) /\ 1 \in 1 .. Len(t) + 1
    BY <1>1, <2>1
  <2> HIDE DEF r, x
  <2>2. /\ a \in Seq(Characters) /\ Len(a) = (r - 1) + 1
        /\ \A k \in 1 .. (r - 1) + 1 : a[k] = t[(1 + k) - 1]
    BY <2>0, PartOf
  <2> HIDE DEF a
  <2>3. Len(a) = Len(x) /\ \A k \in 1 .. Len(a) : a[k] = x[k]
    BY <2>1, <2>2
  <2>4. a = x
    BY <1>5, <2>2, <2>3, SameSequence
  <2> QED BY <2>4 DEF a, r
<1>11. y \in Seq(Characters) /\ Len(y) = N - d /\ SubSeq(t, q, Len(t)) = y
  <2> DEFINE L == Len(t)
             l == d + 1
             a == SubSeq(t, q, L)
  <2>0. L = (p - 1) + (N - c) /\ q <= L + 1 /\ q - p > 1
    BY <1>1, <1>2
  <2>1. /\ q \in 1 .. L + 1 /\ L \in q - 1 .. L /\ l \in 1 .. N + 1 /\ N \in l - 1 .. N
        /\ (L - q) + 1 = (N - l) + 1 /\ (N - l) + 1 = N - d
        /\ \A k \in 1 .. (L - q) + 1 :
             (q + k) - 1 = (p - 1) + ((q - p) + k) /\ (l + k) - 1 = c + ((q - p) + k)
             /\ (q - p) + k \in 1 .. N - c
    <3>1. /\ c \in Nat /\ N \in Nat /\ c <= N /\ p \in Nat /\ p > 0 /\ q \in Nat
          /\ d = c + (q - p) /\ d <= N
      BY <1>1, <1>3
    <3> HIDE DEF L, N, d
    <3>2. L \in Nat /\ d \in Nat /\ q >= p + 2
      BY <2>0, <3>1
    <3>3. /\ q \in 1 .. L + 1 /\ L \in q - 1 .. L /\ l \in 1 .. N + 1 /\ N \in l - 1 .. N
          /\ (L - q) + 1 = (N - l) + 1 /\ (N - l) + 1 = N - d
      BY <2>0, <3>1, <3>2
    <3>4. ASSUME NEW k \in 1 .. (L - q) + 1
          PROVE  /\ (q + k) - 1 = (p - 1) + ((q - p) + k) /\ (l + k) - 1 = c + ((q - p) + k)
                 /\ (q - p) + k \in 1 .. N - c
      BY <2>0, <3>1, <3>2
    <3> QED BY <3>3, <3>4
  <2>2. /\ a \in Seq(Characters) /\ Len(a) = (L - q) + 1
        /\ \A k \in 1 .. (L - q) + 1 : a[k] = t[(q + k) - 1]
    <3>1. t \in Seq(Characters) /\ q \in 1 .. Len(t) + 1 /\ L \in q - 1 .. Len(t)
      BY <1>1, <2>1
    <3> HIDE DEF L
    <3> QED BY <3>1, PartOf
  <2>3. /\ SubSeq(s, l, N) \in Seq(Characters) /\ Len(SubSeq(s, l, N)) = (N - l) + 1
        /\ \A k \in 1 .. (N - l) + 1 : SubSeq(s, l, N)[k] = s[(l + k) - 1]
    <3>1. l \in 1 .. Len(s) + 1 /\ N \in l - 1 .. Len(s)
      BY <2>1
    <3> HIDE DEF l, N
    <3> QED BY <3>1, PartOf
  <2>4. y = SubSeq(s, l, N)
    OBVIOUS
  <2> HIDE DEF a, y, l, L, N, d
  <2>5. \A k \in 1 .. (L - q) + 1 : a[k] = y[k]
    <3> TAKE k \in 1 .. (L - q) + 1
    <3>1. a[k] = t[(q + k) - 1] /\ y[k] = s[(l + k) - 1]
      BY <2>1, <2>2, <2>3, <2>4
    <3> DEFINE z == (q - p) + k
    <3>2. z \in 1 .. N - c /\ (q + k) - 1 = (p - 1) + z /\ (l + k) - 1 = c + z
      BY <2>1
    <3> HIDE DEF z
    <3> QED BY <1>1, <3>1, <3>2
  <2>6. a = y
    BY <2>1, <2>2, <2>3, <2>4, <2>5, SameSequence
  <2>7. y \in Seq(Characters) /\ Len(y) = N - d
    BY <2>1, <2>3, <2>4
  <2> QED BY <2>6, <2>7 DEF a, L
<1>12. u = Out(s, d) \o y
  BY <1>9, <1>10, <1>11
<1>13. Len(Out(s, d)) = (p - 1) + Len(v) /\ Len(u) = ((p - 1) + Len(v)) + (N - d)
  <2> HIDE DEF d, x, y, N
  <2>1. x \o v \in Seq(Characters) /\ Len(x \o v) = Len(x) + Len(v)
    BY <1>5, Behind
  <2>2. Len((x \o v) \o y) = Len(x \o v) + Len(y)
    BY <1>11, <2>1, Behind
  <2> QED BY <1>1, <1>9, <1>11, <1>12, <2>1, <2>2
<1> DEFINE r == p + Len(v)
<1>14. /\ d \in 0 .. N /\ r = Len(Out(s, d)) + 1 /\ r + 1 \in r + 1 .. Len(u) + 2
       /\ ~(r + 1 > r + 1) /\ d + 2 .. (d + ((r + 1) - r)) - 1 = {}
  <2> DEFINE l == Len(v)
             o == Len(Out(s, d))
             z == Len(u)
  <2>1. l \in Nat /\ o = (p - 1) + l /\ z = ((p - 1) + l) + (N - d)
    BY <1>5, <1>13
  <2>2. d \in 1 .. N /\ N \in Nat /\ p \in Nat
    BY <1>1, <1>3
  <2> HIDE DEF l, o, z, d, N
  <2>3. /\ d \in 0 .. N /\ p + l = o + 1 /\ (p + l) + 1 \in (p + l) + 1 .. z + 2
        /\ ~((p + l) + 1 > (p + l) + 1) /\ d + 2 .. (d + (((p + l) + 1) - (p + l))) - 1 = {}
    BY <2>1, <2>2
  <2> QED BY <2>3 DEF l, o, z
<1> HIDE DEF d, r
<1>15. Scanned(s, d, u, r, r + 1)
  BY <1>7, <1>12, <1>14 DEF Scanned
<1> QED BY <1>15 DEF d, r

\* When the window is behind the text, the format is filled and its signs come in pairs.
LEMMA ScanEnds ==
  ASSUME NEW s \in Seq(Characters), NEW c, NEW t, NEW p, NEW q, Scanned(s, c, t, p, q), ~(p <= Len(t))
  PROVE  Paired(s) /\ t = Filled(s)
<1> DEFINE N == Len(s)
           x == Out(s, N)
<1>1. /\ c \in 0 .. N /\ N \in Nat /\ p \in Nat \ {0} /\ Len(t) = (p - 1) + (N - c)
  BY TextIs
<1>2. c = N
  <2> DEFINE L == Len(t)
  <2>1. L = (p - 1) + (N - c) /\ ~(p <= L)
    BY <1>1
  <2> HIDE DEF L, N
  <2> QED BY <1>1, <2>1
<1>3. Outside(s, N + 1) /\ t = x \o SubSeq(s, N + 1, N)
  BY <1>2 DEF Scanned
<1>4. Paired(s)
  <2>1. Earlier(s, N + 1) = Places(s, "%")
    BY SignsNext
  <2> QED BY <1>3, <2>1 DEF Outside, Paired
<1>5. SubSeq(s, N + 1, N) = <<>>
  <2>1. N + 1 > N
    BY <1>1
  <2> QED BY <2>1
<1>6. x \in Seq(Characters)
  <2>1. N \in 0 .. N
    BY <1>1
  <2> QED BY <2>1, PiecesTyped
<1>7. t = x
  BY <1>3, <1>5, <1>6
<1> QED BY <1>4, <1>7 DEF Filled, Out, Pieces

\* A window that has come to the end of the text, behind a percent sign without
\* a second one.
LEMMA ScanStuck ==
  ASSUME NEW s \in Seq(Characters), NEW c, NEW t, NEW p, NEW q, Scanned(s, c, t, p, q), p <= Len(t),
         ~(q <= Len(t)), s[c + 1] = "%", q - p = 1 \/ s[c + (q - p)] # "%"
  PROVE  ~Paired(s)
<1> DEFINE N == Len(s)
           L == Len(t)
<1>1. /\ c \in 0 .. N /\ N \in Nat /\ p \in Nat \ {0} /\ q \in Nat /\ L = (p - 1) + (N - c)
      /\ c + 1 \in 1 .. N /\ q <= L + 1 /\ ~(q <= L)
  BY TextIs, WindowIs
<1>2. q - p = N - c /\ c + (q - p) = N
  <2> HIDE DEF N, L
  <2> QED BY <1>1
<1>3. Outside(s, c + 1) /\ \A k \in c + 2 .. (c + (q - p)) - 1 : s[k] # "%"
  BY DEF Scanned
<1>4. ~Outside(s, N + 1)
  <2>1. CASE c + 1 = N
    <3> DEFINE e == c + 1
    <3>1. e \in 1 .. N /\ s[e] = "%" /\ Outside(s, e) /\ e = N
      BY <1>1, <1>3, <2>1
    <3> HIDE DEF e
    <3>2. ~Outside(s, e + 1)
      BY <3>1, OutsideNext
    <3> QED BY <3>1, <3>2
  <2>2. CASE c + 1 # N
    <3>1. N \in c + 2 .. N /\ N \in 1 .. N /\ N - c # 1
      BY <1>1, <2>2
    <3>2. s[N] # "%"
      BY <1>2, <3>1
    <3>3. \A k \in c + 2 .. N - 1 : s[k] # "%"
      BY <1>2, <1>3
    <3>4. ~Outside(s, N)
      BY <1>1, <1>3, <3>1, <3>3, InPair
    <3> QED BY <3>1, <3>2, <3>4, OutsideNext
  <2> QED BY <2>1, <2>2
<1>5. Earlier(s, N + 1) = Places(s, "%")
  BY SignsNext
<1> QED BY <1>4, <1>5 DEF Outside, Paired

(***************************************************************************)
(* The quotes that are replaced leave the percent signs as they are.       *)
(***************************************************************************)
LEMMA PlacesWithOne ==
  ASSUME NEW T, NEW x \in Seq(T), NEW e \in T, NEW c
  PROVE  /\ e # c => Places(x \o <<e>>, c) = Places(x, c)
         /\ e = c => Places(x \o <<e>>, c) = Places(x, c) \cup {Len(x) + 1}
         /\ Len(x) + 1 \notin Places(x, c)
<1> DEFINE y == x \o <<e>>
           L == Len(x)
<1>1. Len(y) = L + 1 /\ y[L + 1] = e /\ \A k \in 1 .. L : y[k] = x[k]
  BY AppendOne
<1>2. L \in Nat /\ \A k : k \in 1 .. L + 1 <=> k \in 1 .. L \/ k = L + 1
  OBVIOUS
<1>3. L + 1 \notin 1 .. L
  BY <1>2
<1> HIDE DEF y, L
<1>4. \A k : k \in Places(y, c) <=> (k \in 1 .. L /\ x[k] = c) \/ (k = L + 1 /\ e = c)
  BY <1>1, <1>2 DEF Places
<1>5. \A k : k \in Places(x, c) <=> k \in 1 .. L /\ x[k] = c
  BY DEF Places, L
<1>6. /\ e # c => Places(y, c) = Places(x, c)
      /\ e = c => Places(y, c) = Places(x, c) \cup {L + 1}
      /\ L + 1 \notin Places(x, c)
  BY <1>3, <1>4, <1>5
<1> QED BY <1>6 DEF y, L

LEMMA ReplacedSigns ==
  ASSUME NEW s \in Seq(Characters)
  PROVE  Cardinality(Places(ReplaceEach(s, "'", <<"~", "quote">>), "%")) = Cardinality(Places(s, "%"))
<1> DEFINE N == Len(s)
           by == <<"~", "quote">>
           f == [n \in 1 .. N |-> IF s[n] = "'" THEN by ELSE <<s[n]>>]
           J(n) == Joined(f, n)
           C(n) == Cardinality(Places(J(n), "%"))
           S == {n \in 0 .. N : IsFiniteSet(Places(J(n), "%")) /\ C(n) = Signs(s, n + 1)}
<1>0. N \in Nat /\ N \in 0 .. N /\ N + 1 \in 1 .. N + 1 /\ 0 \in 0 .. N
  OBVIOUS
<1>1. "~" \in Characters /\ "quote" \in Characters /\ \A n \in 1 .. N : s[n] \in Characters
  BY DEF Characters
<1>2. \A n \in 1 .. N : /\ s[n] = "'" => f[n] = <<"~">> \o <<"quote">>
                        /\ s[n] # "'" => f[n] = <<s[n]>>
                        /\ f[n] \in Seq(Characters)
  <2>1. by = <<"~">> \o <<"quote">>
    OBVIOUS
  <2>2. \A e, g \in Characters : <<e>> \in Seq(Characters) /\ <<e, g>> \in Seq(Characters)
    OBVIOUS
  <2>3. by \in Seq(Characters) /\ \A n \in 1 .. N : <<s[n]>> \in Seq(Characters)
    BY <1>1, <2>2
  <2> QED BY <2>1, <2>3
<1> HIDE DEF f
<1>3. \A n \in 0 .. N : J(n) \in Seq(Characters)
  <2> TAKE n \in 0 .. N
  <2>1. n \in Nat /\ \A k \in 1 .. n : k \in 1 .. N
    OBVIOUS
  <2>2. \A k \in 1 .. n : f[k] \in Seq(Characters)
    BY <1>2, <2>1
  <2> QED BY <2>1, <2>2, JoinedTyped
<1>4. 0 \in S
  <2>1. J(0) = <<>> /\ Signs(s, 1) = 0 /\ 0 + 1 = 1
    BY JoinedNone, SignsNext
  <2>2. Places(<<>>, "%") = {}
    BY DEF Places
  <2>3. IsFiniteSet(Places(J(0), "%")) /\ C(0) = 0
    BY <2>1, <2>2, FS_EmptySet
  <2> QED BY <1>0, <2>1, <2>3
<1>5. ASSUME NEW n \in 0 .. N - 1, n \in S PROVE n + 1 \in S
  <2> DEFINE m == n + 1
             P == Places(J(n), "%")
             x == J(n)
  <2>1. m \in 1 .. N /\ m \in 0 .. N /\ n \in 0 .. N /\ n \in Nat /\ x \in Seq(Characters)
        /\ f[m] \in Seq(Characters)
    BY <1>0, <1>2, <1>3
  <2>2. IsFiniteSet(P) /\ Cardinality(P) = Signs(s, m) /\ Cardinality(P) \in Nat
    BY <1>5, FS_CardinalityType
  <2>3. J(m) = x \o f[m]
    <3>1. J(n + 1) = J(n) \o f[n + 1]
      BY <2>1, JoinedNext
    <3> QED BY <3>1
  <2>4. /\ s[m] = "%" => Signs(s, m + 1) = Signs(s, m) + 1
        /\ s[m] # "%" => Signs(s, m + 1) = Signs(s, m)
    <3> HIDE DEF m
    <3> QED BY <2>1, SignsNext
  <2>5. s[m] \in Characters /\ \A e \in Characters : <<e>> \in Seq(Characters)
    BY <1>1, <2>1
  <2> HIDE DEF m, x
  <2>6. CASE s[m] = "'"
    <3> DEFINE z == x \o <<"~">>
    <3>1. J(m) = z \o <<"quote">>
      <4> DEFINE y == <<"~">>
                 w == <<"quote">>
      <4>0. x \in Seq(Characters) /\ y \in Seq(Characters) /\ w \in Seq(Characters)
        BY <1>1, <2>1, <2>5
      <4> HIDE DEF y, w
      <4>1. (x \o y) \o w = x \o (y \o w)
        BY <4>0, Associated
      <4> USE DEF y, w
      <4> QED BY <1>2, <2>1, <2>3, <2>6, <4>1
    <3>2. z \in Seq(Characters) /\ Places(z, "%") = Places(x, "%")
      <4>1. z \in Seq(Characters)
        BY <1>1, <2>1, <2>5, Behind
      <4> QED BY <1>1, <2>1, <4>1, PlacesWithOne
    <3> HIDE DEF z
    <3>3. Places(J(m), "%") = Places(z, "%")
      BY <1>1, <3>1, <3>2, PlacesWithOne
    <3>4. IsFiniteSet(Places(J(m), "%")) /\ C(m) = Signs(s, m + 1)
      BY <2>2, <2>4, <2>6, <3>2, <3>3 DEF x
    <3>5. m \in S
      BY <2>1, <3>4
    <3> QED BY <3>5 DEF m
  <2>7. CASE s[m] # "'" /\ s[m] # "%"
    <3>1. J(m) = x \o <<s[m]>>
      BY <1>2, <2>1, <2>3, <2>7
    <3>2. Places(J(m), "%") = Places(x, "%")
      BY <2>1, <2>5, <2>7, <3>1, PlacesWithOne
    <3>3. IsFiniteSet(Places(J(m), "%")) /\ C(m) = Signs(s, m + 1)
      BY <2>2, <2>4, <2>7, <3>2 DEF x
    <3>4. m \in S
      BY <2>1, <3>3
    <3> QED BY <3>4 DEF m
  <2>8. CASE s[m] = "%"
    <3>1. J(m) = x \o <<"%">>
      BY <1>2, <2>1, <2>3, <2>8
    <3>2. Places(J(m), "%") = P \cup {Len(x) + 1} /\ Len(x) + 1 \notin P
      <4>1. P = Places(x, "%")
        BY DEF x
      <4> QED BY <2>1, <2>5, <2>8, <3>1, <4>1, PlacesWithOne
    <3> DEFINE l == Len(x) + 1
    <3> HIDE DEF P, l
    <3>3. IsFiniteSet(P \cup {l}) /\ (l \notin P => Cardinality(P \cup {l}) = Cardinality(P) + 1)
      BY <2>2, FS_AddElement
    <3>4. IsFiniteSet(Places(J(m), "%")) /\ C(m) = Signs(s, m + 1)
      BY <2>2, <2>4, <2>8, <3>2, <3>3 DEF l
    <3>5. m \in S
      BY <2>1, <3>4
    <3> QED BY <3>5 DEF m
  <2> QED BY <2>6, <2>7, <2>8
<1>6. N \in S
  <2> HIDE DEF S, N
  <2> QED BY <1>0, <1>4, <1>5, UpTo
<1>7. C(N) = Signs(s, N + 1)
  BY <1>6
<1>8. Signs(s, N + 1) = Cardinality(Places(s, "%"))
  BY SignsNext DEF Signs
<1>9. J(N) = ReplaceEach(s, "'", by)
  BY DEF ReplaceEach, f
<1> QED BY <1>7, <1>8, <1>9

\* There are no more percent signs in a text than characters.
LEMMA PairedIs ==
  ASSUME NEW s \in Seq(Characters)
  PROVE  Paired(s) <=> \E k \in Nat : Cardinality(Places(s, "%")) = 2 * k
<1> DEFINE N == Len(s)
           C == Cardinality(Places(s, "%"))
<1>1. N \in Nat /\ N + 1 \in 1 .. N + 1 /\ (N + 1) - 1 = N
  OBVIOUS
<1>2. C \in 0 .. N
  <2>1. Signs(s, N + 1) = C
    BY SignsNext DEF Signs
  <2>2. Signs(s, N + 1) \in 0 .. (N + 1) - 1
    BY <1>1, SignsNext
  <2> QED BY <1>1, <2>1, <2>2
<1>3. ASSUME NEW k \in Nat, C = 2 * k PROVE k \in 0 .. N
  <2> HIDE DEF C, N
  <2> QED BY <1>1, <1>2, <1>3
<1>4. \A k \in 0 .. N : k \in Nat
  BY <1>1
<1> QED BY <1>3, <1>4 DEF Paired

LEMMA ReplacedPairs ==
  ASSUME NEW s \in Seq(Characters)
  PROVE  Paired(ReplaceEach(s, "'", <<"~", "quote">>)) <=> Paired(s)
<1> DEFINE t == ReplaceEach(s, "'", <<"~", "quote">>)
<1>1. t \in Seq(Characters)
  <2>1. "~" \in Characters /\ "quote" \in Characters
    BY DEF Characters
  <2>2. \A e, g \in Characters : <<e, g>> \in Seq(Characters)
    OBVIOUS
  <2>3. <<"~", "quote">> \in Seq(Characters)
    BY <2>1, <2>2
  <2> QED BY <2>3, ReplacedTyped
<1>2. Cardinality(Places(t, "%")) = Cardinality(Places(s, "%"))
  BY ReplacedSigns
<1> HIDE DEF t
<1>3. Paired(t) <=> Paired(s)
  BY <1>1, <1>2, PairedIs
<1> QED BY <1>3 DEF t

LEMMA BodyPaired ==
  ASSUME NEW s \in Seq(Characters)
  PROVE  Paired(Body(s)) <=> Paired(Shown(s))
BY BodyIs, ReplacedPairs

LEMMA LineWanted ==
  ASSUME NEW s \in Seq(Characters), NEW x, Paired(Body(s)), x = Filled(Body(s)),
         NEW y, y = IF IsCustomJsonFormat(s) THEN SanitizeJson(x) ELSE x
  PROVE  Paired(Shown(s)) /\ y = Wanted(s)
<1>1. /\ Shown(s) \in Seq(Characters)
      /\ Body(s) = IF IsCustomJsonFormat(s) THEN ReplaceEach(Shown(s), "'", <<"~", "quote">>) ELSE Shown(s)
  BY BodyIs
<1>2. Paired(Shown(s))
  BY BodyPaired
<1>3. y = Wanted(s)
  BY <1>1 DEF Wanted
<1> QED BY <1>2, <1>3

LEMMA ScannedTyped ==
  ASSUME NEW s \in Seq(Characters), NEW c, NEW t, NEW p, NEW q, Scanned(s, c, t, p, q)
  PROVE  t \in Seq(Characters) /\ p \in 1 .. Len(t) + 1 /\ q \in p + 1 .. Len(t) + 2
<1> DEFINE N == Len(s)
           L == Len(t)
<1>1. /\ c \in 0 .. N /\ N \in Nat /\ p \in Nat \ {0} /\ t \in Seq(Characters)
      /\ L = (p - 1) + (N - c)
  BY TextIs
<1>2. q \in p + 1 .. L + 2
  BY DEF Scanned
<1>3. p \in 1 .. L + 1
  <2> HIDE DEF L, N
  <2> QED BY <1>1
<1> QED BY <1>1, <1>2, <1>3

(***************************************************************************)
(* Who prints, and with what format.                                       *)
(***************************************************************************)
FormatOf(p) ==
  IF p.kind = "file" THEN p.source.format
  ELSE IF GoodAt(p.kind) = {} THEN <<>>
  ELSE FormatAsked(LastGood(p.kind))

LEMMA PrintersFormat ==
  ASSUME CInv
  PROVE  /\ \A n \in 1 .. Len(monitors) :
              FormatOf(monitors[n]) = monitors[n].format /\ monitors[n].format \in Seq(Characters)
         /\ main = "started" =>
              FormatOf([kind |-> "process"]) = processFormat /\ processFormat \in Seq(Characters)
<1>1. ASSUME NEW n \in 1 .. Len(monitors)
      PROVE  FormatOf(monitors[n]) = monitors[n].format /\ monitors[n].format \in Seq(Characters)
  <2>1. CASE /\ monitors[n].kind = "file" /\ monitors[n].format = monitors[n].source.format
             /\ monitors[n].format \in Seq(Characters)
    BY <2>1 DEF FormatOf
  <2>2. CASE main \in Starts \ {"start"} /\ channels # <<>> /\ monitors[n] = EventMonitorIs
    <3>1. monitors[n].kind = "eventlog" /\ monitors[n].format = eventSettings.format
      BY <2>2 DEF EventMonitorIs
    <3>2. /\ GoodAt("eventlog") # {} /\ eventSettings.format = FormatAsked(LastGood("eventlog"))
          /\ eventSettings.format \in Seq(Characters)
      BY <2>2, EventMonitorAsked
    <3> QED BY <3>1, <3>2 DEF FormatOf
  <2>3. CASE main \in Starts \ {"start"} /\ providers # <<>> /\ monitors[n] = EtwMonitorIs
    <3>1. monitors[n].kind = "etw" /\ monitors[n].format = etwSettings.format
      BY <2>3 DEF EtwMonitorIs
    <3>2. /\ GoodAt("etw") # {} /\ etwSettings.format = FormatAsked(LastGood("etw"))
          /\ etwSettings.format \in Seq(Characters)
      BY <2>3, EtwMonitorAsked
    <3> QED BY <3>1, <3>2 DEF FormatOf
  <2> QED BY <2>1, <2>2, <2>3, MonitorIs
<1>2. ASSUME main = "started"
      PROVE  FormatOf([kind |-> "process"]) = processFormat /\ processFormat \in Seq(Characters)
  <2>1. /\ processFormat = IF GoodAt("process") = {} THEN <<>> ELSE FormatAsked(LastGood("process"))
        /\ processFormat \in Seq(Characters)
    BY <1>2, ProcessFormatAsked
  <2>2. [kind |-> "process"].kind = "process"
    OBVIOUS
  <2> DEFINE r == [kind |-> "process"]
  <2>3. r.kind = "process"
    BY <2>2
  <2> HIDE DEF r
  <2>4. FormatOf(r) = processFormat
    BY <2>1, <2>3 DEF FormatOf
  <2> QED BY <2>1, <2>4 DEF r
<1> QED BY <1>1, <1>2

(***************************************************************************)
(* The invariant of a line: the text is the format of the printer, filled  *)
(* up to some position of it, and a line that is done is filled to its     *)
(* end.                                                                    *)
(***************************************************************************)
PrintersLine == scan # "idle" => format = FormatOf(printer) /\ isJson = IsCustomJsonFormat(format)
FilledSoFar == scan = "scan" => \E c : Scanned(Body(format), c, text, i, j)
LineDone == scan = "done" => Paired(Shown(format)) /\ text = Wanted(format)
LInv == FormatTypeOK /\ PrintersLine /\ FilledSoFar /\ LineDone

LEMMA LInvInit == Init => LInv
<1> SUFFICES ASSUME Init PROVE LInv
  OBVIOUS
<1>1. scan = "idle" /\ format = <<>> /\ text = <<>> /\ i = 1 /\ j = 2 /\ isJson = FALSE
  BY DEF Init, FormatInit
<1>2. <<>> \in Seq(Characters) /\ Len(<<>>) = 0
  OBVIOUS
<1>3. FormatTypeOK
  <2>1. 1 \in 1 .. 0 + 1 /\ 2 \in 1 + 1 .. 0 + 2
    OBVIOUS
  <2>2. i \in 1 .. Len(text) + 1 /\ j \in i + 1 .. Len(text) + 2
    BY <1>1, <1>2, <2>1
  <2> QED BY <1>1, <1>2, <2>2 DEF FormatTypeOK
<1> QED BY <1>1, <1>3 DEF LInv, PrintersLine, FilledSoFar, LineDone

LEMMA LInvUnchanged ==
  ASSUME LInv, UNCHANGED <<document, printer, formatting>>
  PROVE  LInv'
<1>1. UNCHANGED <<document, printer, scan, format, text, i, j, isJson>>
  BY DEF formatting
<1>2. FormatTypeOK'
  BY <1>1 DEF LInv, FormatTypeOK
<1>3. FormatOf(printer)' = FormatOf(printer)
  BY <1>1 DEF FormatOf, GoodAt, LastGood
<1>4. PrintersLine'
  BY <1>1, <1>3 DEF LInv, PrintersLine
<1>5. FilledSoFar'
  BY <1>1 DEF LInv, FilledSoFar
<1>6. LineDone'
  BY <1>1 DEF LInv, LineDone
<1> QED BY <1>2, <1>4, <1>5, <1>6 DEF LInv

LEMMA LineStarts ==
  ASSUME LInv, NEW s \in Seq(Characters), Formats(s), document' = document, FormatOf(printer') = s
  PROVE  LInv'
<1>1. scan' = "scan" /\ format' = s /\ text' = Body(s) /\ i' = 1 /\ j' = 2 /\ isJson' = IsCustomJsonFormat(s)
  BY DEF Formats
<1>2. Body(s) \in Seq(Characters)
  BY BodyIs
<1>3. Scanned(Body(s), 0, Body(s), 1, 2)
  BY <1>2, ScanStarts
<1>4. Body(s) \in Seq(Characters) /\ 1 \in 1 .. Len(Body(s)) + 1 /\ 2 \in 1 + 1 .. Len(Body(s)) + 2
  BY <1>2, <1>3, ScannedTyped
<1>5. isJson' \in BOOLEAN
  BY <1>1 DEF IsCustomJsonFormat, HasBar, Contains
<1>6. FormatTypeOK'
  BY <1>1, <1>4, <1>5 DEF FormatTypeOK
<1>7. FormatOf(printer)' = FormatOf(printer')
  BY DEF FormatOf, GoodAt, LastGood
<1>8. PrintersLine'
  BY <1>1, <1>7 DEF PrintersLine
<1>9. FilledSoFar'
  BY <1>1, <1>3 DEF FilledSoFar
<1>10. LineDone'
  BY <1>1 DEF LineDone
<1> QED BY <1>6, <1>8, <1>9, <1>10 DEF LInv

\* What a turn of the loop sees.
LEMMA TurnSees ==
  ASSUME NEW s \in Seq(Characters), NEW c, Scanned(s, c, text, i, j), Scanning
  PROVE  /\ i <= Len(text) /\ j - i >= 1
         /\ StartsWithPercent <=> s[c + 1] = "%"
         /\ EndsWithPercent <=> s[c + (j - i)] = "%"
         /\ Len(Sub) = j - i /\ i + Len(Sub) = j
         /\ j - i > 1 =>
              s[c + 1] = "%" /\ SubSeq(Sub, 2, Len(Sub) - 1) = SubSeq(s, c + 2, (c + (j - i)) - 1)
<1>1. i <= Len(text)
  BY DEF Scanning
<1>2. i \in Nat \ {0} /\ j \in Nat /\ j \in i + 1 .. Len(text) + 2 /\ Len(text) \in Nat
  <2>1. Len(text) \in Nat
    BY ScannedTyped
  <2> QED BY <2>1, TextIs DEF Scanned
<1>3. /\ text[i] = s[c + 1]
      /\ Len(SubSeq(text, i, j - 1)) = j - i /\ Last(SubSeq(text, i, j - 1)) = s[c + (j - i)]
      /\ j - i > 1 =>
           SubSeq(SubSeq(text, i, j - 1), 2, (j - i) - 1) = SubSeq(s, c + 2, (c + (j - i)) - 1)
  <2>1. SeenIn(s, c, text, i, j)
    BY <1>1, WindowIs
  <2> QED BY <2>1 DEF SeenIn
<1>4. StartsWithPercent <=> s[c + 1] = "%"
  BY <1>3 DEF StartsWithPercent
<1>5. Len(Sub) = j - i /\ Last(Sub) = s[c + (j - i)]
  BY <1>3 DEF Sub
<1>6. EndsWithPercent <=> s[c + (j - i)] = "%"
  BY <1>5 DEF EndsWithPercent
<1>7. j - i >= 1 /\ i + (j - i) = j
  BY <1>2
<1>8. ASSUME j - i > 1 PROVE s[c + 1] = "%"
  <2>1. j > i + 1
    BY <1>2, <1>8
  <2> QED BY <2>1 DEF Scanned
<1>9. ASSUME j - i > 1 PROVE SubSeq(Sub, 2, Len(Sub) - 1) = SubSeq(s, c + 2, (c + (j - i)) - 1)
  BY <1>3, <1>5, <1>9 DEF Sub
<1> QED BY <1>1, <1>4, <1>5, <1>6, <1>7, <1>8, <1>9

LEMMA TurnFills ==
  ASSUME LInv, MovesOn \/ Substitutes \/ Widens
  PROVE  /\ scan' = "scan" /\ scan = "scan" /\ format' = format /\ isJson' = isJson
         /\ \E c : Scanned(Body(format), c, text', i', j')
<1>0. scan' = "scan" /\ scan = "scan" /\ format' = format /\ isJson' = isJson /\ Scanning
  BY DEF MovesOn, Substitutes, Widens, Scanning
<1> DEFINE s == Body(format)
<1>1. s \in Seq(Characters)
  BY BodyIs DEF LInv, FormatTypeOK
<1>2. PICK c : Scanned(s, c, text, i, j)
  BY <1>0 DEF LInv, FilledSoFar
<1> HIDE DEF s
<1>3. /\ i <= Len(text) /\ j - i >= 1
      /\ StartsWithPercent <=> s[c + 1] = "%"
      /\ EndsWithPercent <=> s[c + (j - i)] = "%"
      /\ Len(Sub) = j - i /\ i + Len(Sub) = j
      /\ j - i > 1 =>
           s[c + 1] = "%" /\ SubSeq(Sub, 2, Len(Sub) - 1) = SubSeq(s, c + 2, (c + (j - i)) - 1)
  BY <1>0, <1>1, <1>2, TurnSees
<1>4. CASE MovesOn
  <2>1. s[c + 1] # "%" /\ text' = text /\ i' = i + 1 /\ j' = j + 1
    BY <1>3, <1>4 DEF MovesOn
  <2>2. Scanned(s, c + 1, text, i + 1, j + 1)
    BY <1>1, <1>2, <1>3, <2>1, ScanMovesOn
  <2>3. Scanned(s, c + 1, text', i', j')
    BY <2>1, <2>2
  <2> QED BY <1>0, <2>3 DEF s
<1>5. CASE Substitutes
  <2> DEFINE v == FieldsMapping(SubSeq(Sub, 2, Len(Sub) - 1))
             d == c + (j - i)
  <2>1. s[c + 1] = "%" /\ s[c + (j - i)] = "%" /\ j - i > 1
    BY <1>3, <1>5 DEF Substitutes
  <2>2. /\ text' = SubSeq(text, 1, i - 1) \o v \o SubSeq(text, i + Len(Sub), Len(text))
        /\ i' = i + Len(v) /\ j' = (i + Len(v)) + 1
    BY <1>5 DEF Substitutes
  <2>3. text' = SubSeq(text, 1, i - 1) \o v \o SubSeq(text, j, Len(text))
    BY <1>3, <2>2
  <2>4. v = FieldsMapping(SubSeq(s, c + 2, (c + (j - i)) - 1))
    BY <1>3, <2>1
  <2> HIDE DEF v
  <2>5. Scanned(s, c + (j - i), text', i + Len(v), (i + Len(v)) + 1)
    BY <1>1, <1>2, <1>3, <2>1, <2>3, <2>4, ScanSubstitutes
  <2>6. Scanned(s, c + (j - i), text', i', j')
    BY <2>2, <2>5
  <2> QED BY <1>0, <2>6 DEF s
<1>6. CASE Widens
  <2>1. /\ StartsWithPercent # EndsWithPercent \/ (StartsWithPercent /\ Len(Sub) = 1)
        /\ text' = text /\ i' = i /\ j' = IF j <= Len(text) THEN j + 1 ELSE j
    BY <1>6 DEF Widens
  <2>2. s[c + 1] = "%"
    <3> SUFFICES ASSUME s[c + 1] # "%" PROVE FALSE
      OBVIOUS
    <3>2. j - i = 1
      <4>1. i \in Nat /\ j \in Nat
        BY <1>1, <1>2, TextIs
      <4> QED BY <1>3, <4>1
    <3>3. StartsWithPercent <=> EndsWithPercent
      BY <1>3, <3>2
    <3>4. ~StartsWithPercent
      BY <1>3
    <3> QED BY <2>1, <3>3, <3>4 DEF StartsWithPercent, EndsWithPercent
  <2>3. j - i = 1 \/ s[c + (j - i)] # "%"
    <3>1. StartsWithPercent
      BY <1>3, <2>2
    <3>2. ~EndsWithPercent \/ Len(Sub) = 1
      BY <2>1, <3>1 DEF StartsWithPercent, EndsWithPercent
    <3> QED BY <1>3, <3>2
  <2>4. Scanned(s, c, text, i, IF j <= Len(text) THEN j + 1 ELSE j)
    BY <1>1, <1>2, <1>3, <2>2, <2>3, ScanWidens
  <2>5. Scanned(s, c, text', i', j')
    BY <2>1, <2>4
  <2> QED BY <1>0, <2>5 DEF s
<1> QED BY <1>4, <1>5, <1>6

LEMMA LineFilled ==
  ASSUME LInv, FormatEventLineLog, UNCHANGED <<document, printer>>
  PROVE  LInv'
<1>0. FormatOf(printer)' = FormatOf(printer)
  BY DEF FormatOf, GoodAt, LastGood
<1>1. CASE MovesOn \/ Substitutes \/ Widens
  <2>1. /\ scan' = "scan" /\ scan = "scan" /\ format' = format /\ isJson' = isJson
        /\ \E c : Scanned(Body(format), c, text', i', j')
    BY <1>1, TurnFills
  <2>2. PICK c : Scanned(Body(format), c, text', i', j')
    BY <2>1
  <2>3. Body(format) \in Seq(Characters) /\ format \in Seq(Characters) /\ isJson \in BOOLEAN
    BY BodyIs DEF LInv, FormatTypeOK
  <2>4. text' \in Seq(Characters) /\ i' \in 1 .. Len(text') + 1 /\ j' \in i' + 1 .. Len(text') + 2
    BY <2>2, <2>3, ScannedTyped
  <2>5. FormatTypeOK'
    BY <2>1, <2>3, <2>4 DEF FormatTypeOK
  <2>6. PrintersLine'
    BY <1>0, <2>1 DEF LInv, PrintersLine
  <2>7. FilledSoFar'
    BY <2>1, <2>2 DEF FilledSoFar
  <2>8. LineDone'
    BY <2>1 DEF LineDone
  <2> QED BY <2>5, <2>6, <2>7, <2>8 DEF LInv
<1>2. CASE ReturnsLine
  <2> DEFINE s == Body(format)
  <2>1. /\ scan = "scan" /\ i > Len(text) /\ scan' = "done"
        /\ text' = IF isJson THEN SanitizeJson(text) ELSE text
        /\ UNCHANGED <<format, i, j, isJson>>
    BY <1>2 DEF ReturnsLine
  <2>2. s \in Seq(Characters) /\ format \in Seq(Characters) /\ isJson \in BOOLEAN
        /\ text \in Seq(Characters) /\ i \in 1 .. Len(text) + 1 /\ j \in i + 1 .. Len(text) + 2
    BY BodyIs DEF LInv, FormatTypeOK
  <2>3. PICK c : Scanned(s, c, text, i, j)
    BY <2>1 DEF LInv, FilledSoFar
  <2>4. ~(i <= Len(text))
    <3>1. Len(text) \in Nat /\ i \in Nat
      BY <2>2
    <3> QED BY <2>1, <3>1
  <2> HIDE DEF s
  <2>5. Paired(s) /\ text = Filled(s)
    BY <2>2, <2>3, <2>4, ScanEnds
  <2>6. isJson = IsCustomJsonFormat(format)
    BY <2>1 DEF LInv, PrintersLine
  <2>7. text' = IF IsCustomJsonFormat(format) THEN SanitizeJson(text) ELSE text
    BY <2>1, <2>6
  <2>8. Paired(Shown(format)) /\ text' = Wanted(format)
    BY <2>2, <2>5, <2>7, LineWanted DEF s
  <2>9. text' \in Seq(Characters) /\ Len(text') = Len(text)
    BY <2>2, <2>7, SanitizedTyped
  <2>10. FormatTypeOK'
    <3>1. i \in 1 .. Len(text') + 1 /\ j \in i + 1 .. Len(text') + 2
      BY <2>2, <2>9
    <3> QED BY <2>1, <2>2, <2>9, <3>1 DEF FormatTypeOK
  <2>11. PrintersLine'
    BY <1>0, <2>1 DEF LInv, PrintersLine
  <2>12. FilledSoFar' /\ LineDone'
    BY <2>1, <2>8 DEF FilledSoFar, LineDone
  <2> QED BY <2>10, <2>11, <2>12 DEF LInv
<1> QED BY <1>1, <1>2 DEF FormatEventLineLog

LEMMA LInvStep == CInv /\ LInv /\ [Next]_vars => LInv'
<1> SUFFICES ASSUME CInv, LInv, [Next]_vars PROVE LInv'
  OBVIOUS
<1>1. CASE Main \/ UNCHANGED vars
  <2>1. UNCHANGED <<document, printer, formatting>>
    <3>1. CASE UNCHANGED vars
      BY <3>1 DEF vars
    <3>2. CASE ReadConfigFile
      BY <3>2 DEF ReadConfigFile, ReadsDocument, RefusesDocument, SkipsSource, HandlesEventLog, HandlesFile,
                  HandlesETW, ETWThrows, HandlesProcess, SourcesEnd, Accepts, Refuses
    <3>3. CASE StartMonitors
      BY <3>3 DEF StartMonitors, InitializeEventLogMonitor, InitializeEtwMonitor, InitializeProcessMonitor,
                  InitializeFileMonitor, CreateEventMonitor, CreateEtwMonitor
    <3> QED BY <1>1, <3>1, <3>2, <3>3 DEF Main
  <2> QED BY <2>1, LInvUnchanged
<1>2. CASE ProcessPrints
  <2>1. /\ main = "started" /\ printer' = [kind |-> "process"] /\ Formats(processFormat)
        /\ document' = document
    BY <1>2 DEF ProcessPrints
  <2>2. FormatOf(printer') = processFormat /\ processFormat \in Seq(Characters)
    BY <2>1, PrintersFormat
  <2> QED BY <2>1, <2>2, LineStarts
<1>3. ASSUME NEW n \in 1 .. Len(monitors), MonitorPrints(n) PROVE LInv'
  <2>1. printer' = monitors[n] /\ Formats(monitors[n].format) /\ document' = document
    BY <1>3 DEF MonitorPrints
  <2>2. FormatOf(printer') = monitors[n].format /\ monitors[n].format \in Seq(Characters)
    BY <2>1, PrintersFormat
  <2> QED BY <2>1, <2>2, LineStarts
<1>4. CASE Prints
  <2>1. FormatEventLineLog /\ UNCHANGED <<document, printer>>
    BY <1>4 DEF Prints
  <2> QED BY <2>1, LineFilled
<1> QED BY <1>1, <1>2, <1>3, <1>4 DEF Next, Lines

LEMMA LInvHolds == Spec => []LInv
BY CInvHolds, LInvInit, LInvStep, PTL DEF Spec

\* LineFormat.tla: the line that is printed is the format of its source with
\* its fields filled in (Utility::FormatEventLineLog).
THEOREM LineCorrect == Spec => []LineFollowsFormat
<1>1. LInv => LineFollowsFormat
  <2> SUFFICES ASSUME LInv, scan = "done"
               PROVE  Paired(Shown(FormatOfPrinter)) /\ text = Wanted(FormatOfPrinter)
    BY DEF LineFollowsFormat
  <2>1. format = FormatOfPrinter
    BY DEF LInv, PrintersLine, FormatOf, FormatOfPrinter
  <2> QED BY <2>1 DEF LInv, LineDone
<1> QED BY <1>1, LInvHolds, PTL

(***************************************************************************)
(* What the end of the loop rests on.                                      *)
(***************************************************************************)
\* The text that is put in place of a field takes no part in what is left.
LEMMA SubstitutionShortens ==
  ASSUME NEW t \in Seq(Characters), NEW v \in Seq(Characters),
         NEW p \in 1 .. Len(t), NEW q \in p + 1 .. Len(t) + 1
  PROVE  Len(SubSeq(t, 1, p - 1) \o v \o SubSeq(t, q, Len(t))) - (p + Len(v)) < Len(t) - p
<1> DEFINE L == Len(t)
           r == p - 1
           x == SubSeq(t, 1, r)
           y == SubSeq(t, q, L)
<1>1. /\ L \in Nat /\ p \in Nat /\ q \in Nat /\ r \in Nat /\ Len(v) \in Nat /\ p < q /\ q <= L + 1 /\ r = p - 1
      /\ 1 \in 1 .. Len(t) + 1 /\ r \in 1 - 1 .. Len(t) /\ q \in 1 .. Len(t) + 1 /\ L \in q - 1 .. Len(t)
  OBVIOUS
<1> HIDE DEF L, r
<1>2. x \in Seq(Characters) /\ Len(x) = (r - 1) + 1 /\ y \in Seq(Characters) /\ Len(y) = (L - q) + 1
  BY <1>1, PartOf
<1> HIDE DEF x, y
<1>3. x \o v \in Seq(Characters) /\ Len(x \o v) = Len(x) + Len(v)
  BY <1>2, Behind
<1>4. Len((x \o v) \o y) = Len(x \o v) + Len(y)
  BY <1>2, <1>3, Behind
<1>5. Len(x \o v \o y) - (p + Len(v)) < L - p
  BY <1>1, <1>2, <1>3, <1>4
<1> QED BY <1>5 DEF x, y, L, r

LEMMA TurnShortens ==
  ASSUME LInv, FormatEventLineLog, scan' = "scan"
  PROVE  \/ Len(text') - i' < Len(text) - i
         \/ Len(text') - i' = Len(text) - i /\ Len(text') - j' < Len(text) - j
         \/ UNCHANGED formatting
<1>1. MovesOn \/ Substitutes \/ Widens
  BY DEF FormatEventLineLog, ReturnsLine
<1>2. scan = "scan" /\ Scanning
  BY <1>1 DEF MovesOn, Substitutes, Widens, Scanning
<1> DEFINE s == Body(format)
<1>3. s \in Seq(Characters) /\ text \in Seq(Characters) /\ Len(text) \in Nat
      /\ i \in 1 .. Len(text) + 1 /\ j \in i + 1 .. Len(text) + 2
  BY BodyIs DEF LInv, FormatTypeOK
<1>4. PICK c : Scanned(s, c, text, i, j)
  BY <1>2 DEF LInv, FilledSoFar
<1> HIDE DEF s
<1>5. i <= Len(text) /\ i + Len(Sub) = j
  BY <1>2, <1>3, <1>4, TurnSees
<1>6. CASE MovesOn
  <2>1. text' = text /\ i' = i + 1
    BY <1>6 DEF MovesOn
  <2>2. Len(text) - (i + 1) < Len(text) - i
    BY <1>3
  <2> QED BY <2>1, <2>2
<1>7. CASE Substitutes
  <2> DEFINE v == FieldsMapping(SubSeq(Sub, 2, Len(Sub) - 1))
  <2>1. /\ text' = SubSeq(text, 1, i - 1) \o v \o SubSeq(text, i + Len(Sub), Len(text))
        /\ i' = i + Len(v)
    BY <1>7 DEF Substitutes
  <2>2. v \in Seq(Characters)
    BY FieldTyped
  <2>3. i \in 1 .. Len(text) /\ j \in i + 1 .. Len(text) + 1
    <3>1. j <= Len(text) + 1
      BY <1>3, <1>4, <1>5, WindowIs
    <3> QED BY <1>3, <1>5, <3>1
  <2> HIDE DEF v
  <2>4. Len(SubSeq(text, 1, i - 1) \o v \o SubSeq(text, j, Len(text))) - (i + Len(v)) < Len(text) - i
    BY <1>3, <2>2, <2>3, SubstitutionShortens
  <2> QED BY <1>5, <2>1, <2>4
<1>8. CASE Widens
  <2>1. text' = text /\ i' = i /\ j' = IF j <= Len(text) THEN j + 1 ELSE j
    BY <1>8 DEF Widens
  <2>2. CASE j <= Len(text)
    <3>1. Len(text) - (j + 1) < Len(text) - j
      BY <1>3
    <3> QED BY <2>1, <2>2, <3>1
  <2>3. CASE ~(j <= Len(text))
    BY <1>8, <2>1, <2>3 DEF Widens, formatting
  <2> QED BY <2>2, <2>3
<1> QED BY <1>1, <1>6, <1>7, <1>8

\* Utility.cpp:368: every turn of the loop leaves less of the text behind the
\* window, so there is no end of turns only at a text that is left as it is.
THEOREM TurnsCorrect == Spec => [][LeadsOn]_vars
<1>1. CInv /\ LInv /\ [Next]_vars => [LeadsOn]_vars
  <2> SUFFICES ASSUME LInv, Prints, scan' = "scan"
               PROVE  \/ Len(text') - i' < Len(text) - i
                      \/ Len(text') - i' = Len(text) - i /\ Len(text') - j' < Len(text) - j
                      \/ UNCHANGED vars
    BY DEF LeadsOn
  <2>1. FormatEventLineLog /\ UNCHANGED <<document, main, reading, starting, printer>>
    BY DEF Prints
  <2>2. UNCHANGED formatting => UNCHANGED vars
    BY <2>1 DEF vars
  <2> QED BY <2>1, <2>2, TurnShortens
<1> QED BY <1>1, CInvHolds, LInvHolds, PTL DEF Spec

\* Utility.cpp:368: the loop has no end only where a percent sign of the format
\* has no second one, whatever the fields hold.
THEOREM StuckCorrect == Spec => []StuckIfUnpaired
<1>1. LInv => StuckIfUnpaired
  <2> SUFFICES ASSUME LInv, Scanning, StartsWithPercent, j > Len(text), ~(EndsWithPercent /\ Len(Sub) > 1)
               PROVE  ~Paired(Shown(format))
    BY DEF StuckIfUnpaired
  <2> DEFINE s == Body(format)
  <2>1. s \in Seq(Characters) /\ format \in Seq(Characters) /\ Len(text) \in Nat
        /\ i \in Nat /\ j \in Nat
    BY BodyIs DEF LInv, FormatTypeOK
  <2>2. PICK c : Scanned(s, c, text, i, j)
    BY DEF LInv, FilledSoFar, Scanning
  <2> HIDE DEF s
  <2>3. /\ i <= Len(text) /\ j - i >= 1 /\ s[c + 1] = "%"
        /\ EndsWithPercent <=> s[c + (j - i)] = "%"
        /\ Len(Sub) = j - i
    BY <2>1, <2>2, TurnSees
  <2>4. ~(j <= Len(text)) /\ (j - i = 1 \/ s[c + (j - i)] # "%")
    <3>1. ~(j <= Len(text))
      BY <2>1
    <3>2. j - i = 1 \/ Len(Sub) > 1
      BY <2>1, <2>3
    <3> QED BY <2>3, <3>1, <3>2 DEF EndsWithPercent
  <2>5. ~Paired(s)
    BY <2>1, <2>2, <2>3, <2>4, ScanStuck
  <2> QED BY <2>1, <2>5, BodyPaired DEF s
<1> QED BY <1>1, LInvHolds, PTL

(***************************************************************************)
(* The types.                                                              *)
(***************************************************************************)
LEMMA LevelsKept ==
  ASSUME CInv
  PROVE  /\ \A n \in 1 .. Len(channels) : channels[n].level \in Levels
         /\ \A n \in 1 .. Len(providers) : providers[n].level \in Levels
<1>0. channels = Joined(ChannelItems(sources), Through) /\ providers = Joined(ProviderItems(sources), Through)
  BY DEF CInv, Collected
<1>1. CASE main \notin Starts
  <2>1. Through = 0
    BY <1>1 DEF Through
  <2>2. channels = <<>> /\ providers = <<>>
    BY <1>0, <2>1, JoinedNone
  <2> QED BY <2>2
<1>2. CASE main \in Starts
  <2>1. Taken /\ next \in 1 .. Len(sources) + 1
    BY <1>2 DEF CInv, Taken
  <2>2. Len(sources) \in Nat /\ \A k \in 1 .. Len(sources) : SettingsOK(sources[k])
    BY <1>2, <2>1, SourcesOK
  <2>3. Through \in Nat /\ \A k \in 1 .. Through : k \in 1 .. Len(sources)
    BY <1>2, <2>1, <2>2 DEF Through
  <2>4. PICK C, P : /\ \A k \in 1 .. Len(sources) : ChannelItems(sources)[k] \in Seq(C)
                    /\ \A k \in 1 .. Len(sources) : ProviderItems(sources)[k] \in Seq(P)
                    /\ \A c \in C \cup P : c.level \in Levels
    BY <2>2, ItemsTyped
  <2>5. \A k \in 1 .. Through : ChannelItems(sources)[k] \in Seq(C) /\ ProviderItems(sources)[k] \in Seq(P)
    BY <2>3, <2>4
  <2>6. channels \in Seq(C) /\ providers \in Seq(P)
    BY <1>0, <2>3, <2>5, JoinedTyped
  <2> QED BY <2>4, <2>6
<1> QED BY <1>1, <1>2

LEMMA PlacesTyped ==
  ASSUME CInv
  PROVE  /\ main \in {"read", "sources", "refused", "start", "start etw", "started"}
         /\ next \in 1 .. Len(document.sources) + 1
         /\ Len(sources) <= Len(document.sources) /\ \A n \in 1 .. Len(sources) : sources[n].type \in Types
         /\ logFormat \in {"JSON", "XML", "Custom"}
<1>1. /\ document \in Documents /\ main \in {"read", "sources", "refused"} \cup Starts
      /\ logFormat \in {"JSON", "XML", "Custom"}
      /\ main \notin Starts => next \in 1 .. Len(document.sources) + 1 /\ sources = Read(document, next - 1)
      /\ main \in Starts => next \in 1 .. Len(sources) + 1 /\ sources = Read(document, Len(document.sources))
  BY DEF CInv, Taken
<1>2. main \in {"read", "sources", "refused", "start", "start etw", "started"}
  BY <1>1 DEF Starts
<1> DEFINE N == Len(document.sources)
<1>3. N \in Nat
  BY <1>1, DocumentTyped
<1>4. \E m \in 0 .. N : sources = Read(document, m)
  <2>1. CASE main \in Starts
    <3>1. N \in 0 .. N /\ sources = Read(document, N)
      BY <1>1, <1>3, <2>1
    <3> QED BY <3>1
  <2>2. CASE main \notin Starts
    <3> DEFINE m == next - 1
    <3>1. m \in 0 .. N /\ sources = Read(document, m)
      BY <1>1, <1>3, <2>2
    <3> QED BY <3>1
  <2> QED BY <2>1, <2>2
<1>5. PICK m \in 0 .. N : sources = Read(document, m)
  BY <1>4
<1>6. /\ sources \in Seq(Range(Settings(document))) /\ Len(sources) <= m
      /\ \A k \in 1 .. Len(sources) : SettingsOK(sources[k])
  BY <1>1, <1>5, ReadFrom, ReadOK
<1>7. Len(sources) \in Nat /\ Len(sources) <= N
  <2>1. Len(sources) \in Nat
    BY <1>6
  <2> QED BY <1>3, <1>6, <2>1
<1>8. next \in 1 .. N + 1
  BY <1>1, <1>3, <1>7
<1>9. \A n \in 1 .. Len(sources) : sources[n].type \in Types
  BY <1>6 DEF SettingsOK
<1> QED BY <1>1, <1>2, <1>7, <1>8, <1>9

\* Configuration.tla: every value that is read or collected, and every line,
\* has its type.
THEOREM TypeCorrect == Spec => []TypeOK
<1>1. CInv /\ LInv => TypeOK
  <2> SUFFICES ASSUME CInv, LInv PROVE TypeOK
    OBVIOUS
  <2>1. \A n \in 1 .. Len(monitors) : monitors[n].kind \in Types
    BY MonitorIs DEF EventMonitorIs, EtwMonitorIs, Types
  <2>2. FormatTypeOK
    BY DEF LInv
  <2> QED BY <2>1, <2>2, LevelsKept, PlacesTyped DEF TypeOK
<1> QED BY <1>1, CInvHolds, LInvHolds, PTL

(***************************************************************************)
(* Whatever the format and the fields, every turn of the loop leads on, up *)
(* to the end of the text or to a percent sign of the format that has no   *)
(* second one (Utility.cpp:368).                                           *)
(***************************************************************************)
THEOREM LoopCorrect == Spec => LoopAdvances
<1>1. [LeadsOn]_vars /\ StuckIfUnpaired' => [LeadsOn /\ StuckIfUnpaired']_vars
  OBVIOUS
<1> QED BY <1>1, TurnsCorrect, StuckCorrect, PTL DEF LoopAdvances
=============================================================================
