--------------------------- MODULE Configuration ---------------------------
(***************************************************************************)
(* From the configuration file to the monitors and their lines: the file   *)
(* is read (JsonProcessor.cpp), each source is turned into the settings of *)
(* LoggerSettings.h or refused, StartMonitors of Main.cpp makes the        *)
(* monitors from the settings, and a monitor fills the custom format of    *)
(* its source (LineFormat).                                                *)
(*                                                                         *)
(* A document is what the JSON library makes of the file.  A source is     *)
(* a record of the values that its handler looks for; a value that is      *)
(* absent, or of a type that the handler does not take, is None.  A value  *)
(* that is no object where one is expected is NoObject.                    *)
(***************************************************************************)
EXTENDS LineFormat

CONSTANTS
  Documents,   \* the configuration files
  None,        \* a value that is absent or of another type
  NoObject     \* a string or a number in the place of an object

VARIABLES
  document,    \* the file
  main,        \* where ReadConfigFile and StartMonitors are
  next,        \* the source that is looked at
  sources,     \* Config.Sources
  logFormat,   \* Config.LogFormat
  channels, providers,            \* eventChannels and etwProviders
  eventSettings, etwSettings,     \* what the last source of a kind has set
  processFormat,                  \* processMonitorCustomFormat
  monitors,    \* the monitors whose constructors were called
  failed,      \* the places in monitors of those whose constructors threw
  printer      \* the monitor that prints a line

reading == <<next, sources, logFormat>>
starting == <<channels, providers, eventSettings, etwSettings, processFormat,
              monitors, failed>>
vars == <<document, main, reading, starting, printer, formatting>>

Levels == {"Critical", "Error", "Warning", "Information", "Verbose"}
Types == {"eventlog", "file", "etw", "process"}
Shapes == {"whole", "not parsed", "without LogConfig", "without sources"}

\* What a handler looks for in a source that it takes.
Readable(s) ==
  /\ s.type \in {"eventlog", "etw"} => s.multiLine \in BOOLEAN \cup {None}
  /\ s.type = "eventlog" =>
       /\ s.oldest \in BOOLEAN \cup {None}
       /\ s.channels # None => s.channels \in Seq(Range(s.channels))
  /\ s.type = "file" =>
       /\ s.subdirectories \in BOOLEAN \cup {None}
       /\ s.wait # None => s.wait.text \in BOOLEAN
  /\ s.type = "etw" /\ s.providers # None => s.providers \in Seq(Range(s.providers))
  /\ s.type \in Types => s.format \in Seq(Characters) \cup {None}

ASSUME ConfigurationAssumption ==
  /\ None \notin BOOLEAN
  /\ \A d \in Documents :
       /\ d.shape \in Shapes /\ d.logFormat \in {None, "JSON", "XML", "Custom"}
       /\ d.sources \in Seq(Range(d.sources))
       /\ \A n \in 1 .. Len(d.sources) : d.sources[n] # NoObject => Readable(d.sources[n])

Init ==
  /\ document \in Documents /\ main = "read"
  /\ next = 1 /\ sources = <<>> /\ logFormat = "JSON"
  /\ channels = <<>> /\ providers = <<>> /\ monitors = <<>> /\ failed = {}
  /\ printer = None
  /\ eventSettings = [multiLine |-> FALSE, oldest |-> FALSE, format |-> <<>>]
  /\ etwSettings = [multiLine |-> FALSE, format |-> <<>>]
  /\ processFormat = <<>>
  /\ FormatInit

Or(value, default) == IF value = None THEN default ELSE value
-----------------------------------------------------------------------------
(***************************************************************************)
(* ReadConfigFile and processLogConfig.                                    *)
(***************************************************************************)
ReadsDocument ==
  /\ main = "read" /\ document.shape = "whole"
  /\ main' = "sources" /\ logFormat' = Or(document.logFormat, "JSON")
  /\ UNCHANGED <<document, next, sources, starting, printer, formatting>>

RefusesDocument ==
  /\ main = "read" /\ document.shape # "whole"
  /\ main' = "refused"
  /\ logFormat' = IF document.shape = "without sources" THEN Or(document.logFormat, "JSON") ELSE logFormat
  /\ UNCHANGED <<document, next, sources, starting, printer, formatting>>

Looking == main = "sources" /\ next <= Len(document.sources)
Source == document.sources[next]
OfType(type) == Looking /\ Source # NoObject /\ Source.type = type

Accepts(settings) ==
  /\ sources' = Append(sources, settings)
  /\ next' = next + 1 /\ main' = main
  /\ UNCHANGED <<document, logFormat, starting, printer, formatting>>

Refuses ==
  /\ next' = next + 1 /\ main' = main
  /\ UNCHANGED <<document, sources, logFormat, starting, printer, formatting>>

\* No object, no type or an unknown one.
SkipsSource ==
  /\ Looking
  /\ Source # NoObject => Source.type \notin Types
  /\ Refuses

(***************************************************************************)
(* handleEventLog.  A channel that is no object throws, which is caught    *)
(* here; one without a name is taken.                                      *)
(***************************************************************************)
\* A mistake: a level that is none is taken.
MutValidChannel(c) == c # NoObject

ValidChannel(c) == c # NoObject /\ c.level \in Levels \cup {None}
ChannelOf(c) == [name |-> Or(c.name, ""), level |-> Or(c.level, "Error")]

EventSource(s) ==
  [type |-> "eventlog", channels |-> [n \in 1 .. Len(s.channels) |-> ChannelOf(s.channels[n])],
   multiLine |-> Or(s.multiLine, TRUE), oldest |-> Or(s.oldest, FALSE), format |-> Or(s.format, <<>>)]

HandlesEventLog ==
  /\ OfType("eventlog")
  /\ IF Source.channels # None /\ \A n \in 1 .. Len(Source.channels) : ValidChannel(Source.channels[n])
     THEN Accepts(EventSource(Source))
     ELSE Refuses

(***************************************************************************)
(* handleFileLog.  ParseDirectoryValue and CheckIsRootFolder: a directory  *)
(* is a drive ("root"), a path or nothing.  A wait is given as a number or *)
(* as a string (text), and only a number is looked at.                     *)
(***************************************************************************)
WaitOf(s) == IF s.wait # None /\ ~s.wait.text THEN s.wait.value ELSE 300

FileSource(s) ==
  [type |-> "file", directory |-> Or(s.directory, ""), filter |-> Or(s.filter, ""),
   subdirectories |-> Or(s.subdirectories, FALSE), wait |-> WaitOf(s), format |-> Or(s.format, <<>>)]

IsValidSourceFile(s) == ~(s.directory = "root" /\ Or(s.subdirectories, FALSE))

HandlesFile ==
  /\ OfType("file")
  /\ IF IsValidSourceFile(Source)
     THEN Accepts(FileSource(Source))
     ELSE Refuses

(***************************************************************************)
(* handleETWLog.  A provider without a name and a GUID is discarded, a     *)
(* level that is none is replaced.  A provider that is no object throws,   *)
(* and only ReadConfigFile catches it.                                     *)
(***************************************************************************)
IsValidProvider(p) == p.name # None \/ p.guid = "valid"
ProviderOf(p) ==
  [name |-> Or(p.name, ""), guid |-> IF p.guid = "valid" THEN "valid" ELSE "",
   level |-> IF p.level \in Levels THEN p.level ELSE "Error"]

ETWSource(s) ==
  LET valid == Selected(s.providers, {k \in 1 .. Len(s.providers) : IsValidProvider(s.providers[k])}) IN
  [type |-> "etw", providers |-> [n \in 1 .. Len(valid) |-> ProviderOf(valid[n])],
   multiLine |-> Or(s.multiLine, FALSE), format |-> Or(s.format, <<>>)]

HasNoObject(s) == s.providers # None /\ Contains(s.providers, NoObject)

HandlesETW ==
  /\ OfType("etw") /\ ~HasNoObject(Source)
  /\ IF Source.providers = None
     THEN Refuses
     ELSE Accepts(ETWSource(Source))

ETWThrows ==
  /\ OfType("etw") /\ HasNoObject(Source)
  /\ main' = "refused"
  /\ UNCHANGED <<document, next, sources, logFormat, starting, printer, formatting>>

HandlesProcess ==
  /\ OfType("process")
  /\ Accepts([type |-> "process", format |-> Or(Source.format, <<>>)])

SourcesEnd ==
  /\ main = "sources" /\ next > Len(document.sources)
  /\ main' = "start" /\ next' = 1
  /\ UNCHANGED <<document, sources, logFormat, starting, printer, formatting>>

ReadConfigFile ==
  \/ ReadsDocument \/ RefusesDocument \/ SkipsSource \/ HandlesEventLog \/ HandlesFile
  \/ HandlesETW \/ ETWThrows \/ HandlesProcess \/ SourcesEnd

-----------------------------------------------------------------------------
(***************************************************************************)
(* StartMonitors.  Channels and providers are collected and watched by one *)
(* monitor, with the settings of the last source; each file source has its *)
(* own monitor.  A constructor that throws is noted, and the next follows. *)
(***************************************************************************)
Starting(type) == main = "start" /\ next <= Len(sources) /\ sources[next].type = type
Started == sources[next]

\* A mistake: the settings of the first source are kept.
MutInitializeEventLogMonitor ==
  /\ Starting("eventlog")
  /\ channels' = channels \o Started.channels
  /\ eventSettings' = IF channels # <<>> THEN eventSettings
                      ELSE [multiLine |-> Started.multiLine, oldest |-> Started.oldest, format |-> Started.format]
  /\ next' = next + 1
  /\ UNCHANGED <<document, main, sources, logFormat, providers, etwSettings, processFormat,
                 monitors, failed, printer, formatting>>

InitializeEventLogMonitor ==
  /\ Starting("eventlog")
  /\ channels' = channels \o Started.channels
  /\ eventSettings' = [multiLine |-> Started.multiLine, oldest |-> Started.oldest, format |-> Started.format]
  /\ next' = next + 1
  /\ UNCHANGED <<document, main, sources, logFormat, providers, etwSettings, processFormat,
                 monitors, failed, printer, formatting>>

InitializeEtwMonitor ==
  /\ Starting("etw")
  /\ providers' = providers \o Started.providers
  /\ etwSettings' = [multiLine |-> Started.multiLine, format |-> Started.format]
  /\ next' = next + 1
  /\ UNCHANGED <<document, main, sources, logFormat, channels, eventSettings, processFormat,
                 monitors, failed, printer, formatting>>

InitializeProcessMonitor ==
  /\ Starting("process")
  /\ processFormat' = Started.format
  /\ next' = next + 1
  /\ UNCHANGED <<document, main, sources, logFormat, channels, providers, eventSettings,
                 etwSettings, monitors, failed, printer, formatting>>

\* The constructor of one more monitor is called, and may throw.
Creates(monitor) ==
  /\ monitors' = Append(monitors, monitor)
  /\ failed' \in {failed, failed \cup {Len(monitors) + 1}}
CreatesNone == UNCHANGED <<monitors, failed>>

InitializeFileMonitor ==
  /\ Starting("file")
  /\ Creates([kind |-> "file", source |-> Started, format |-> Started.format])
  /\ next' = next + 1
  /\ UNCHANGED <<document, main, sources, logFormat, channels, providers, eventSettings,
                 etwSettings, processFormat, printer, formatting>>

CreateEventMonitor ==
  /\ main = "start" /\ next > Len(sources)
  /\ main' = "start etw"
  /\ IF channels = <<>> THEN CreatesNone
     ELSE Creates([kind |-> "eventlog", channels |-> channels, multiLine |-> eventSettings.multiLine,
                   oldest |-> eventSettings.oldest, format |-> eventSettings.format])
  /\ UNCHANGED <<document, reading, channels, providers, eventSettings, etwSettings, processFormat,
                 printer, formatting>>

CreateEtwMonitor ==
  /\ main = "start etw"
  /\ main' = "started"
  /\ IF providers = <<>> THEN CreatesNone
     ELSE Creates([kind |-> "etw", providers |-> providers, format |-> etwSettings.format])
  /\ UNCHANGED <<document, reading, channels, providers, eventSettings, etwSettings, processFormat,
                 printer, formatting>>

StartMonitors ==
  \/ InitializeEventLogMonitor \/ InitializeEtwMonitor \/ InitializeProcessMonitor
  \/ InitializeFileMonitor \/ CreateEventMonitor \/ CreateEtwMonitor

-----------------------------------------------------------------------------
(***************************************************************************)
(* A monitor prints a line as soon as it is there; the reader of the child *)
(* (FormatProcessLog) does when all are started.  Only a custom format is  *)
(* looked at.                                                              *)
(***************************************************************************)
ProcessPrints ==
  /\ main = "started" /\ logFormat = "Custom" /\ printer = None
  /\ printer' = [kind |-> "process"] /\ Formats(processFormat)
  /\ UNCHANGED <<document, main, reading, starting>>

MonitorPrints(n) ==
  /\ n \notin failed
  /\ logFormat = "Custom" /\ printer = None
  /\ printer' = monitors[n] /\ Formats(monitors[n].format)
  /\ UNCHANGED <<document, main, reading, starting>>

Prints == FormatEventLineLog /\ UNCHANGED <<document, main, reading, starting, printer>>

Main == ReadConfigFile \/ StartMonitors
Lines == ProcessPrints \/ (\E n \in 1 .. Len(monitors) : MonitorPrints(n)) \/ Prints
Next == Main \/ Lines
Spec == Init /\ [][Next]_vars
\* The main thread and that of a monitor are scheduled.
FairSpec == Spec /\ WF_vars(Main) /\ WF_vars(Prints)
-----------------------------------------------------------------------------

(***************************************************************************)
(* What the values of the document ask for.                                *)
(***************************************************************************)
GoodSource(s) ==
  /\ s # NoObject
  /\ \/ /\ s.type = "eventlog" /\ s.channels # None
        /\ \A n \in 1 .. Len(s.channels) :
             s.channels[n] # NoObject
               /\ (s.channels[n].level = None \/ s.channels[n].level \in Levels)
     \/ s.type = "file" /\ ~(s.directory = "root" /\ s.subdirectories = TRUE)
     \/ s.type = "etw" /\ s.providers # None
     \/ s.type = "process"
GoodAt(type) ==
  {n \in 1 .. Len(document.sources) :
     GoodSource(document.sources[n]) /\ document.sources[n].type = type}
LastGood(type) == document.sources[Max(GoodAt(type))]
OfSources(I, Items(_)) ==
  Joined([n \in 1 .. Len(document.sources) |->
            IF n \in I THEN Items(document.sources[n]) ELSE <<>>], Len(document.sources))

FormatAsked(s) == IF s.format = None THEN <<>> ELSE s.format
ChannelsAsked(s) ==
  [n \in 1 .. Len(s.channels) |->
     [name |-> IF s.channels[n].name = None THEN "" ELSE s.channels[n].name,
      level |-> IF s.channels[n].level = None THEN "Error" ELSE s.channels[n].level]]
ProvidersAsked(s) ==
  LET named == {n \in 1 .. Len(s.providers) :
                  s.providers[n].name # None \/ s.providers[n].guid = "valid"}
      kept == Selected(s.providers, named)
  IN [n \in 1 .. Len(kept) |-> ProviderOf(kept[n])]

\* The wait is that of docs/README.md:252, a number or a string.
WaitAsked(s) == IF s.wait = None THEN 300 ELSE s.wait.value
IsText(wait) == wait # None /\ wait.text

\* Of a wait given as a string nothing is said here, but in StartedAsDocumented.
FileAsked(s) ==
  [type |-> "file",
   directory |-> IF s.directory = None THEN "" ELSE s.directory,
   filter |-> IF s.filter = None THEN "" ELSE s.filter,
   subdirectories |-> s.subdirectories = TRUE,
   wait |-> IF IsText(s.wait) THEN WaitOf(s) ELSE WaitAsked(s),
   format |-> FormatAsked(s)]

MonitorsAsked ==
  LET files == OfSources(GoodAt("file"),
                 LAMBDA s : <<[kind |-> "file", source |-> FileAsked(s), format |-> FormatAsked(s)]>>)
      watched == OfSources(GoodAt("eventlog"), ChannelsAsked)
      provided == OfSources(GoodAt("etw"), ProvidersAsked)
  IN files
     \o (IF watched = <<>> THEN <<>>
         ELSE <<[kind |-> "eventlog", channels |-> watched,
                 multiLine |-> LastGood("eventlog").multiLine # FALSE,
                 oldest |-> LastGood("eventlog").oldest = TRUE,
                 format |-> FormatAsked(LastGood("eventlog"))]>>)
     \o (IF provided = <<>> THEN <<>>
         ELSE <<[kind |-> "etw", providers |-> provided, format |-> FormatAsked(LastGood("etw"))]>>)

(***************************************************************************)
(* Types.                                                                  *)
(***************************************************************************)
TypeOK ==
  /\ FormatTypeOK
  /\ main \in {"read", "sources", "refused", "start", "start etw", "started"}
  /\ next \in 1 .. Len(document.sources) + 1
  /\ Len(sources) <= Len(document.sources) /\ \A n \in 1 .. Len(sources) : sources[n].type \in Types
  /\ logFormat \in {"JSON", "XML", "Custom"}
  /\ \A n \in 1 .. Len(channels) : channels[n].level \in Levels
  /\ \A n \in 1 .. Len(providers) : providers[n].level \in Levels
  /\ \A n \in 1 .. Len(monitors) : monitors[n].kind \in Types

(***************************************************************************)
(* Exactly the monitors that the good sources ask for are started, each    *)
(* with its settings, whatever stands between these: a source that is      *)
(* refused leaves nothing of itself behind and takes no other one with it, *)
(* the channels (and the providers) of all sources are watched by one      *)
(* monitor, in their order, with the flags of the last one, and a          *)
(* constructor that throws keeps no other from being called.  None is      *)
(* started before the document is read, and a document that was parsed is  *)
(* refused for a provider that is no object only (StartedAsDocumented).    *)
(***************************************************************************)
StartedAsConfigured ==
  /\ main \notin {"start", "start etw", "started"} => monitors = <<>>
  /\ main = "refused" =>
       \/ document.shape # "whole"
       \/ \E n \in GoodAt("etw") : HasNoObject(document.sources[n])
  /\ main = "started" => monitors = MonitorsAsked

(***************************************************************************)
(* JsonProcessor.cpp:443-446: invalid entries are logged and skipped so    *)
(* that well-formed sources can still start.  docs/README.md:252: a wait   *)
(* can be passed as a value or a string.  So for each good file source of  *)
(* a document that was parsed there is a monitor, which waits as long as   *)
(* is asked, whatever else is in the document.  But a provider that is no  *)
(* object has all of it refused, and a string is passed over.              *)
(***************************************************************************)
StartedAsDocumented ==
  document.shape = "whole" /\ main \in {"refused", "started"} =>
    \A n \in GoodAt("file") : \E k \in 1 .. Len(monitors) :
      monitors[k].kind = "file" /\ monitors[k].source.wait = WaitAsked(document.sources[n])

FormatOfPrinter ==
  IF printer.kind = "file" THEN printer.source.format
  ELSE IF GoodAt(printer.kind) = {} THEN <<>>
  ELSE FormatAsked(LastGood(printer.kind))

(***************************************************************************)
(* The line that is printed is the format of the source with its fields    *)
(* filled in, each once: what the fields hold, percent signs included, is  *)
(* not looked at again.  Where several sources share a monitor, the format *)
(* is that of the last one.                                                *)
(***************************************************************************)
LineFollowsFormat ==
  scan = "done" => Paired(Shown(FormatOfPrinter)) /\ text = Wanted(FormatOfPrinter)

\* A turn that leaves less of the text behind the window's beginning, or as much of it and less
\* behind the window's end.
LeadsOn ==
  Prints /\ scan' = "scan" =>
    \/ Len(text') - i' < Len(text) - i
    \/ Len(text') - i' = Len(text) - i /\ Len(text') - j' < Len(text) - j

\* A window at the end of the text that goes round without an end is at a percent sign that the
\* format has no second one for.
StuckIfUnpaired ==
  Scanning /\ StartsWithPercent /\ j > Len(text) =>
    \/ EndsWithPercent /\ Len(Sub) > 1
    \/ ~Paired(Shown(format))

(***************************************************************************)
(* Of the loop's turns (Utility.cpp:368), each that changes anything leads *)
(* on, whatever the fields hold, and none comes to a window that goes      *)
(* round without an end but at an unpaired percent sign of the format: the *)
(* values of fields have no part in that.  FormattingEnds rests on it.     *)
(***************************************************************************)
LoopAdvances == [][LeadsOn /\ StuckIfUnpaired']_vars

(***************************************************************************)
(* A line is printed in the end if the percent signs of its format come in *)
(* pairs, whatever the fields hold.  The loop does not end otherwise.      *)
(***************************************************************************)
FormattingEnds == scan = "scan" /\ Paired(Shown(format)) ~> scan = "done"
=============================================================================
