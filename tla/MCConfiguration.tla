-------------------------- MODULE MCConfiguration --------------------------
EXTENDS Configuration

Channel(name, level) == [name |-> name, level |-> level]
Provider(name, guid, level) == [name |-> name, guid |-> guid, level |-> level]
EventLog(chs, oldest, f) ==
  [type |-> "eventlog", channels |-> chs, multiLine |-> None, oldest |-> oldest, format |-> f]
File(directory, subdirectories, wait) ==
  [type |-> "file", directory |-> directory, filter |-> None, subdirectories |-> subdirectories,
   wait |-> wait, format |-> <<"text">>]
Seconds(n) == [text |-> FALSE, value |-> n]
TextOf(n) == [text |-> TRUE, value |-> n]
Etw(provs, f) == [type |-> "etw", providers |-> provs, multiLine |-> None, format |-> f]
Process(f) == [type |-> "process", format |-> f]

X == <<"%", "text", "%">>
SomeSources ==
  {NoObject, [type |-> "other"],
   EventLog(<<Channel("a", None), Channel("b", "Verbose")>>, TRUE, X),
   EventLog(<<Channel("c", "Warning")>>, None, None),
   EventLog(<<Channel("d", None), Channel("e", "bogus")>>, TRUE, X),
   EventLog(<<Channel("f", None), NoObject>>, None, X),
   EventLog(<<>>, None, X), EventLog(None, None, X),
   File("logs", TRUE, Seconds(10)), File("root", FALSE, None), File("root", TRUE, Seconds(10)),
   File("more", None, TextOf(10)),
   Etw(<<Provider("p", None, "bogus"), Provider(None, "bogus", None)>>, X),
   Etw(<<Provider(None, "valid", "Verbose")>>, None),
   Etw(<<Provider("q", None, None), NoObject>>, X), Etw(<<>>, X), Etw(None, X),
   Process(X)}

Document(shape, fmt, s) == [shape |-> shape, logFormat |-> fmt, sources |-> s]
SomeDocuments ==
  {Document("whole", "Custom", s) : s \in SeqOf(SomeSources, 3)}
    \cup {Document("whole", fmt, <<Process(X)>>) : fmt \in {None, "XML"}}
    \cup {Document(shape, "XML", <<Process(X)>>) : shape \in Shapes \ {"whole"}}
    \cup {Document("whole", "Custom", <<Process(s)>>) : s \in SeqOf({"text", "json", "%", "'", "|"}, 5)}

SomeEntry == (<<"text">> :> <<"%", "quote">>) @@ (<<"json">> :> <<"%", "text", "%">>)
=============================================================================
