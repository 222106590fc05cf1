---------------------------- MODULE MCEtwMonitor ----------------------------
EXTENDS EtwMonitor

Provider(g, n) == [guid |-> g, name |-> n]

\* By its GUID and by its name, the name twice and one that is not found; then by name only.
TwoConfigurations ==
  << <<Provider("A", None), Provider(None, "b"), Provider(None, "B"), Provider(None, "c")>>,
     <<Provider(None, "B")>> >>
OneName == [n \in {"B"} |-> "guid of B"]
FoldCase == [n \in {"b", "B", "c"} |-> IF n = "B" THEN "b" ELSE n]
SomeHabits == {{"faults", "kills", "mixed"}, {"overlap"}, {"signals", "stalls", "mixed"}}
FewEvents == [h \in SomeHabits |-> IF "overlap" \in h THEN 1 ELSE 2]
=============================================================================
