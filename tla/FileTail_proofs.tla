--------------------------- MODULE FileTail_proofs ---------------------------
(***************************************************************************)
(* Proofs of the invariants of FileTail, for any number of files, lines    *)
(* and operations of the applications, any short names and any filter: the *)
(* types; that a file id leads to the name its file is tracked under; and  *)
(* that the lines of a file are printed one after the other.               *)
(*                                                                         *)
(* The last two are not inductive.  What the handler does with a name is   *)
(* right because of what the directory, the maps, its task and the         *)
(* notifications still to come say of the same name: Links and Order.      *)
(***************************************************************************)
EXTENDS FileTail, Selections_proofs, TLAPS

(***************************************************************************)
(* The type invariant by parts.                                            *)
(***************************************************************************)
OsOK ==
  /\ dir \in [Name -> File \cup {None}] /\ folder \in Folder
  /\ lines \in [File -> 0 .. MaxLines] /\ born \in 0 .. MaxFiles
  /\ locked \subseteq File /\ taken \subseteq Name
  /\ habit \in Habits /\ ops \in 0 .. MaxOps

Records == [action : Action, path : FilePath \cup FolderPath]
Events == [action : Action, path : FilePath \cup FolderPath, time : 1 .. MaxClock]
          \cup [action : {"ReInit"}, path : {<<>>}, time : 1 .. MaxClock]

ThreadsOK ==
  /\ clock \in 1 .. MaxClock /\ kernel \in Seq(Records) /\ queue \in Seq(Events)
  /\ phase \in {"new", "scanned", "registered", "running"} /\ fromStart \in BOOLEAN

Adds == [does : {"add"}, name : Name, short : FilePath, id : Id]
Folders == [does : {"folder"}, todo : SUBSET [name : Name, id : Id]]

TaskOK == task = Idle \/ task \in Adds \/ task \in Folders

MapsOK ==
  /\ info \in [Name -> Info \cup {None}]
  /\ longPaths \in [FilePath -> Name \cup {None}]
  /\ fileIds \in [Id -> Name \cup {None}]

PrintedOK == printed \in [File -> Seq(1 .. MaxLines)]

HistoryOK ==
  /\ skipped \in [File -> 0 .. MaxLines] /\ overlooked \subseteq File
  /\ renamedAway \subseteq File /\ unidentified \in BOOLEAN /\ reinited \in BOOLEAN

LEMMA TypeParts ==
  TypeOK <=> OsOK /\ ThreadsOK /\ TaskOK /\ MapsOK /\ PrintedOK /\ HistoryOK
  BY DEF TypeOK, OsOK, ThreadsOK, Records, Events, TaskOK, Adds, Folders, MapsOK, PrintedOK,
         HistoryOK

LEMMA PartsType ==
  OsOK' /\ ThreadsOK' /\ TaskOK' /\ MapsOK' /\ PrintedOK' /\ HistoryOK' => TypeOK'
  BY TypeParts, PTL

-----------------------------------------------------------------------------
(***************************************************************************)
(* What the bounds and the paths are.                                      *)
(***************************************************************************)
LEMMA Constants ==
  /\ MaxFiles \in Nat /\ MaxFiles > 0 /\ MaxLines \in Nat /\ MaxLines > 0
  /\ MaxOps \in Nat /\ MaxClock \in Nat /\ MaxClock > 0
  BY FileTailAssumption

LEMMA Paths ==
  /\ Name \subseteq FilePath /\ None \notin Name
  /\ \A n \in Name : Short[n] \in FilePath /\ ShortPath(n) \in FilePath
  /\ \A d \in Folder : <<d>> \in FolderPath
  BY FileTailAssumption DEF FilePath, FolderPath, ShortPath

LEMMA NamesFinite == IsFiniteSet(Name)
  BY FileTailAssumption, FS_Product DEF Name

LEMMA LookUpIs ==
  ASSUME MapsOK, NEW path
  PROVE  LookUp(path) # None => LookUp(path) \in Name /\ info[LookUp(path)] \in Info
<1>1. \A p : Tracked(p) => p \in Name /\ info[p] \in Info
  BY DEF Tracked, MapsOK
<1> QED BY <1>1 DEF LookUp

LEMMA FileIs ==
  ASSUME OsOK, NEW n \in Name
  PROVE  /\ Exists(n) => dir[n] \in File /\ lines[dir[n]] \in 0 .. MaxLines
         /\ CanOpen(n) => Exists(n)
         /\ FileId(n) \in Id
<1>1. Exists(n) => dir[n] \in File
  BY DEF OsOK, Exists
<1> QED BY <1>1 DEF OsOK, CanOpen, FileId, Id

LEMMA ModifiedTyped ==
  ASSUME ThreadsOK, NEW T, T \subseteq Name
  PROVE  SetToSeq({Modified(n) : n \in T}) \in Seq(Events)
<1> DEFINE S == {Modified(n) : n \in T}
           g == [n \in T |-> Modified(n)]
<1>1. IsFiniteSet(T)
  BY NamesFinite, FS_Subset
<1>2. g \in Surjection(T, S)
  BY DEF Surjection
<1>3. IsFiniteSet(S)
  <2> HIDE DEF g, S
  <2> QED BY <1>1, <1>2, FS_Surjection
<1>4. S \subseteq Events
  BY Paths DEF Modified, Events, ThreadsOK, Action
<1>5. \A s \in Seq(S) : s \in Seq(Events)
  <2> HIDE DEF S
  <2> QED BY <1>4
<1> HIDE DEF S
<1>6. SetToSeq(S) \in Seq(Events)
  BY <1>3, <1>5, SetToSeqTyped
<1> QED BY <1>6 DEF S

-----------------------------------------------------------------------------
(***************************************************************************)
(* Reading files, and the changes of the maps.                             *)
(***************************************************************************)
LEMMA LinesTyped ==
  ASSUME NEW from \in Nat, NEW end \in 0 .. MaxLines
  PROVE  LinesAfter(from, end) \in Seq(1 .. MaxLines)
<1>1. CASE end <= from
  <2>1. 1 .. end - from = {}
    BY <1>1, Constants
  <2>2. LinesAfter(from, end) = [i \in 1 .. 0 |-> from + i]
    BY <2>1 DEF LinesAfter
  <2> QED BY <2>2
<1>2. CASE from < end
  <2>1. end - from \in Nat /\ \A i \in 1 .. end - from : from + i \in 1 .. MaxLines
    BY <1>2, Constants
  <2> QED BY <2>1 DEF LinesAfter
<1> QED BY <1>1, <1>2, Constants

LEMMA ReadTyped ==
  ASSUME OsOK, PrintedOK, clock \in 1 .. MaxClock, NEW S, S \subseteq Name,
         NEW known, known \in [Name -> Info \cup {None}], \A n \in S : known[n] \in Info,
         ReadLogFiles(S, known)
  PROVE  info' \in [Name -> Info \cup {None}] /\ PrintedOK'
<1>1. \A n \in S : known[n].offset \in 0 .. MaxLines
  BY DEF Info
<1>2. info' \in [Name -> Info \cup {None}]
  <2>1. \A n \in Name :
          (IF n \in S /\ CanOpen(n)
           THEN [offset |-> IF lines[dir[n]] > known[n].offset THEN lines[dir[n]]
                            ELSE known[n].offset,
                 lastRead |-> clock]
           ELSE known[n]) \in Info \cup {None}
    <3> SUFFICES ASSUME NEW n \in Name, n \in S, CanOpen(n)
                 PROVE  [offset |-> IF lines[dir[n]] > known[n].offset THEN lines[dir[n]]
                                    ELSE known[n].offset,
                         lastRead |-> clock] \in Info
      OBVIOUS
    <3>1. lines[dir[n]] \in 0 .. MaxLines /\ known[n].offset \in 0 .. MaxLines
      BY <1>1, FileIs
    <3>2. clock \in 0 .. MaxClock
      BY Constants
    <3> QED BY <3>1, <3>2 DEF Info
  <2> QED BY <2>1 DEF ReadLogFiles
<1>3. printed' \in [File -> Seq(1 .. MaxLines)]
  <2> DEFINE R(f) == {n \in S : CanOpen(n) /\ dir[n] = f}
             from(f) == known[CHOOSE n \in R(f) : TRUE].offset
             new(f) == IF \E n \in R(f) : known[n].offset < lines[f]
                       THEN printed[f] \o LinesAfter(from(f), lines[f])
                       ELSE printed[f]
  <2>1. printed' = [f \in File |-> new(f)]
    BY DEF ReadLogFiles
  <2>2. \A f \in File : new(f) \in Seq(1 .. MaxLines)
    <3> SUFFICES ASSUME NEW f \in File, \E n \in R(f) : TRUE
                 PROVE  printed[f] \o LinesAfter(from(f), lines[f]) \in Seq(1 .. MaxLines)
      BY DEF PrintedOK
    <3>1. from(f) \in Nat
      <4>1. (CHOOSE n \in R(f) : TRUE) \in S
        OBVIOUS
      <4> QED BY <1>1, <4>1, Constants
    <3>2. lines[f] \in 0 .. MaxLines
      BY DEF OsOK
    <3> HIDE DEF from
    <3>3. LinesAfter(from(f), lines[f]) \in Seq(1 .. MaxLines)
      BY <3>1, <3>2, LinesTyped
    <3>4. printed[f] \in Seq(1 .. MaxLines)
      BY DEF PrintedOK
    <3> DEFINE t == LinesAfter(from(f), lines[f])
               A == 1 .. MaxLines
    <3>5. t \in Seq(A) /\ printed[f] \in Seq(A)
      BY <3>3, <3>4
    <3> HIDE DEF t, A
    <3>6. printed[f] \o t \in Seq(A)
      BY <3>5
    <3> QED BY <3>6 DEF t, A
  <2> HIDE DEF new
  <2> QED BY <2>1, <2>2
<1> QED BY <1>2, <1>3 DEF PrintedOK

LEMMA TrackTyped ==
  ASSUME MapsOK, HistoryOK, NEW S, S \subseteq Name, NEW id, TrackNames(S, id)
  PROVE  /\ longPaths' \in [FilePath -> Name \cup {None}]
         /\ fileIds' \in [Id -> Name \cup {None}] /\ unidentified' \in BOOLEAN
<1>1. longPaths' \in [FilePath -> Name \cup {None}]
  BY DEF TrackNames, MapsOK
<1>2. fileIds' \in [Id -> Name \cup {None}]
  <2> DEFINE zeroed == {n \in S : id[n] = NoId}
  <2>1. PICK last \in (IF zeroed = {} THEN {fileIds[NoId]} ELSE zeroed) :
          fileIds' = [i \in DOMAIN fileIds |->
            IF i = NoId THEN last
            ELSE IF \E n \in S : id[n] = i THEN CHOOSE n \in S : id[n] = i
            ELSE fileIds[i]]
    BY DEF TrackNames
  <2>2. last \in Name \cup {None} /\ DOMAIN fileIds = Id
    BY DEF MapsOK, Id
  <2> QED BY <2>1, <2>2 DEF MapsOK
<1>3. unidentified' \in BOOLEAN
  BY DEF TrackNames
<1> QED BY <1>1, <1>2, <1>3

LEMMA ForgetTyped ==
  ASSUME MapsOK, NEW path, Forget(path)
  PROVE  MapsOK'
<1>1. CASE LookUp(path) = None
  BY <1>1 DEF Forget, mapVars, MapsOK
<1>2. CASE LookUp(path) # None
  <2> DEFINE n == LookUp(path)
             ids == {i \in DOMAIN fileIds : fileIds[i] = n}
             keys == IF Tracked(path) THEN {path} ELSE {p \in FilePath : longPaths[p] = n}
  <2>1. info' = [info EXCEPT ![n] = None]
    BY <1>2 DEF Forget
  <2>2. longPaths' = [p \in FilePath |-> IF p \in keys THEN None ELSE longPaths[p]]
    BY <1>2 DEF Forget
  <2>3. \E gone \in ids \cup (IF ids = {} THEN {NoId} ELSE {}) :
          fileIds' = [fileIds EXCEPT ![gone] = IF @ = n THEN None ELSE @]
    BY <1>2 DEF Forget
  <2> HIDE DEF n, keys
  <2> QED BY <2>1, <2>2, <2>3 DEF MapsOK
<1> QED BY <1>1, <1>2

LEMMA RenameTyped ==
  ASSUME MapsOK, NEW new \in Name, NEW id \in Id, RenameInMaps(new, id)
  PROVE  MapsOK'
<1> DEFINE n == LookUp(fileIds[id])
<1>1. n # None => n \in Name /\ info[n] \in Info
  BY LookUpIs
<1> DEFINE keys == IF longPaths[fileIds[id]] # None THEN {fileIds[id]}
                   ELSE {p \in FilePath : longPaths[p] = fileIds[id]}
<1>2. /\ info' = [m \in Name |-> IF m = new THEN IF n = None THEN NeverRead ELSE info[n]
                                 ELSE IF m = n THEN None ELSE info[m]]
      /\ longPaths' = [p \in FilePath |-> IF p = ShortPath(new) THEN new
                                          ELSE IF p \in keys THEN None ELSE longPaths[p]]
      /\ fileIds' = [fileIds EXCEPT ![id] = new]
  BY DEF RenameInMaps
<1>3. NeverRead \in Info
  BY Constants DEF NeverRead, Info
<1> HIDE DEF n, keys
<1> QED BY <1>1, <1>2, <1>3 DEF MapsOK

-----------------------------------------------------------------------------
(***************************************************************************)
(* The applications change the files and report it.                        *)
(***************************************************************************)
LEMMA ReportTyped ==
  ASSUME TypeOK, NEW r \in Seq(Records), Report(r)
  PROVE  /\ ops' \in 0 .. MaxOps /\ habit' \in Habits
         /\ ThreadsOK' /\ TaskOK' /\ MapsOK' /\ PrintedOK'
<1>1. OsOK /\ ThreadsOK /\ TaskOK /\ MapsOK /\ PrintedOK
  BY TypeParts
<1>2. UNCHANGED <<clock, phase, fromStart, queue, task, mapVars, printed, habit>>
      /\ kernel' \in {kernel, kernel \o r} /\ ops < MaxOps /\ ops' = ops + 1
  BY DEF Report
<1>3. ops' \in 0 .. MaxOps /\ habit' \in Habits
  BY <1>1, <1>2, Constants DEF OsOK
<1>4. ThreadsOK'
  <2>1. kernel' \in Seq(Records)
    <3>1. kernel \in Seq(Records)
      BY <1>1 DEF ThreadsOK
    <3>2. kernel \o r \in Seq(Records)
      BY <3>1
    <3> QED BY <1>2, <3>1, <3>2
  <2> QED BY <1>1, <1>2, <2>1 DEF ThreadsOK
<1>5. TaskOK'
  BY <1>1, <1>2 DEF TaskOK
<1>6. MapsOK' /\ PrintedOK'
  BY <1>1, <1>2 DEF MapsOK, PrintedOK, mapVars
<1> QED BY <1>3, <1>4, <1>5, <1>6

LEMMA RecordTyped ==
  ASSUME NEW action \in Action, NEW path, path \in FilePath \cup FolderPath
  PROVE  <<Record(action, path)>> \in Seq(Records)
  BY DEF Record, Records

LEMMA ReportedIs ==
  ASSUME NEW n \in Name
  PROVE  Reported(n) \in FilePath \cup FolderPath
  BY Paths DEF Reported

LEMMA CreateTyped ==
  ASSUME TypeOK, NEW n \in Name, Create(n)
  PROVE  TypeOK'
<1>1. OsOK /\ HistoryOK
  BY TypeParts
<1>2. PICK r \in Seq(Records) : Report(r)
  BY ReportedIs, RecordTyped DEF Create, Action
<1>3. /\ ops' \in 0 .. MaxOps /\ habit' \in Habits
      /\ ThreadsOK' /\ TaskOK' /\ MapsOK' /\ PrintedOK'
  BY <1>2, ReportTyped
<1>4. /\ born' = born + 1 /\ born' \in File /\ dir' = [dir EXCEPT ![n] = born']
      /\ taken' = taken \cup {n} /\ UNCHANGED <<folder, lines, locked>>
      /\ UNCHANGED <<skipped, overlooked, unidentified, reinited>> /\ Leaves(born', n)
  BY <1>1, Constants DEF Create, OsOK, File
<1>5. OsOK'
  BY <1>1, <1>3, <1>4, Constants DEF OsOK, File
<1>6. HistoryOK'
  BY <1>1, <1>4 DEF HistoryOK, Leaves
<1> QED BY <1>3, <1>5, <1>6, PartsType

LEMMA AppendTyped ==
  ASSUME TypeOK, NEW n \in Name, AppendLine(n)
  PROVE  TypeOK'
<1>1. OsOK /\ HistoryOK
  BY TypeParts
<1>2. PICK r \in Seq(Records) : Report(r)
  BY ReportedIs, RecordTyped DEF AppendLine, Action
<1>3. /\ ops' \in 0 .. MaxOps /\ habit' \in Habits
      /\ ThreadsOK' /\ TaskOK' /\ MapsOK' /\ PrintedOK'
  BY <1>2, ReportTyped
<1>4. /\ dir[n] \in File /\ lines[dir[n]] + 1 \in 0 .. MaxLines
      /\ lines' = [lines EXCEPT ![dir[n]] = lines[dir[n]] + 1]
      /\ UNCHANGED <<dir, folder, born, locked, taken, history>>
  BY <1>1, FileIs, Constants DEF AppendLine
<1>5. OsOK'
  BY <1>1, <1>3, <1>4 DEF OsOK
<1>6. HistoryOK'
  BY <1>1, <1>4 DEF HistoryOK, history
<1> QED BY <1>3, <1>5, <1>6, PartsType

LEMMA DeleteTyped ==
  ASSUME TypeOK, NEW n \in Name, Delete(n)
  PROVE  TypeOK'
<1>1. OsOK /\ HistoryOK
  BY TypeParts
<1>2. PICK r \in Seq(Records) : Report(r)
  BY ReportedIs, RecordTyped DEF Delete, Action
<1>3. /\ ops' \in 0 .. MaxOps /\ habit' \in Habits
      /\ ThreadsOK' /\ TaskOK' /\ MapsOK' /\ PrintedOK'
  BY <1>2, ReportTyped
<1>4. /\ dir' = [dir EXCEPT ![n] = None] /\ taken' \subseteq taken
      /\ UNCHANGED <<folder, lines, born, locked, history>>
  BY DEF Delete
<1>5. OsOK'
  BY <1>1, <1>3, <1>4 DEF OsOK
<1>6. HistoryOK'
  BY <1>1, <1>4 DEF HistoryOK, history
<1> QED BY <1>3, <1>5, <1>6, PartsType

LEMMA RenameFileTyped ==
  ASSUME TypeOK, NEW n \in Name, NEW m \in Name, Rename(n, m)
  PROVE  TypeOK'
<1>1. OsOK /\ HistoryOK
  BY TypeParts
<1>2. PICK r \in Seq(Records) : Report(r)
  BY ReportedIs, RecordTyped DEF Rename, Action
<1>3. /\ ops' \in 0 .. MaxOps /\ habit' \in Habits
      /\ ThreadsOK' /\ TaskOK' /\ MapsOK' /\ PrintedOK'
  BY <1>2, ReportTyped
<1>4. /\ dir' = [dir EXCEPT ![n] = None, ![m] = dir[n]] /\ dir[n] \in File
      /\ taken' = taken \cup {m} /\ UNCHANGED <<folder, lines, born, locked>>
      /\ UNCHANGED <<skipped, overlooked, unidentified, reinited>> /\ Leaves(dir[n], m)
  BY <1>1, FileIs DEF Rename
<1>5. OsOK'
  BY <1>1, <1>3, <1>4 DEF OsOK
<1>6. HistoryOK'
  BY <1>1, <1>4 DEF HistoryOK, Leaves
<1> QED BY <1>3, <1>5, <1>6, PartsType

LEMMA RenameFolderTyped ==
  ASSUME TypeOK, NEW d \in Folder, RenameFolder(d)
  PROVE  TypeOK'
<1>1. OsOK /\ HistoryOK
  BY TypeParts
<1>2. PICK r \in Seq(Records) : Report(r)
  BY Paths, RecordTyped DEF RenameFolder, Action
<1>3. /\ ops' \in 0 .. MaxOps /\ habit' \in Habits
      /\ ThreadsOK' /\ TaskOK' /\ MapsOK' /\ PrintedOK'
  BY <1>2, ReportTyped
<1>4. /\ dir' = [n \in Name |-> IF n[1] = d THEN dir[<<folder, n[2]>>] ELSE None]
      /\ folder' = d /\ taken' = taken \cup {n \in Name : n[1] \in {d, folder}}
      /\ UNCHANGED <<lines, born, locked, history>>
  BY DEF RenameFolder
<1>5. \A n \in Name : <<folder, n[2]>> \in Name
  BY <1>1 DEF Name, OsOK
<1>6. OsOK'
  BY <1>1, <1>3, <1>4, <1>5 DEF OsOK
<1>7. HistoryOK'
  BY <1>1, <1>4 DEF HistoryOK, history
<1> QED BY <1>3, <1>6, <1>7, PartsType

LEMMA LockTyped ==
  ASSUME TypeOK, NEW n \in Name, Lock(n)
  PROVE  TypeOK'
<1>1. OsOK /\ HistoryOK
  BY TypeParts
<1>2. <<>> \in Seq(Records) /\ Report(<<>>)
  BY DEF Lock
<1>3. /\ ops' \in 0 .. MaxOps /\ habit' \in Habits
      /\ ThreadsOK' /\ TaskOK' /\ MapsOK' /\ PrintedOK'
  BY <1>2, ReportTyped
<1>4. /\ locked' = locked \cup {dir[n]} /\ dir[n] \in File
      /\ UNCHANGED <<dir, folder, lines, born, taken, history>>
  BY <1>1, FileIs DEF Lock
<1>5. OsOK'
  BY <1>1, <1>3, <1>4 DEF OsOK
<1>6. HistoryOK'
  BY <1>1, <1>4 DEF HistoryOK, history
<1> QED BY <1>3, <1>5, <1>6, PartsType

LEMMA ApplicationTyped ==
  ASSUME TypeOK, Application
  PROVE  TypeOK'
  BY CreateTyped, AppendTyped, DeleteTyped, LockTyped, RenameFileTyped, RenameFolderTyped
  DEF Application

-----------------------------------------------------------------------------
(***************************************************************************)
(* The start, and the directory thread.                                    *)
(***************************************************************************)
LEMMA ScanTyped ==
  ASSUME TypeOK, Scan, phase' \in {"scanned", "running"}
  PROVE  TypeOK'
<1>1. OsOK /\ ThreadsOK /\ TaskOK /\ MapsOK /\ PrintedOK /\ HistoryOK
  BY TypeParts
<1> DEFINE unknown == {n \in Listing : LookUp(n) = None}
           found == {n \in unknown : fromStart \/ CanOpen(n)}
           passed == IF fromStart THEN {} ELSE {dir[n] : n \in found}
           seen == Listing \ (unknown \ found)
<1>2. /\ info' = [n \in Name |->
           IF n \in found THEN [offset |-> IF fromStart THEN 0 ELSE lines[dir[n]], lastRead |-> 0]
           ELSE info[n]]
      /\ TrackNames(found, [n \in found |-> FileId(n)])
      /\ fromStart' = FALSE /\ queue' = queue \o SetToSeq({Modified(n) : n \in seen})
      /\ skipped' = [f \in File |-> IF f \in passed THEN lines[f] ELSE skipped[f]]
      /\ overlooked' = (overlooked \ {dir[n] : n \in found}) \cup {dir[n] : n \in unknown \ found}
      /\ UNCHANGED <<osVars, clock, kernel, task, printed, renamedAway, reinited>>
  BY DEF Scan
<1>3. unknown \subseteq Listing /\ found \subseteq unknown /\ seen \subseteq Name
      /\ \A n \in Listing : n \in Name /\ dir[n] \in File /\ lines[dir[n]] \in 0 .. MaxLines
  BY <1>1, FileIs DEF Listing
<1> HIDE DEF unknown, found, passed, seen
<1>4. OsOK' /\ TaskOK' /\ PrintedOK'
  <2>1. OsOK'
    BY <1>1, <1>2 DEF OsOK, osVars
  <2> QED BY <1>1, <1>2, <2>1 DEF TaskOK, PrintedOK
<1>5. ThreadsOK'
  <2> DEFINE t == SetToSeq({Modified(n) : n \in seen})
  <2>1. t \in Seq(Events) /\ queue' = queue \o t /\ queue \in Seq(Events)
    BY <1>1, <1>2, <1>3, ModifiedTyped DEF ThreadsOK
  <2> HIDE DEF t
  <2>2. queue' \in Seq(Events)
    BY <2>1
  <2> QED BY <1>1, <1>2, <2>2 DEF ThreadsOK
<1>6. /\ longPaths' \in [FilePath -> Name \cup {None}]
      /\ fileIds' \in [Id -> Name \cup {None}] /\ unidentified' \in BOOLEAN
  <2>1. found \subseteq Name
    BY <1>3
  <2> QED BY <1>1, <1>2, <2>1, TrackTyped
<1>7. info' \in [Name -> Info \cup {None}]
  <2>1. \A n \in Name : n \in found =>
          [offset |-> IF fromStart THEN 0 ELSE lines[dir[n]], lastRead |-> 0] \in Info
    BY <1>3, Constants DEF Info
  <2> QED BY <1>1, <1>2, <2>1 DEF MapsOK
<1>8. HistoryOK'
  BY <1>1, <1>2, <1>3, <1>6 DEF HistoryOK, OsOK
<1> QED BY <1>4, <1>5, <1>6, <1>7, <1>8, PartsType DEF MapsOK

LEMMA StartTyped ==
  ASSUME TypeOK, Start
  PROVE  TypeOK'
<1>1. CASE FirstScan \/ SecondScan
  BY <1>1, ScanTyped DEF FirstScan, SecondScan
<1>2. CASE Register
  BY <1>2, TypeParts, PartsType
  DEF Register, OsOK, ThreadsOK, TaskOK, MapsOK, PrintedOK, HistoryOK, osVars, mapVars, history
<1> QED BY <1>1, <1>2 DEF Start

LEMMA DirectoryTyped ==
  ASSUME TypeOK, Notice \/ Loses
  PROVE  TypeOK'
<1>1. OsOK /\ ThreadsOK /\ TaskOK /\ MapsOK /\ PrintedOK /\ HistoryOK
  BY TypeParts
<1>2. /\ UNCHANGED <<osVars, phase, fromStart, task, mapVars, printed>>
      /\ UNCHANGED <<skipped, renamedAway, unidentified>>
      /\ reinited' \in {reinited, TRUE}
  BY DEF Notice, Loses, Overflow, OverflowIsSilent, history
<1>3. OsOK' /\ TaskOK' /\ PrintedOK'
  <2>1. OsOK'
    BY <1>1, <1>2 DEF OsOK, osVars
  <2> QED BY <1>1, <1>2, <2>1 DEF TaskOK, PrintedOK
<1>4. MapsOK' /\ HistoryOK'
  <2>1. \A n \in Name : Exists(n) => dir[n] \in File
    BY <1>1 DEF OsOK, Exists
  <2>2. overlooked \subseteq File
    BY <1>1 DEF HistoryOK
  <2>3. overlooked' \subseteq File
    BY <2>1, <2>2 DEF Notice, Loses, Overflow, OverflowIsSilent, history
  <2> QED BY <1>1, <1>2, <2>3 DEF MapsOK, mapVars, HistoryOK
<1>5. kernel \in Seq(Records) /\ queue \in Seq(Events) /\ clock \in 1 .. MaxClock
  BY <1>1 DEF ThreadsOK
<1>6. clock' \in 1 .. MaxClock /\ kernel' \in Seq(Records) /\ queue' \in Seq(Events)
  <2>1. CASE Notice
    <3>1. kernel # <<>> /\ kernel' = Tail(kernel) /\ clock' \in 1 .. MaxClock /\ Accept(Head(kernel))
      BY <2>1 DEF Notice
    <3>2. kernel' \in Seq(Records) /\ Head(kernel) \in Records
      BY <1>5, <3>1
    <3> DEFINE r == Head(kernel)
    <3>3. r.action \in Action /\ r.path \in FilePath \cup FolderPath
      BY <3>2 DEF Records
    <3>4. LongPath(r.path) \in FilePath \cup FolderPath
      BY <3>3, Paths DEF LongPath
    <3>5. \E path \in FilePath \cup FolderPath :
            queue' \in {queue, Append(queue, [action |-> r.action, path |-> path, time |-> clock'])}
      BY <3>1, <3>3, <3>4 DEF Accept
    <3> HIDE DEF r
    <3>6. \A path \in FilePath \cup FolderPath :
            [action |-> r.action, path |-> path, time |-> clock'] \in Events
      BY <3>1, <3>3 DEF Events
    <3>7. PICK path \in FilePath \cup FolderPath :
            queue' \in {queue, Append(queue, [action |-> r.action, path |-> path, time |-> clock'])}
      BY <3>5
    <3> DEFINE e == [action |-> r.action, path |-> path, time |-> clock']
    <3>8. e \in Events /\ queue' \in {queue, Append(queue, e)}
      BY <3>6, <3>7
    <3> HIDE DEF e
    <3>9. queue' \in Seq(Events)
      BY <1>5, <3>8
    <3> QED BY <3>1, <3>2, <3>9
  <2>2. CASE Loses
    <3>1. [action |-> "ReInit", path |-> <<>>, time |-> clock] \in Events
      BY <1>5 DEF Events
    <3>2. CASE Overflow
      BY <1>5, <3>1, <3>2 DEF Overflow
    <3>3. CASE OverflowIsSilent
      <4>1. <<>> \in Seq(Records)
        OBVIOUS
      <4> QED BY <1>5, <3>3, <4>1 DEF OverflowIsSilent
    <3> QED BY <2>2, <3>2, <3>3 DEF Loses
  <2> QED BY <2>1, <2>2
<1>7. ThreadsOK'
  BY <1>1, <1>2, <1>6 DEF ThreadsOK
<1> QED BY <1>3, <1>4, <1>7, PartsType

-----------------------------------------------------------------------------
(***************************************************************************)
(* The handler.                                                            *)
(***************************************************************************)
LEMMA TakesTyped ==
  ASSUME TypeOK, NEW action, Takes(action)
  PROVE  OsOK' /\ ThreadsOK'
<1>1. OsOK /\ ThreadsOK
  BY TypeParts
<1>2. /\ queue # <<>> /\ queue' = Tail(queue)
      /\ UNCHANGED <<osVars, clock, kernel, phase, fromStart>>
  BY DEF Takes
<1>3. queue' \in Seq(Events)
  BY <1>1, <1>2 DEF ThreadsOK
<1>4. OsOK'
  BY <1>1, <1>2 DEF OsOK, osVars
<1> QED BY <1>1, <1>2, <1>3, <1>4 DEF ThreadsOK

\* What no step of the handler does: nothing happens to the files, or it takes an event.
LEMMA StillTyped ==
  ASSUME TypeOK, UNCHANGED <<osVars, clock, kernel, phase, fromStart, queue>>
  PROVE  OsOK' /\ ThreadsOK'
<1>1. OsOK /\ ThreadsOK
  BY TypeParts
<1>2. OsOK'
  BY <1>1 DEF OsOK, osVars
<1> QED BY <1>1, <1>2 DEF ThreadsOK

LEMMA StartAddTyped ==
  ASSUME OsOK, NEW path, StartAdd(path)
  PROVE  TaskOK'
<1> DEFINE n == LongPath(path)
<1>1. n \in Name => ShortPath(n) \in FilePath /\ FileId(n) \in Id
  BY FileIs, Paths
<1>2. task' = IF LookUp(path) = None /\ n \in Name /\ Exists(n)
              THEN [does |-> "add", name |-> n, short |-> ShortPath(n), id |-> FileId(n)]
              ELSE Idle
  BY DEF StartAdd
<1> HIDE DEF n
<1> QED BY <1>1, <1>2 DEF TaskOK, Adds

LEMMA HandleModifyTyped ==
  ASSUME TypeOK, HandleModify
  PROVE  TypeOK'
<1>1. OsOK /\ ThreadsOK /\ TaskOK /\ MapsOK /\ PrintedOK /\ HistoryOK
  BY TypeParts
<1>2. OsOK' /\ ThreadsOK'
  BY TakesTyped DEF HandleModify
<1>3. UNCHANGED <<task, longPaths, fileIds, history>>
  BY DEF HandleModify
<1>4. info' \in [Name -> Info \cup {None}] /\ PrintedOK'
  <2> DEFINE n == LookUp(Event.path)
  <2>1. CASE n # None /\ ReadLogFiles({n}, info)
    <3>1. n \in Name /\ info[n] \in Info
      BY <1>1, <2>1, LookUpIs
    <3>2. {n} \subseteq Name /\ \A m \in {n} : info[m] \in Info
      BY <3>1
    <3>3. info \in [Name -> Info \cup {None}] /\ clock \in 1 .. MaxClock
      BY <1>1 DEF MapsOK, ThreadsOK
    <3> HIDE DEF n
    <3> QED BY <1>1, <2>1, <3>2, <3>3, ReadTyped
  <2>2. CASE UNCHANGED <<info, printed>>
    BY <1>1, <2>2 DEF MapsOK, PrintedOK
  <2> QED BY <2>1, <2>2 DEF HandleModify
<1> QED BY <1>1, <1>2, <1>3, <1>4, PartsType DEF TaskOK, MapsOK, HistoryOK, history

LEMMA HandleRemoveTyped ==
  ASSUME TypeOK, HandleRemove
  PROVE  TypeOK'
<1>1. TaskOK /\ MapsOK /\ PrintedOK /\ HistoryOK
  BY TypeParts
<1>2. /\ Takes("Remove") /\ Forget(Event.path) /\ UNCHANGED <<task, printed, history>>
  BY DEF HandleRemove
<1>3. OsOK' /\ ThreadsOK' /\ MapsOK'
  BY <1>1, <1>2, TakesTyped, ForgetTyped
<1> QED BY <1>1, <1>2, <1>3, PartsType DEF TaskOK, PrintedOK, HistoryOK, history

LEMMA AddTyped ==
  ASSUME TypeOK, HandleAdd \/ FinishAdd
  PROVE  TypeOK'
<1>1. OsOK /\ ThreadsOK /\ TaskOK /\ MapsOK /\ PrintedOK /\ HistoryOK
  BY TypeParts
<1>2. CASE HandleAdd
  <2>1. Takes("Add") /\ StartAdd(Event.path) /\ UNCHANGED <<mapVars, printed, history>>
    BY <1>2 DEF HandleAdd
  <2>2. OsOK' /\ ThreadsOK' /\ TaskOK'
    BY <1>1, <2>1, TakesTyped, StartAddTyped
  <2> QED
    BY <1>1, <2>1, <2>2, PartsType DEF MapsOK, PrintedOK, HistoryOK, mapVars, history
<1>3. CASE FinishAdd
  <2>1. task.name \in Name /\ task.short \in FilePath /\ task.id \in Id
    BY <1>1, <1>3 DEF FinishAdd, TaskOK, Adds, Folders, Idle
  <2>2. OsOK' /\ ThreadsOK'
    BY <1>3, StillTyped DEF FinishAdd
  <2> DEFINE known == [info EXCEPT ![task.name] = NeverRead]
  <2>3. NeverRead \in Info
    BY Constants DEF NeverRead, Info
  <2>4. known \in [Name -> Info \cup {None}] /\ \A n \in {task.name} : known[n] \in Info
    BY <1>1, <2>1, <2>3 DEF MapsOK
  <2>5. info' \in [Name -> Info \cup {None}] /\ PrintedOK'
    <3>1. ReadLogFiles({task.name}, known)
      BY <1>3 DEF FinishAdd
    <3>2. clock \in 1 .. MaxClock /\ {task.name} \subseteq Name
      BY <1>1, <2>1 DEF ThreadsOK
    <3> HIDE DEF known
    <3> QED BY <1>1, <2>4, <3>1, <3>2, ReadTyped
  <2>6. MapsOK'
    BY <1>1, <1>3, <2>1, <2>5 DEF FinishAdd, MapsOK
  <2>7. TaskOK' /\ HistoryOK'
    BY <1>1, <1>3 DEF FinishAdd, TaskOK, HistoryOK
  <2> QED BY <2>2, <2>5, <2>6, <2>7, PartsType
<1> QED BY <1>2, <1>3

LEMMA FileRenamedTyped ==
  ASSUME TypeOK, HandleFileRenamed \/ HandleRenamedAgain
  PROVE  TypeOK'
<1>1. OsOK /\ TaskOK /\ MapsOK /\ PrintedOK /\ HistoryOK
  BY TypeParts
<1>2. OsOK' /\ ThreadsOK' /\ UNCHANGED <<printed, history>>
  BY TakesTyped DEF HandleFileRenamed, HandleRenamedAgain
<1>3. TaskOK' /\ MapsOK'
  <2>1. CASE HandleFileRenamed
    <3> DEFINE n == LongPath(Event.path)
               id == FileId(n)
    <3>1. /\ n \in Name
          /\ \/ RenameInMaps(n, id) /\ UNCHANGED task
             \/ Forget(fileIds[id]) /\ UNCHANGED task
             \/ StartAdd(n) /\ UNCHANGED mapVars
             \/ UNCHANGED <<mapVars, task>>
      BY <2>1 DEF HandleFileRenamed
    <3>2. id \in Id
      BY <1>1, <3>1, FileIs
    <3> HIDE DEF n, id
    <3>3. CASE RenameInMaps(n, id) /\ UNCHANGED task
      BY <1>1, <3>1, <3>2, <3>3, RenameTyped DEF TaskOK
    <3>4. CASE Forget(fileIds[id]) /\ UNCHANGED task
      BY <1>1, <3>4, ForgetTyped DEF TaskOK
    <3>5. CASE StartAdd(n) /\ UNCHANGED mapVars
      BY <1>1, <3>5, StartAddTyped DEF MapsOK, mapVars
    <3>6. CASE UNCHANGED <<mapVars, task>>
      BY <1>1, <3>6 DEF MapsOK, mapVars, TaskOK
    <3> QED BY <3>1, <3>3, <3>4, <3>5, <3>6
  <2>2. CASE HandleRenamedAgain
    BY <1>1, <2>2 DEF HandleRenamedAgain, MapsOK, mapVars, TaskOK
  <2> QED BY <2>1, <2>2
<1> QED BY <1>1, <1>2, <1>3, PartsType DEF PrintedOK, HistoryOK, history

LEMMA FolderRenamedTyped ==
  ASSUME TypeOK, HandleFolderRenamed \/ RenameNextInFolder \/ FinishFolder
  PROVE  TypeOK'
<1>1. OsOK /\ TaskOK /\ MapsOK /\ PrintedOK /\ HistoryOK
  BY TypeParts
<1>2. CASE HandleFolderRenamed
  <2>1. OsOK' /\ ThreadsOK'
    BY <1>2, TakesTyped DEF HandleFolderRenamed
  <2>2. \A n \in Listing : n \in Name /\ FileId(n) \in Id /\ dir[n] \in File
    BY <1>1, FileIs DEF Listing
  <2>3. TaskOK'
    <3>1. {[name |-> n, id |-> FileId(n)] : n \in Listing} \subseteq [name : Name, id : Id]
      BY <2>2
    <3> QED BY <1>2, <3>1 DEF HandleFolderRenamed, TaskOK, Folders
  <2>4. HistoryOK'
    BY <1>1, <1>2, <2>2 DEF HandleFolderRenamed, HistoryOK
  <2>5. MapsOK' /\ PrintedOK'
    BY <1>1, <1>2 DEF HandleFolderRenamed, MapsOK, mapVars, PrintedOK
  <2> QED BY <2>1, <2>3, <2>4, <2>5, PartsType
<1>3. CASE RenameNextInFolder \/ FinishFolder
  <2>1. OsOK' /\ ThreadsOK' /\ UNCHANGED <<printed, history>>
    BY <1>3, StillTyped DEF RenameNextInFolder, FinishFolder
  <2>2. task.does = "folder" /\ task \in Folders
    BY <1>1, <1>3 DEF RenameNextInFolder, FinishFolder, TaskOK, Adds, Idle
  <2>3. TaskOK' /\ MapsOK'
    <3>1. CASE RenameNextInFolder
      <4>1. PICK file \in task.todo :
              /\ task' = [task EXCEPT !.todo = @ \ {file}]
              /\ RenameInMaps(file.name, file.id) \/ UNCHANGED mapVars
        BY <3>1 DEF RenameNextInFolder
      <4>2. file.name \in Name /\ file.id \in Id
        BY <2>2 DEF Folders
      <4>3. task' \in Folders
        BY <2>2, <4>1 DEF Folders
      <4>4. MapsOK'
        <5>1. CASE RenameInMaps(file.name, file.id)
          BY <1>1, <4>2, <5>1, RenameTyped
        <5>2. CASE UNCHANGED mapVars
          BY <1>1, <5>2 DEF MapsOK, mapVars
        <5> QED BY <4>1, <5>1, <5>2
      <4> QED BY <4>3, <4>4 DEF TaskOK
    <3>2. CASE FinishFolder
      BY <1>1, <3>2 DEF FinishFolder, TaskOK, MapsOK, mapVars
    <3> QED BY <1>3, <3>1, <3>2
  <2> QED BY <1>1, <2>1, <2>3, PartsType DEF PrintedOK, HistoryOK, history
<1> QED BY <1>2, <1>3

LEMMA ReInitTyped ==
  ASSUME TypeOK, HandleReInit
  PROVE  TypeOK'
<1>1. OsOK /\ ThreadsOK /\ TaskOK /\ MapsOK /\ PrintedOK /\ HistoryOK
  BY TypeParts
<1> DEFINE unknown == {n \in Listing : LookUp(n) = None}
           known == [n \in Name |-> IF n \in unknown THEN NeverRead ELSE info[n]]
           S == {n \in Name : known[n] # None}
<1>2. /\ Takes("ReInit") /\ TrackNames(unknown, [n \in unknown |-> FileId(n)])
      /\ ReadLogFiles(S, known) /\ UNCHANGED <<task, skipped, overlooked, renamedAway, reinited>>
  BY DEF HandleReInit
<1>3. unknown \subseteq Name
  BY DEF Listing
<1>4. known \in [Name -> Info \cup {None}] /\ S \subseteq Name /\ \A n \in S : known[n] \in Info
  <2>1. NeverRead \in Info
    BY Constants DEF NeverRead, Info
  <2>2. known \in [Name -> Info \cup {None}]
    <3> HIDE DEF unknown
    <3> QED BY <1>1, <2>1 DEF MapsOK
  <2> HIDE DEF known
  <2> QED BY <2>2
<1> HIDE DEF unknown, known, S
<1>5. OsOK' /\ ThreadsOK'
  BY <1>2, TakesTyped
<1>6. info' \in [Name -> Info \cup {None}] /\ PrintedOK'
  <2>1. clock \in 1 .. MaxClock
    BY <1>1 DEF ThreadsOK
  <2> QED BY <1>1, <1>2, <1>4, <2>1, ReadTyped
<1>7. /\ longPaths' \in [FilePath -> Name \cup {None}]
      /\ fileIds' \in [Id -> Name \cup {None}] /\ unidentified' \in BOOLEAN
  BY <1>1, <1>2, <1>3, TrackTyped
<1>8. HistoryOK' /\ TaskOK'
  BY <1>1, <1>2, <1>7 DEF HistoryOK, TaskOK
<1> QED BY <1>5, <1>6, <1>7, <1>8, PartsType DEF MapsOK

LEMMA TimerTyped ==
  ASSUME TypeOK, TimerReadsAll
  PROVE  TypeOK'
<1>1. OsOK /\ ThreadsOK /\ TaskOK /\ MapsOK /\ PrintedOK /\ HistoryOK
  BY TypeParts
<1>2. /\ ReadLogFiles({n \in Name : info[n] # None}, info)
      /\ UNCHANGED <<osVars, clock, kernel, phase, fromStart, queue>>
      /\ UNCHANGED <<task, longPaths, fileIds, history>>
  BY DEF TimerReadsAll
<1>3. OsOK' /\ ThreadsOK'
  BY <1>2, StillTyped
<1>4. info' \in [Name -> Info \cup {None}] /\ PrintedOK'
  <2> DEFINE S == {n \in Name : info[n] # None}
  <2>1. info \in [Name -> Info \cup {None}] /\ clock \in 1 .. MaxClock
    BY <1>1 DEF MapsOK, ThreadsOK
  <2>2. S \subseteq Name /\ \A n \in S : info[n] \in Info
    BY <2>1
  <2> HIDE DEF S
  <2>3. ReadLogFiles(S, info)
    BY <1>2 DEF S
  <2> QED BY <1>1, <2>1, <2>2, <2>3, ReadTyped
<1> QED BY <1>1, <1>2, <1>3, <1>4, PartsType DEF TaskOK, MapsOK, HistoryOK, history

(***************************************************************************)
(* Every variable keeps its type: no offset exceeds the length a file can  *)
(* have, no path is in the maps that cannot be tracked, and what the       *)
(* handler is in the middle of is an addition or a rename of a folder.     *)
(***************************************************************************)
THEOREM TypeCorrect == Spec => []TypeOK
<1>1. Init => TypeOK
  <2> SUFFICES ASSUME Init PROVE TypeOK
    OBVIOUS
  <2>1. 1 \in File /\ {0, 1} \subseteq 0 .. MaxFiles /\ 0 \in 0 .. MaxLines /\ 1 \in 0 .. MaxLines
        /\ FirstFile \in Name
    BY Constants, FileTailAssumption DEF File
  <2>2. OsOK
    <3>1. folder \in Folder
      BY <2>1 DEF Init, Name
    <3>2. taken \subseteq Name /\ locked \subseteq File /\ habit \in Habits /\ ops \in 0 .. MaxOps
      BY <2>1, Constants DEF Init
    <3>3. dir \in [Name -> File \cup {None}] /\ lines \in [File -> 0 .. MaxLines]
          /\ born \in 0 .. MaxFiles
      BY <2>1 DEF Init
    <3> QED BY <3>1, <3>2, <3>3 DEF OsOK
  <2>3. ThreadsOK
    <3>1. fromStart \in BOOLEAN
      BY FileTailAssumption DEF Init, Habit
    <3> QED BY <3>1, Constants DEF Init, ThreadsOK
  <2>4. TaskOK /\ MapsOK /\ PrintedOK
    BY DEF Init, TaskOK, MapsOK, PrintedOK, Id
  <2>5. HistoryOK
    <3>1. renamedAway \subseteq File
      BY <2>1 DEF Init
    <3> QED BY <2>1, <3>1 DEF Init, HistoryOK
  <2> QED BY <2>2, <2>3, <2>4, <2>5, TypeParts
<1>2. TypeOK /\ [Next]_vars => TypeOK'
  <2> SUFFICES ASSUME TypeOK, [Next]_vars PROVE TypeOK'
    OBVIOUS
  <2>1. OsOK /\ ThreadsOK /\ TaskOK /\ MapsOK /\ PrintedOK /\ HistoryOK
    BY TypeParts
  <2>2. CASE Application
    BY <2>2, ApplicationTyped
  <2>3. CASE Unlock
    <3>1. /\ locked' \subseteq locked
          /\ UNCHANGED <<dir, folder, lines, born, taken, habit, ops, clock, kernel, phase>>
          /\ UNCHANGED <<fromStart, queue, task, mapVars, printed, history>>
      BY <2>3 DEF Unlock
    <3>2. OsOK' /\ ThreadsOK'
      BY <2>1, <3>1 DEF OsOK, ThreadsOK
    <3>3. TaskOK' /\ MapsOK' /\ PrintedOK' /\ HistoryOK'
      BY <2>1, <3>1 DEF TaskOK, MapsOK, PrintedOK, HistoryOK, mapVars, history
    <3> QED BY <3>2, <3>3, PartsType
  <2>4. CASE Start
    BY <2>4, StartTyped
  <2>5. CASE Notice \/ Loses
    BY <2>5, DirectoryTyped
  <2>6. CASE Handle
    BY <2>6, HandleModifyTyped, HandleRemoveTyped, AddTyped, FileRenamedTyped, FolderRenamedTyped,
       ReInitTyped
    DEF Handle
  <2>7. CASE TimerReadsAll
    BY <2>7, TimerTyped
  <2>8. CASE UNCHANGED vars
    <3>1. UNCHANGED <<osVars, clock, kernel, phase, fromStart, queue>>
          /\ UNCHANGED <<task, mapVars, printed, history>>
      BY <2>8 DEF vars
    <3>2. OsOK' /\ ThreadsOK'
      BY <3>1, StillTyped
    <3>3. TaskOK' /\ MapsOK' /\ PrintedOK' /\ HistoryOK'
      BY <2>1, <3>1 DEF TaskOK, MapsOK, PrintedOK, HistoryOK, mapVars, history
    <3> QED BY <3>2, <3>3, PartsType
  <2> QED BY <2>2, <2>3, <2>4, <2>5, <2>6, <2>7, <2>8 DEF Next
<1> QED BY <1>1, <1>2, PTL DEF Spec

-----------------------------------------------------------------------------
(***************************************************************************)
(* Names and files, where applications never use a name twice.  A name     *)
(* stands for a file, or stood for it when the monitor took it down: in    *)
(* the maps, or in the task it is in the middle of.                        *)
(***************************************************************************)
Means(path, n) == path \in {n, Short[n]}

Told(s, action, n) == \E k \in 1 .. Len(s) : s[k].action = action /\ Means(s[k].path, n)
Pending(action, n) == Told(kernel, action, n) \/ Told(queue, action, n)
Moves == {"Add", "Remove", "RenameNew"}

Dead(f) == \A n \in Name : dir[n] # f
Adding(n, f) == task.does = "add" /\ task.name = n /\ task.id = f
ToDo(n, f) == task.does = "folder" /\ [name |-> n, id |-> f] \in task.todo
Stands(n, f) == dir[n] = f \/ fileIds[f] = n \/ Adding(n, f) \/ ToDo(n, f)

OneName == \A n, m \in Name : dir[n] # None /\ dir[n] = dir[m] => n = m
OneFile == \A n \in Name : \A f, g \in File : Stands(n, f) /\ Stands(n, g) => f = g
OnceUsed ==
  /\ \A n \in Name, f \in File : Stands(n, f) => n \in taken /\ f <= born
  /\ \A n \in Name : info[n] # None => n \in taken
  /\ \A n \in Name, a \in Moves : Pending(a, n) => n \in taken

\* A name of which the removal is reported stands for a file that is gone; one of which the
\* creation is reported, and that is still there, is the only one the file has had.
RemovedIsDead == \A n \in Name, f \in File : Pending("Remove", n) /\ Stands(n, f) => Dead(f)
AddedIsFirst ==
  \A n, m \in Name, f \in File : Pending("Add", n) /\ dir[n] = f /\ Stands(m, f) => m = n
LeftFilter ==
  \A n \in Name, f \in File :
    Pending("RenameNew", n) /\ n \notin Matching /\ dir[n] = f => f \in renamedAway

NamesOK == OneName /\ OneFile /\ OnceUsed /\ RemovedIsDead /\ AddedIsFirst /\ LeftFilter

(***************************************************************************)
(* The maps agree with each other and with the directory.                  *)
(***************************************************************************)
IdsTracked == fileIds[NoId] = None /\ \A f \in File : fileIds[f] # None => info[fileIds[f]] # None
TrackedHasId == \A n \in Name, f \in File : info[n] # None /\ dir[n] = f => fileIds[f] = n
TrackedHasShort == \A n \in Name : info[n] # None /\ dir[n] # None => longPaths[Short[n]] = n
ShortMeans == \A p \in FilePath : longPaths[p] # None => Means(p, longPaths[p])
AddIsNew == \A n \in Name, f \in File : Adding(n, f) => fileIds[f] = None /\ task.short = Short[n]

MapsAgree == IdsTracked /\ TrackedHasId /\ TrackedHasShort /\ ShortMeans /\ AddIsNew

\* Before the handler runs, nothing is printed; before the first scan, nothing is tracked.
Started ==
  /\ phase # "running" => task = Idle /\ \A f \in File : printed[f] = <<>>
  /\ phase = "new" =>
       /\ \A n \in Name : info[n] = None
       /\ \A f \in File : fileIds[f] = None /\ skipped[f] = 0
  /\ phase # "new" => ~fromStart

ReInitKnown == \A k \in 1 .. Len(queue) : queue[k].action = "ReInit" => reinited

Links == NamesOK /\ MapsAgree /\ Started /\ ReInitKnown

(***************************************************************************)
(* The offset of a file says how much of it is printed.                    *)
(***************************************************************************)
OffsetCounts ==
  \A f \in File \ renamedAway :
    fileIds[f] # None => info[fileIds[f]].offset = skipped[f] + Len(printed[f])
UntrackedUnread ==
  \A f \in File \ renamedAway :
    fileIds[f] = None /\ (f > born \/ ~Dead(f)) => printed[f] = <<>> /\ skipped[f] = 0
AddedUnread ==
  \A n \in Name, f \in File \ renamedAway : Adding(n, f) => printed[f] = <<>> /\ skipped[f] = 0
InOrder(f) == \A i \in 1 .. Len(printed[f]) : printed[f][i] = skipped[f] + i
Consecutive == \A f \in File \ renamedAway : InOrder(f)

Order == OffsetCounts /\ UntrackedUnread /\ AddedUnread /\ Consecutive

Quiet == habit.reuse = "never" /\ ~unidentified
LInv == Quiet => Links
OInv == Quiet /\ ~reinited => Order

-----------------------------------------------------------------------------
(***************************************************************************)
(* What a path means.                                                      *)
(***************************************************************************)
LEMMA NoneIs == None \notin Name /\ None \notin FilePath /\ None \notin File /\ None \notin Info
  BY FileTailAssumption, Paths

LEMMA MeansOne ==
  ASSUME NEW path, NEW n \in Name, NEW m \in Name, Means(path, n), Means(path, m)
  PROVE  n = m
  BY FileTailAssumption DEF Means

LEMMA NameMeans ==
  ASSUME NEW n \in Name, NEW m \in Name
  PROVE  (Means(n, m) <=> n = m) /\ Means(Short[n], n) /\ (Short[n] = Short[m] => n = m)
  BY FileTailAssumption DEF Means

LEMMA FolderMeans ==
  ASSUME NEW path \in FolderPath, NEW n \in Name
  PROVE  ~Means(path, n) /\ path \notin Name /\ path \notin FilePath
<1>1. path \notin FilePath /\ n \in FilePath /\ Short[n] \in FilePath /\ Name \subseteq FilePath
  BY FileTailAssumption, Paths
<1> QED BY <1>1 DEF Means

LEMMA LongPathMeans ==
  ASSUME NEW path, NEW n \in Name, Means(LongPath(path), n)
  PROVE  Means(path, n)
<1>1. CASE \E m \in Name : Exists(m) /\ Short[m] = path
  <2> DEFINE k == CHOOSE m \in Name : Short[m] = path
  <2>1. k \in Name /\ Short[k] = path
    BY <1>1
  <2>2. LongPath(path) = k
    BY <1>1 DEF LongPath
  <2>3. k = n
    BY <2>1, <2>2, NameMeans
  <2> QED BY <2>1, <2>3 DEF Means
<1>2. CASE ~(\E m \in Name : Exists(m) /\ Short[m] = path)
  BY <1>2 DEF LongPath
<1> QED BY <1>1, <1>2

LEMMA KnownMeans ==
  ASSUME MapsOK, ShortMeans, NEW path, KnownShort(path)
  PROVE  longPaths[path] \in Name /\ Means(path, longPaths[path])
  BY DEF MapsOK, ShortMeans, KnownShort

LEMMA ResolveMeans ==
  ASSUME MapsOK, ShortMeans, NEW path, NEW n \in Name, Means(Resolve(path), n)
  PROVE  Means(path, n)
<1>1. CASE KnownShort(path)
  <2>1. longPaths[path] \in Name /\ Means(path, longPaths[path])
    BY <1>1, KnownMeans
  <2>2. longPaths[path] = n
    BY <1>1, <2>1, NameMeans DEF Resolve
  <2> QED BY <2>1, <2>2
<1>2. CASE ~KnownShort(path)
  BY <1>2 DEF Resolve
<1> QED BY <1>1, <1>2

LEMMA LookUpMeans ==
  ASSUME MapsOK, ShortMeans, NEW path, LookUp(path) # None
  PROVE  LookUp(path) \in Name /\ Means(path, LookUp(path)) /\ info[LookUp(path)] # None
<1>1. CASE Tracked(path)
  BY <1>1 DEF LookUp, Tracked, Means
<1>2. CASE ~Tracked(path)
  <2>1. LookUp(path) = longPaths[path] /\ KnownShort(path) /\ Tracked(longPaths[path])
    BY <1>2 DEF LookUp
  <2> QED BY <2>1, KnownMeans DEF Tracked
<1> QED BY <1>1, <1>2

LEMMA LookUpName ==
  ASSUME NEW n \in Name
  PROVE  (info[n] # None => LookUp(n) = n) /\ (LookUp(n) = None => info[n] = None)
  BY NoneIs DEF LookUp, Tracked

\* A file that is there is looked up under either of its names.
LEMMA LookUpFinds ==
  ASSUME TrackedHasShort, NEW n \in Name, info[n] # None, dir[n] # None, NEW path, Means(path, n)
  PROVE  LookUp(path) = n
<1>1. CASE path = n
  BY <1>1, LookUpName
<1>2. CASE path = Short[n] /\ ~Tracked(path)
  BY <1>2, NoneIs, Paths DEF LookUp, KnownShort, Tracked, TrackedHasShort
<1>3. CASE path = Short[n] /\ Tracked(path)
  <2>1. path = n
    BY <1>3, NameMeans DEF Tracked
  <2> QED BY <2>1, LookUpName
<1> QED BY <1>1, <1>2, <1>3 DEF Means

(***************************************************************************)
(* Reports and events that wait.                                           *)
(***************************************************************************)
LEMMA ToldOne ==
  ASSUME NEW S, NEW s \in Seq(S), NEW e, NEW action, NEW n, Told(s \o <<e>>, action, n)
  PROVE  Told(s, action, n) \/ (e.action = action /\ Means(e.path, n))
<1>1. PICK k \in 1 .. Len(s \o <<e>>) :
        (s \o <<e>>)[k].action = action /\ Means((s \o <<e>>)[k].path, n)
  BY DEF Told
<1>2. Len(s \o <<e>>) = Len(s) + 1 /\ Len(s) \in Nat
  OBVIOUS
<1>3. CASE k \in 1 .. Len(s)
  BY <1>1, <1>3 DEF Told
<1>4. CASE k = Len(s) + 1
  <2>1. (s \o <<e>>)[k] = e
    BY <1>2, <1>4
  <2> QED BY <1>1, <2>1
<1> QED BY <1>2, <1>3, <1>4

LEMMA ToldTail ==
  ASSUME NEW S, NEW s \in Seq(S), s # <<>>, NEW action, NEW n
  PROVE  /\ Told(Tail(s), action, n) => Told(s, action, n)
         /\ Head(s).action = action /\ Means(Head(s).path, n) => Told(s, action, n)
<1>1. Len(s) \in Nat \ {0} /\ Len(Tail(s)) = Len(s) - 1 /\ Head(s) = s[1]
  OBVIOUS
<1>2. \A k \in 1 .. Len(Tail(s)) : Tail(s)[k] = s[k + 1] /\ k + 1 \in 1 .. Len(s)
  OBVIOUS
<1> QED BY <1>1, <1>2 DEF Told

\* A step that changes nothing in the directory, and takes down no name that it does not
\* find there or in the maps, keeps the names in order.
Keeps ==
  /\ UNCHANGED <<dir, born, taken, renamedAway>>
  /\ \A n \in Name, f \in File : Stands(n, f)' => Stands(n, f)
  /\ \A n \in Name, a \in Moves : Pending(a, n)' => Pending(a, n)
  /\ \A n \in Name : info'[n] # None => info[n] # None \/ dir[n] # None \/ \E f \in File : Stands(n, f)

LEMMA KeepsNames ==
  ASSUME OsOK, NamesOK, Keeps
  PROVE  NamesOK'
<1> USE DEF Keeps
<1>1. OneName' /\ OneFile'
  BY DEF NamesOK, OneName, OneFile
<1>2. OnceUsed'
  <2>1. \A n \in Name : dir[n] # None => \E f \in File : Stands(n, f)
    BY DEF OsOK, Stands
  <2> QED BY <2>1 DEF NamesOK, OnceUsed
<1>3. RemovedIsDead' /\ AddedIsFirst' /\ LeftFilter'
  BY DEF NamesOK, RemovedIsDead, AddedIsFirst, LeftFilter, Moves, Dead
<1> QED BY <1>1, <1>2, <1>3 DEF NamesOK

-----------------------------------------------------------------------------
(***************************************************************************)
(* The applications: a name that is given is one that was never used.      *)
(***************************************************************************)
Moved ==
  /\ UNCHANGED <<mapVars, task, queue, phase, fromStart, printed, habit>>
  /\ UNCHANGED <<skipped, unidentified, reinited>>
  /\ taken \subseteq taken' /\ renamedAway \subseteq renamedAway'
  /\ born' \in Nat /\ born <= born'
  /\ \A n \in Name : dir'[n] # None =>
       /\ n \in taken' /\ dir'[n] <= born'
       /\ \/ dir'[n] = dir[n]
          \/ n \notin taken /\ (~Dead(dir'[n]) \/ dir'[n] > born)
  /\ OneName'

Reports ==
  /\ \A n \in Name : Pending("Remove", n)' =>
       Pending("Remove", n) \/ \E f \in File : dir[n] = f /\ Dead(f)'
  /\ \A n \in Name : Pending("Add", n)' =>
       Pending("Add", n) \/ (n \notin taken /\ n \in taken' /\ (dir'[n] # None => dir'[n] > born))
  /\ \A n \in Name : Pending("RenameNew", n)' =>
       \/ Pending("RenameNew", n)
       \/ n \notin taken /\ n \in taken' /\ (n \in Matching \/ dir'[n] \in renamedAway')

LEMMA MovedNames ==
  ASSUME TypeOK, NamesOK, Moved, Reports
  PROVE  NamesOK'
<1> USE DEF Moved
<1>0. OsOK /\ TaskOK
  BY TypeParts
<1>1. /\ dir \in [Name -> File \cup {None}] /\ born \in Nat
      /\ \A f \in File : f \in Nat
  BY <1>0 DEF OsOK, File
<1>2. ASSUME NEW n \in Name, NEW f \in File, Stands(n, f)'
      PROVE  \/ Stands(n, f)
             \/ n \notin taken /\ dir'[n] = f /\ (~Dead(f) \/ f > born)
  BY <1>2, NoneIs DEF Stands, Adding, ToDo, mapVars
<1>3. ASSUME NEW n \in Name, NEW f \in File, Stands(n, f), Stands(n, f)'
      PROVE  n \in taken
  BY <1>3 DEF NamesOK, OnceUsed
<1>4. ASSUME NEW f \in File, Dead(f), f <= born
      PROVE  Dead(f)'
  BY <1>1, <1>4, NoneIs DEF Dead
<1>5. OneFile'
  <2> SUFFICES ASSUME NEW n \in Name, NEW f \in File, NEW g \in File, Stands(n, f)', Stands(n, g)'
               PROVE  f = g
    BY DEF OneFile
  <2>1. CASE n \in taken
    BY <1>2, <2>1 DEF NamesOK, OneFile
  <2>2. CASE n \notin taken
    BY <1>2, <1>3, <2>2
  <2> QED BY <2>1, <2>2
<1>6. OnceUsed'
  <2>1. ASSUME NEW n \in Name, NEW f \in File, Stands(n, f)' PROVE n \in taken' /\ f <= born'
    <3>1. CASE Stands(n, f)
      <4>1. n \in taken /\ f <= born
        BY <3>1 DEF NamesOK, OnceUsed
      <4> QED BY <1>1, <4>1
    <3>2. CASE dir'[n] = f
      BY <3>2, NoneIs
    <3> QED BY <1>2, <2>1, <3>1, <3>2
  <2>2. \A n \in Name : info'[n] # None => n \in taken'
    BY DEF NamesOK, OnceUsed, mapVars
  <2>3. \A n \in Name, a \in Moves : Pending(a, n)' => n \in taken'
    <3> SUFFICES ASSUME NEW n \in Name, NEW a \in Moves, Pending(a, n)' PROVE n \in taken'
      OBVIOUS
    <3>1. Pending(a, n) => n \in taken
      BY DEF NamesOK, OnceUsed
    <3>2. \A f \in File : dir[n] = f => n \in taken
      BY <1>1 DEF NamesOK, OnceUsed, Stands
    <3> QED BY <3>1, <3>2 DEF Reports, Moves
  <2> QED BY <2>1, <2>2, <2>3 DEF OnceUsed
<1>7. RemovedIsDead'
  <2> SUFFICES ASSUME NEW n \in Name, NEW f \in File, Pending("Remove", n)', Stands(n, f)'
               PROVE  Dead(f)'
    BY DEF RemovedIsDead
  <2>1. CASE Pending("Remove", n)
    <3>1. n \in taken
      BY <2>1 DEF NamesOK, OnceUsed, Moves
    <3>2. Stands(n, f)
      BY <1>2, <3>1
    <3> QED BY <1>4, <2>1, <3>2 DEF NamesOK, RemovedIsDead, OnceUsed
  <2>2. CASE \E g \in File : dir[n] = g /\ Dead(g)'
    <3>1. PICK g \in File : dir[n] = g /\ Dead(g)'
      BY <2>2
    <3>2. Stands(n, g) /\ Stands(n, f)
      BY <1>2, <3>1 DEF Stands, NamesOK, OnceUsed
    <3>3. f = g
      BY <3>2 DEF NamesOK, OneFile
    <3> QED BY <3>1, <3>3
  <2> QED BY <2>1, <2>2 DEF Reports
<1>8. AddedIsFirst'
  <2> SUFFICES ASSUME NEW n \in Name, NEW m \in Name, NEW f \in File,
                      Pending("Add", n)', dir'[n] = f, Stands(m, f)'
               PROVE  m = n
    BY DEF AddedIsFirst
  <2>1. CASE dir'[m] = f
    BY <2>1, NoneIs DEF OneName
  <2>2. CASE dir'[m] # f
    <3>1. Stands(m, f) /\ f <= born
      BY <1>2, <2>2 DEF NamesOK, OnceUsed
    <3>2. Pending("Add", n)
      BY <1>1, <3>1, NoneIs DEF Reports
    <3>3. dir[n] = f
      BY <3>2, NoneIs DEF NamesOK, OnceUsed, Moves
    <3> QED BY <3>1, <3>2, <3>3 DEF NamesOK, AddedIsFirst
  <2> QED BY <2>1, <2>2
<1>9. LeftFilter'
  <2> SUFFICES ASSUME NEW n \in Name, NEW f \in File,
                      Pending("RenameNew", n)', n \notin Matching, dir'[n] = f
               PROVE  f \in renamedAway'
    BY DEF LeftFilter
  <2>1. CASE Pending("RenameNew", n)
    <3>1. dir[n] = f
      BY <2>1, NoneIs DEF NamesOK, OnceUsed, Moves
    <3> QED BY <2>1, <3>1 DEF NamesOK, LeftFilter
  <2>2. CASE dir'[n] \in renamedAway'
    BY <2>2
  <2> QED BY <2>1, <2>2 DEF Reports
<1> QED BY <1>5, <1>6, <1>7, <1>8, <1>9 DEF NamesOK

LEMMA MovedLinks ==
  ASSUME TypeOK, Links, Moved, Reports
  PROVE  Links'
<1>1. NamesOK'
  BY MovedNames DEF Links
<1>2. \A n \in Name : info[n] # None => dir'[n] = None \/ dir'[n] = dir[n]
  BY DEF Moved, Links, NamesOK, OnceUsed
<1>3. MapsAgree'
  <2>1. UNCHANGED <<info, longPaths, fileIds, task>>
    BY DEF Moved, mapVars
  <2>2. IdsTracked' /\ ShortMeans' /\ AddIsNew'
    BY <2>1 DEF Links, MapsAgree, IdsTracked, ShortMeans, AddIsNew, Adding
  <2>3. TrackedHasId' /\ TrackedHasShort'
    BY <1>2, <2>1, NoneIs DEF Links, MapsAgree, TrackedHasId, TrackedHasShort
  <2> QED BY <2>2, <2>3 DEF MapsAgree
<1>4. Started' /\ ReInitKnown'
  BY DEF Moved, mapVars, Links, Started, ReInitKnown
<1> QED BY <1>1, <1>3, <1>4 DEF Links

LEMMA MovedOrder ==
  ASSUME TypeOK, Links, Order, Moved
  PROVE  Order'
<1>1. UNCHANGED <<info, fileIds, task, printed, skipped>> /\ renamedAway \subseteq renamedAway'
  BY DEF Moved, mapVars
<1>2. OffsetCounts' /\ AddedUnread' /\ Consecutive'
  BY <1>1 DEF Order, OffsetCounts, AddedUnread, Consecutive, InOrder, Adding
<1>3. UntrackedUnread'
  <2>1. born \in Nat /\ \A f \in File : f \in Nat
    BY TypeParts DEF OsOK, File
  <2>2. \A f \in File : f > born' \/ ~Dead(f)' => f > born \/ ~Dead(f)
    BY <2>1, NoneIs DEF Moved, Dead
  <2> QED BY <1>1, <2>2 DEF Order, UntrackedUnread
<1> QED BY <1>2, <1>3 DEF Order

LEMMA ReportTold ==
  ASSUME TypeOK, NEW r, Report(<<r>>)
  PROVE  /\ UNCHANGED <<mapVars, task, queue, phase, fromStart, printed, habit>>
         /\ \A a, n : Pending(a, n)' => Pending(a, n) \/ (r.action = a /\ Means(r.path, n))
<1>1. UNCHANGED <<mapVars, task, queue, phase, fromStart, printed, habit>>
      /\ kernel' \in {kernel, kernel \o <<r>>}
  BY DEF Report
<1>2. kernel \in Seq(Records)
  BY TypeParts DEF ThreadsOK
<1>3. \A a, n : Told(kernel', a, n) => Told(kernel, a, n) \/ (r.action = a /\ Means(r.path, n))
  <2>1. CASE kernel' = kernel
    BY <2>1
  <2>2. CASE kernel' = kernel \o <<r>>
    BY <1>2, <2>2, ToldOne
  <2> QED BY <1>1, <2>1, <2>2
<1>4. \A a, n : Told(queue', a, n) = Told(queue, a, n)
  BY <1>1
<1> QED BY <1>1, <1>3, <1>4 DEF Pending

LEMMA ReportedMeans ==
  ASSUME NEW n \in Name, NEW action, NEW m \in Name
  PROVE  /\ Record(action, Reported(n)).action = action
         /\ Means(Record(action, Reported(n)).path, m) <=> m = n
<1>1. Means(Reported(n), m) <=> m = n
  BY NameMeans DEF Reported, Means
<1> QED BY <1>1 DEF Record

LEMMA CreateMoves ==
  ASSUME TypeOK, NamesOK, habit.reuse = "never", NEW n \in Name, Create(n)
  PROVE  Moved /\ Reports
<1>1. OsOK
  BY TypeParts
<1>2. /\ dir[n] = None /\ n \notin taken /\ dir' = [dir EXCEPT ![n] = born + 1]
      /\ born' = born + 1 /\ taken' = taken \cup {n} /\ renamedAway \subseteq renamedAway'
      /\ UNCHANGED <<skipped, unidentified, reinited>>
      /\ Report(<<Record("Add", Reported(n))>>)
  BY DEF Create, Free, Exists, Leaves
<1>3. born \in Nat /\ dir \in [Name -> File \cup {None}] /\ \A f \in File : f \in Nat
  BY <1>1, Constants DEF OsOK, File
<1>4. \A m \in Name : dir[m] # None => dir[m] \in File /\ m \in taken /\ dir[m] <= born
  BY <1>3 DEF NamesOK, OnceUsed, Stands
<1>5. /\ UNCHANGED <<mapVars, task, queue, phase, fromStart, printed, habit>>
      /\ \A a : \A m \in Name : Pending(a, m)' => Pending(a, m) \/ (a = "Add" /\ m = n)
  BY <1>2, ReportTold, ReportedMeans
<1>6. OneName'
  BY <1>2, <1>3, <1>4 DEF NamesOK, OneName
<1>7. Moved
  BY <1>2, <1>3, <1>4, <1>5, <1>6 DEF Moved
<1>8. Reports
  BY <1>2, <1>3, <1>5 DEF Reports
<1> QED BY <1>7, <1>8

LEMMA StillMoved ==
  ASSUME TypeOK, NamesOK, UNCHANGED <<mapVars, task, queue, phase, fromStart, printed, habit>>,
         UNCHANGED <<dir, born, taken, history>>
  PROVE  Moved
<1>1. OsOK
  BY TypeParts
<1>2. born \in Nat /\ dir \in [Name -> File \cup {None}] /\ \A f \in File : f \in Nat
  BY <1>1, Constants DEF OsOK, File
<1>3. \A m \in Name : dir[m] # None => dir[m] \in File /\ m \in taken /\ dir[m] <= born
  BY <1>2 DEF NamesOK, OnceUsed, Stands
<1> QED BY <1>2, <1>3 DEF Moved, history, NamesOK, OneName

LEMMA AppendMoves ==
  ASSUME TypeOK, NamesOK, NEW n \in Name, AppendLine(n)
  PROVE  Moved /\ Reports
<1>1. UNCHANGED <<dir, folder, born, locked, taken, history>>
      /\ Report(<<Record("Modify", Reported(n))>>)
  BY DEF AppendLine
<1>2. /\ UNCHANGED <<mapVars, task, queue, phase, fromStart, printed, habit>>
      /\ \A a : \A m \in Name : Pending(a, m)' => Pending(a, m) \/ a = "Modify"
  BY <1>1, ReportTold, ReportedMeans
<1>3. Moved
  BY <1>1, <1>2, StillMoved
<1> QED BY <1>2, <1>3 DEF Reports

LEMMA DeleteMoves ==
  ASSUME TypeOK, NamesOK, habit.reuse = "never", NEW n \in Name, Delete(n)
  PROVE  Moved /\ Reports
<1>1. OsOK
  BY TypeParts
<1>2. /\ dir[n] # None /\ dir' = [dir EXCEPT ![n] = None]
      /\ UNCHANGED <<born, taken, history>> /\ Report(<<Record("Remove", Reported(n))>>)
  BY DEF Delete, Exists
<1>3. born \in Nat /\ dir \in [Name -> File \cup {None}] /\ \A f \in File : f \in Nat
  BY <1>1, Constants DEF OsOK, File
<1>4. \A m \in Name : dir[m] # None => dir[m] \in File /\ m \in taken /\ dir[m] <= born
  BY <1>3 DEF NamesOK, OnceUsed, Stands
<1>5. /\ UNCHANGED <<mapVars, task, queue, phase, fromStart, printed, habit>>
      /\ \A a : \A m \in Name : Pending(a, m)' => Pending(a, m) \/ (a = "Remove" /\ m = n)
  BY <1>2, ReportTold, ReportedMeans
<1>6. Moved
  BY <1>2, <1>3, <1>4, <1>5 DEF Moved, history, NamesOK, OneName
<1>7. \E f \in File : dir[n] = f /\ Dead(f)'
  <2>1. dir[n] \in File /\ \A m \in Name : dir'[m] # dir[n]
    BY <1>2, <1>3, <1>4 DEF NamesOK, OneName
  <2>2. PICK f \in File : f = dir[n]
    BY <2>1
  <2>3. Dead(f)'
    BY <2>1, <2>2 DEF Dead
  <2> QED BY <2>2, <2>3
<1> QED BY <1>2, <1>5, <1>6, <1>7 DEF Reports

LEMMA RenameMoves ==
  ASSUME TypeOK, NamesOK, habit.reuse = "never", NEW n \in Name, NEW m \in Name, Rename(n, m)
  PROVE  Moved /\ Reports
<1>1. OsOK
  BY TypeParts
<1>2. /\ dir[n] # None /\ dir[m] = None /\ m \notin taken
      /\ dir' = [dir EXCEPT ![n] = None, ![m] = dir[n]]
      /\ taken' = taken \cup {m} /\ Leaves(dir[n], m)
      /\ UNCHANGED <<born, skipped, unidentified, reinited>>
      /\ Report(<<Record("RenameNew", Reported(m))>>)
  BY DEF Rename, Exists, Free
<1>3. born \in Nat /\ dir \in [Name -> File \cup {None}] /\ \A f \in File : f \in Nat
  BY <1>1, Constants DEF OsOK, File
<1>4. \A k \in Name : dir[k] # None => dir[k] \in File /\ k \in taken /\ dir[k] <= born
  BY <1>3 DEF NamesOK, OnceUsed, Stands
<1>5. /\ UNCHANGED <<mapVars, task, queue, phase, fromStart, printed, habit>>
      /\ \A a : \A k \in Name : Pending(a, k)' => Pending(a, k) \/ (a = "RenameNew" /\ k = m)
  BY <1>2, ReportTold, ReportedMeans
<1>6. dir'[n] = None /\ dir'[m] = dir[n] /\ \A k \in Name \ {n, m} : dir'[k] = dir[k]
  BY <1>2, <1>3
<1>7. OneName'
  BY <1>2, <1>6 DEF NamesOK, OneName
<1>8. ~Dead(dir[n])
  BY DEF Dead
<1>9. Moved
  <2>1. taken \subseteq taken' /\ renamedAway \subseteq renamedAway' /\ m \in taken'
    BY <1>2 DEF Leaves
  <2>2. \A k \in Name : dir'[k] # None => k \in taken' /\ dir'[k] <= born'
    BY <1>2, <1>4, <1>6, <2>1
  <2>3. \A k \in Name : dir'[k] # None =>
          dir'[k] = dir[k] \/ (k \notin taken /\ (~Dead(dir'[k]) \/ dir'[k] > born))
    BY <1>2, <1>6, <1>8
  <2> QED BY <1>2, <1>3, <1>5, <1>7, <2>1, <2>2, <2>3 DEF Moved
<1>10. m \in Matching \/ dir'[m] \in renamedAway'
  BY <1>2, <1>6 DEF Leaves
<1>11. \A k \in Name : Pending("RenameNew", k)' =>
         \/ Pending("RenameNew", k)
         \/ k \notin taken /\ k \in taken' /\ (k \in Matching \/ dir'[k] \in renamedAway')
  BY <1>2, <1>5, <1>10
<1> QED BY <1>5, <1>9, <1>11 DEF Reports

LEMMA RenameFolderMoves ==
  ASSUME TypeOK, NamesOK, habit.reuse = "never", NEW d \in Folder, RenameFolder(d)
  PROVE  Moved /\ Reports
<1>1. OsOK
  BY TypeParts
<1>2. /\ \A b \in Base : dir[<<d, b>>] = None /\ <<d, b>> \notin taken
      /\ dir' = [n \in Name |-> IF n[1] = d THEN dir[<<folder, n[2]>>] ELSE None]
      /\ taken' = taken \cup {n \in Name : n[1] \in {d, folder}}
      /\ UNCHANGED <<born, history>> /\ Report(<<Record("RenameNew", <<d>>)>>)
  BY DEF RenameFolder, Exists, Free
<1>3. born \in Nat /\ dir \in [Name -> File \cup {None}] /\ \A f \in File : f \in Nat
  BY <1>1, Constants DEF OsOK, File
<1>4. \A k \in Name : dir[k] # None => dir[k] \in File /\ k \in taken /\ dir[k] <= born
  BY <1>3 DEF NamesOK, OnceUsed, Stands
<1>5. /\ UNCHANGED <<mapVars, task, queue, phase, fromStart, printed, habit>>
      /\ \A a : \A k \in Name : Pending(a, k)' => Pending(a, k)
  <2>1. Record("RenameNew", <<d>>).path = <<d>> /\ <<d>> \in FolderPath
    BY Paths DEF Record
  <2> QED BY <1>2, <2>1, ReportTold, FolderMeans
<1>6. ASSUME NEW n \in Name, dir'[n] # None
      PROVE  /\ n[1] = d /\ n = <<d, n[2]>> /\ n[2] \in Base /\ n \notin taken /\ n \in taken'
             /\ <<folder, n[2]>> \in Name /\ dir'[n] = dir[<<folder, n[2]>>]
  <2>1. n[1] = d /\ n = <<d, n[2]>> /\ n[2] \in Base
    BY <1>2, <1>6 DEF Name
  <2>2. <<folder, n[2]>> \in Name
    BY <1>1, <2>1 DEF Name, OsOK
  <2> QED BY <1>2, <2>1, <2>2
<1>7. OneName'
  <2> SUFFICES ASSUME NEW n \in Name, NEW m \in Name, dir'[n] # None, dir'[n] = dir'[m]
               PROVE  n = m
    BY DEF OneName
  <2>1. /\ <<folder, n[2]>> \in Name /\ <<folder, m[2]>> \in Name
        /\ dir[<<folder, n[2]>>] # None /\ dir[<<folder, n[2]>>] = dir[<<folder, m[2]>>]
    BY <1>6
  <2>2. <<folder, n[2]>> = <<folder, m[2]>>
    BY <2>1 DEF NamesOK, OneName
  <2>3. n[2] = m[2]
    BY <2>2
  <2> QED BY <1>6, <2>3
<1>8. Moved
  <2>1. \A n \in Name : dir'[n] # None => ~Dead(dir'[n]) /\ dir'[n] <= born'
    BY <1>2, <1>4, <1>6 DEF Dead
  <2> QED BY <1>2, <1>3, <1>5, <1>6, <1>7, <2>1 DEF Moved, history
<1> QED BY <1>5, <1>8 DEF Reports

LEMMA LockMoves ==
  ASSUME TypeOK, NamesOK, (\E n \in Name : Lock(n)) \/ Unlock
  PROVE  Moved /\ Reports
<1>1. /\ UNCHANGED <<mapVars, task, queue, phase, fromStart, printed, habit>>
      /\ UNCHANGED <<dir, born, taken, history>> /\ kernel' \in {kernel, kernel \o <<>>}
  BY DEF Lock, Unlock, Report
<1>2. kernel' = kernel
  BY <1>1, TypeParts DEF ThreadsOK
<1> QED BY <1>1, <1>2, StillMoved DEF Reports, Pending

LEMMA ApplicationMoves ==
  ASSUME TypeOK, NamesOK, habit.reuse = "never", Application \/ Unlock
  PROVE  Moved /\ Reports
  BY CreateMoves, AppendMoves, DeleteMoves, RenameMoves, RenameFolderMoves, LockMoves
  DEF Application

-----------------------------------------------------------------------------
(***************************************************************************)
(* The directory thread.                                                   *)
(***************************************************************************)
LEMMA SameMaps ==
  ASSUME MapsAgree, UNCHANGED <<dir, mapVars, task>>
  PROVE  MapsAgree'
  BY DEF MapsAgree, IdsTracked, TrackedHasId, TrackedHasShort, ShortMeans, AddIsNew, Adding, mapVars

LEMMA SameOrder ==
  ASSUME Order, UNCHANGED <<dir, born, mapVars, task, printed, skipped, renamedAway>>
  PROVE  Order'
  BY DEF Order, OffsetCounts, UntrackedUnread, AddedUnread, Consecutive, InOrder, Adding, Dead, mapVars

LEMMA ToldNext ==
  ASSUME NEW S, NEW s \in Seq(S), NEW e, NEW action, NEW n, Told(Append(s, e), action, n)
  PROVE  Told(s, action, n) \/ (e.action = action /\ Means(e.path, n))
<1>1. PICK k \in 1 .. Len(Append(s, e)) :
        Append(s, e)[k].action = action /\ Means(Append(s, e)[k].path, n)
  BY DEF Told
<1>2. Len(Append(s, e)) = Len(s) + 1 /\ Len(s) \in Nat
  OBVIOUS
<1>3. CASE k \in 1 .. Len(s)
  BY <1>1, <1>3 DEF Told
<1>4. CASE k = Len(s) + 1
  <2>1. Append(s, e)[k] = e
    BY <1>2, <1>4
  <2> QED BY <1>1, <2>1
<1> QED BY <1>2, <1>3, <1>4

LEMMA ReInitNext ==
  ASSUME ThreadsOK, ReInitKnown, NEW e, queue' \in {queue, Append(queue, e)},
         e.action = "ReInit" => reinited', reinited => reinited'
  PROVE  ReInitKnown'
<1>1. CASE queue' = queue
  BY <1>1 DEF ReInitKnown
<1>2. CASE queue' = Append(queue, e)
  <2>1. queue \in Seq(Events)
    BY DEF ThreadsOK
  <2>2. Len(queue') = Len(queue) + 1 /\ Len(queue) \in Nat /\ queue'[Len(queue) + 1] = e
        /\ \A k \in 1 .. Len(queue) : queue'[k] = queue[k]
    BY <1>2, <2>1
  <2>3. \A k \in 1 .. Len(queue') : k \in 1 .. Len(queue) \/ k = Len(queue) + 1
    BY <2>2
  <2> QED BY <2>2, <2>3 DEF ReInitKnown
<1> QED BY <1>1, <1>2

LEMMA NoticeAgrees ==
  ASSUME TypeOK, Links, Notice
  PROVE  Links' /\ (Order => Order')
<1>1. OsOK /\ ThreadsOK /\ TaskOK
  BY TypeParts
<1>2. /\ kernel # <<>> /\ kernel' = Tail(kernel) /\ Accept(Head(kernel))
      /\ UNCHANGED <<osVars, phase, fromStart, task, mapVars, printed, history>>
  BY DEF Notice
<1>3. kernel \in Seq(Records) /\ queue \in Seq(Events)
  BY <1>1 DEF ThreadsOK
<1> DEFINE r == Head(kernel)
<1>4. r \in Records
  BY <1>2, <1>3
<1>5. PICK path : /\ path \in {r.path, LongPath(r.path)}
                  /\ queue' \in {queue, Append(queue, [action |-> r.action, path |-> path, time |-> clock'])}
  BY <1>2 DEF Accept
<1> DEFINE e == [action |-> r.action, path |-> path, time |-> clock']
<1>6. \A a : \A n \in Name : Pending(a, n)' => Pending(a, n)
  <2> SUFFICES ASSUME NEW a, NEW n \in Name, Pending(a, n)' PROVE Pending(a, n)
    OBVIOUS
  <2>1. CASE Told(kernel', a, n)
    BY <1>2, <1>3, <2>1, ToldTail DEF Pending
  <2>2. CASE Told(queue', a, n) /\ ~Told(queue, a, n)
    <3>1. r.action = a /\ Means(path, n)
      <4>1. queue' = Append(queue, e) /\ e.action = r.action /\ e.path = path
        BY <1>5, <2>2
      <4> HIDE DEF e, r
      <4> QED BY <1>3, <2>2, <4>1, ToldNext
    <3>2. Means(r.path, n)
      BY <1>5, <3>1, LongPathMeans
    <3>3. Told(kernel, r.action, n)
      BY <1>2, <1>3, <3>2, ToldTail
    <3> QED BY <3>1, <3>3 DEF Pending
  <2> QED BY <2>1, <2>2 DEF Pending
<1>7. NamesOK'
  <2>1. Keeps
    BY <1>2, <1>6 DEF Keeps, osVars, history, mapVars, Stands, Adding, ToDo
  <2> QED BY <1>1, <2>1, KeepsNames DEF Links
<1>8. ReInitKnown'
  <2>1. e.action # "ReInit"
    BY <1>4 DEF Records, Action
  <2> QED BY <1>1, <1>2, <1>5, <2>1, ReInitNext DEF history, Links
<1>9. MapsAgree' /\ Started'
  <2>1. MapsAgree'
    BY <1>2, SameMaps DEF osVars, Links
  <2> QED BY <1>2, <2>1 DEF Links, Started, mapVars, history
<1>10. Order => Order'
  BY <1>2, SameOrder DEF osVars, history
<1> QED BY <1>7, <1>8, <1>9, <1>10 DEF Links

LEMMA LossAgrees ==
  ASSUME TypeOK, Links, Loses
  PROVE  Links' /\ (Order => Order')
<1>1. OsOK /\ ThreadsOK /\ TaskOK
  BY TypeParts
<1> DEFINE e == [action |-> "ReInit", path |-> <<>>, time |-> clock]
<1>2. /\ kernel' = <<>> /\ queue' \in {queue, Append(queue, e)} /\ reinited'
      /\ UNCHANGED <<osVars, phase, fromStart, task, mapVars, printed>>
      /\ UNCHANGED <<skipped, renamedAway, unidentified>>
  BY DEF Loses, Overflow, OverflowIsSilent
<1>3. queue \in Seq(Events)
  BY <1>1 DEF ThreadsOK
<1>4. \A a \in Moves, n \in Name : Pending(a, n)' => Pending(a, n)
  <2> SUFFICES ASSUME NEW a \in Moves, NEW n \in Name, Pending(a, n)' PROVE Told(queue, a, n)
    BY DEF Pending
  <2>1. ~Told(kernel', a, n)
    BY <1>2 DEF Told
  <2>2. Told(kernel', a, n) \/ Told(queue', a, n)
    BY DEF Pending
  <2>3. CASE queue' = queue
    BY <2>1, <2>2, <2>3
  <2>4. CASE queue' = Append(queue, e)
    BY <1>3, <2>1, <2>2, <2>4, ToldNext DEF Moves
  <2> QED BY <1>2, <2>3, <2>4
<1>5. NamesOK'
  <2>1. Keeps
    BY <1>2, <1>4 DEF Keeps, osVars, mapVars, Stands, Adding, ToDo
  <2> QED BY <1>1, <2>1, KeepsNames DEF Links
<1>6. ReInitKnown'
  BY <1>1, <1>2, ReInitNext DEF Links
<1>7. MapsAgree' /\ Started'
  <2>1. MapsAgree'
    BY <1>2, SameMaps DEF osVars, Links
  <2> QED BY <1>2, <2>1 DEF Links, Started, mapVars
<1>8. Order => Order'
  BY <1>2, SameOrder DEF osVars
<1> QED BY <1>5, <1>6, <1>7, <1>8 DEF Links

LEMMA RegisterAgrees ==
  ASSUME TypeOK, Links, Register
  PROVE  Links' /\ (Order => Order')
<1>1. /\ UNCHANGED <<osVars, clock, kernel, fromStart, queue, task, mapVars, printed, history>>
      /\ phase # "new" /\ phase # "running" /\ phase' = "registered"
  BY DEF Register
<1>2. OsOK /\ NamesOK
  BY TypeParts DEF Links
<1>3. NamesOK'
  <2>1. Keeps
    BY <1>1 DEF Keeps, osVars, history, mapVars, Stands, Adding, ToDo, Pending
  <2> QED BY <1>2, <2>1, KeepsNames
<1>4. MapsAgree'
  BY <1>1, SameMaps DEF osVars, Links
<1>5. Started' /\ ReInitKnown'
  BY <1>1 DEF Links, Started, ReInitKnown, mapVars, history
<1>6. Order => Order'
  BY <1>1, SameOrder DEF osVars, history
<1> QED BY <1>3, <1>4, <1>5, <1>6 DEF Links

-----------------------------------------------------------------------------
(***************************************************************************)
(* Reading goes on where it ended.                                         *)
(***************************************************************************)
LEMMA ConcatIs ==
  ASSUME NEW A, NEW s \in Seq(A), NEW t \in Seq(A)
  PROVE  /\ s \o t \in Seq(A) /\ Len(s \o t) = Len(s) + Len(t) /\ Len(s) \in Nat /\ Len(t) \in Nat
         /\ \A i \in 1 .. Len(s \o t) : (s \o t)[i] = IF i <= Len(s) THEN s[i] ELSE t[i - Len(s)]
  OBVIOUS

LEMMA LinesAre ==
  ASSUME NEW A, A = 1 .. MaxLines, NEW s \in Seq(A), NEW from \in Nat, NEW end \in 0 .. MaxLines, from < end,
         NEW base \in Nat, from = base + Len(s), \A i \in 1 .. Len(s) : s[i] = base + i
  PROVE  /\ base + Len(s \o LinesAfter(from, end)) = end
         /\ \A i \in 1 .. Len(s \o LinesAfter(from, end)) : (s \o LinesAfter(from, end))[i] = base + i
<1> DEFINE t == LinesAfter(from, end)
           d == end - from
<1>1. end \in Nat /\ d \in Nat /\ from + d = end
  BY Constants
<1>2. s \in Seq(A) /\ t \in Seq(A) /\ Len(s) \in Nat
  BY LinesTyped
<1>3. Len(t) = d /\ \A i \in 1 .. d : t[i] = from + i
  <2>1. t = [i \in 1 .. d |-> from + i]
    BY DEF LinesAfter
  <2> HIDE DEF d, t
  <2> QED BY <1>1, <2>1
<1> HIDE DEF t, d
<1>4. Len(s \o t) = Len(s) + d
  BY <1>2, <1>3, ConcatIs
<1>5. \A i \in 1 .. Len(s) + d : (s \o t)[i] = IF i <= Len(s) THEN s[i] ELSE t[i - Len(s)]
  BY <1>2, <1>4, ConcatIs
<1>6. base + Len(s \o t) = end
  BY <1>1, <1>2, <1>4
<1>7. ASSUME NEW i \in 1 .. Len(s \o t)
      PROVE  (s \o t)[i] = base + i
  <2>1. i \in Nat /\ i >= 1 /\ i <= Len(s) + d
    BY <1>1, <1>2, <1>4
  <2>2. CASE i <= Len(s)
    BY <1>2, <1>5, <2>1, <2>2
  <2>3. CASE ~(i <= Len(s))
    <3>1. i - Len(s) \in 1 .. d
      BY <1>1, <1>2, <2>1, <2>3
    <3>2. t[i - Len(s)] = from + (i - Len(s))
      BY <1>3, <3>1
    <3> QED BY <1>1, <1>2, <1>4, <1>5, <2>1, <2>3, <3>2
  <2> QED BY <2>2, <2>3
<1> QED BY <1>6, <1>7 DEF t

\* Of a file whose offset counts what is printed and skipped of it.
LEMMA ReadsOn ==
  ASSUME OsOK, PrintedOK, HistoryOK, OneName, NEW S, S \subseteq Name,
         NEW known, \A n \in S : known[n] \in Info, ReadLogFiles(S, known),
         NEW f \in File, UNCHANGED skipped, InOrder(f),
         \A n \in S : dir[n] = f => known[n].offset = skipped[f] + Len(printed[f])
  PROVE  /\ \A n \in S : CanOpen(n) /\ dir[n] = f => info'[n].offset = skipped[f] + Len(printed'[f])
         /\ InOrder(f)'
         /\ (\A n \in S : dir[n] # f) => printed'[f] = printed[f]
<1> DEFINE R == {n \in S : CanOpen(n) /\ dir[n] = f}
           from == known[CHOOSE n \in R : TRUE].offset
           s == printed[f]
           end == lines[f]
           base == skipped[f]
           A == 1 .. MaxLines
<1>1. /\ s \in Seq(A) /\ end \in 0 .. MaxLines /\ base \in Nat /\ Len(s) \in Nat
      /\ end \in Nat
  BY Constants DEF PrintedOK, OsOK, HistoryOK
<1>2. /\ printed'[f] = IF \E n \in R : known[n].offset < end
                       THEN s \o LinesAfter(from, end) ELSE s
      /\ \A n \in S : CanOpen(n) =>
           info'[n].offset = IF lines[dir[n]] > known[n].offset THEN lines[dir[n]] ELSE known[n].offset
  BY DEF ReadLogFiles
<1>3. \A n \in R : known[n].offset = base + Len(s)
  OBVIOUS
<1>4. CASE \E n \in R : known[n].offset < end
  <2>1. from = base + Len(s)
    BY <1>3, <1>4
  <2>2. from \in Nat /\ from < end
    BY <1>1, <1>3, <1>4, <2>1
  <2>3. printed'[f] = s \o LinesAfter(from, end)
    BY <1>2, <1>4
  <2>4. base + Len(printed'[f]) = end /\ \A i \in 1 .. Len(printed'[f]) : printed'[f][i] = base + i
    <3> HIDE DEF from, s, end, base, R, A
    <3>1. \A i \in 1 .. Len(s) : s[i] = base + i
      BY DEF s, base, InOrder
    <3>2. A = 1 .. MaxLines /\ end \in 0 .. MaxLines
      BY <1>1 DEF A
    <3> QED BY <1>1, <2>1, <2>2, <2>3, <3>1, <3>2, LinesAre
  <2>5. \A n \in R : info'[n].offset = end
    <3> SUFFICES ASSUME NEW n \in R PROVE info'[n].offset = end
      OBVIOUS
    <3>1. known[n].offset < end /\ known[n].offset \in Nat
      BY <1>3, <2>1, <2>2
    <3>2. info'[n].offset = IF end > known[n].offset THEN end ELSE known[n].offset
      BY <1>2
    <3> HIDE DEF end
    <3> QED BY <1>1, <3>1, <3>2
  <2> QED BY <1>4, <2>4, <2>5 DEF InOrder
<1>5. CASE ~(\E n \in R : known[n].offset < end)
  <2>1. printed'[f] = s
    BY <1>2, <1>5
  <2>2. \A n \in R : info'[n].offset = known[n].offset
    <3> SUFFICES ASSUME NEW n \in R PROVE info'[n].offset = known[n].offset
      OBVIOUS
    <3>1. known[n].offset \in Nat /\ ~(known[n].offset < end)
      BY <1>1, <1>3, <1>5
    <3>2. info'[n].offset = IF end > known[n].offset THEN end ELSE known[n].offset
      BY <1>2
    <3> HIDE DEF end
    <3> QED BY <1>1, <3>1, <3>2
  <2> QED BY <1>3, <2>1, <2>2 DEF InOrder
<1> QED BY <1>4, <1>5

LEMMA ReadKeeps ==
  ASSUME OsOK, clock \in 1 .. MaxClock, NEW S, S \subseteq Name,
         NEW known, \A n \in S : known[n] \in Info, ReadLogFiles(S, known)
  PROVE  /\ \A n \in Name : info'[n] = None <=> known[n] = None
         /\ \A n \in Name : ~(n \in S /\ CanOpen(n)) => info'[n] = known[n]
<1>1. ASSUME NEW n \in S, CanOpen(n)
      PROVE  [offset |-> IF lines[dir[n]] > known[n].offset THEN lines[dir[n]] ELSE known[n].offset,
              lastRead |-> clock] \in Info
  <2>1. lines[dir[n]] \in 0 .. MaxLines /\ known[n].offset \in 0 .. MaxLines
    BY <1>1, FileIs DEF Info
  <2>2. clock \in 0 .. MaxClock
    BY Constants
  <2> QED BY <2>1, <2>2 DEF Info
<1> QED BY <1>1, NoneIs DEF ReadLogFiles

-----------------------------------------------------------------------------
(***************************************************************************)
(* The handler takes an event.                                             *)
(***************************************************************************)
LEMMA TakesTold ==
  ASSUME TypeOK, Links, NEW action, Takes(action)
  PROVE  /\ UNCHANGED <<osVars, clock, kernel, phase, fromStart>> /\ phase = "running" /\ task = Idle
         /\ \A a, n : Pending(a, n)' => Pending(a, n)
         /\ \A n \in Name : Means(Event.path, n) => Pending(action, n)
         /\ ReInitKnown /\ (reinited => reinited') => ReInitKnown'
         /\ action = "ReInit" => reinited
<1>1. /\ UNCHANGED <<osVars, clock, kernel, phase, fromStart>> /\ phase = "running" /\ task = Idle
      /\ queue # <<>> /\ queue' = Tail(queue) /\ Event.action = action
  BY DEF Takes
<1>2. queue \in Seq(Events) /\ MapsOK /\ ShortMeans
  BY TypeParts DEF ThreadsOK, Links, MapsAgree
<1>3. \A a, n : Pending(a, n)' => Pending(a, n)
  <2>1. \A a, n : Told(queue', a, n) => Told(queue, a, n)
    BY <1>1, <1>2, ToldTail
  <2> QED BY <1>1, <2>1 DEF Pending
<1>4. Head(queue) \in Events
  BY <1>1, <1>2
<1>5. Event.action = Head(queue).action /\ Event.path = Resolve(Head(queue).path)
  BY <1>4 DEF Event, Events
<1>6. \A n \in Name : Means(Event.path, n) => Pending(action, n)
  <2> SUFFICES ASSUME NEW n \in Name, Means(Event.path, n) PROVE Told(queue, action, n)
    BY DEF Pending
  <2>1. Means(Head(queue).path, n)
    BY <1>2, <1>5, ResolveMeans
  <2> QED BY <1>1, <1>2, <1>5, <2>1, ToldTail
<1>7. Len(queue) \in Nat \ {0} /\ Len(queue') = Len(queue) - 1 /\ Head(queue) = queue[1]
      /\ \A k \in 1 .. Len(queue') : queue'[k] = queue[k + 1] /\ k + 1 \in 1 .. Len(queue)
  BY <1>1, <1>2
<1>8. ReInitKnown /\ (reinited => reinited') => ReInitKnown'
  BY <1>7 DEF ReInitKnown
<1>9. action = "ReInit" => reinited
  <2>1. 1 \in 1 .. Len(queue)
    BY <1>7
  <2> QED BY <1>1, <1>5, <1>7, <2>1 DEF Links, ReInitKnown
<1> QED BY <1>1, <1>3, <1>6, <1>8, <1>9

\* What is the same for every step of the handler.
LEMMA HandlerLinks ==
  ASSUME TypeOK, Links, phase = "running", phase' = "running", ReInitKnown', MapsAgree',
         UNCHANGED <<osVars, renamedAway, fromStart>>,
         \A n \in Name, a \in Moves : Pending(a, n)' => Pending(a, n),
         \A n \in Name, f \in File : Stands(n, f)' => Stands(n, f),
         \A n \in Name : info'[n] # None =>
           info[n] # None \/ dir[n] # None \/ \E f \in File : Stands(n, f)
  PROVE  Links'
<1>1. OsOK /\ NamesOK /\ Started
  BY TypeParts DEF Links
<1>2. Keeps
  BY DEF Keeps, osVars
<1>3. NamesOK'
  BY <1>1, <1>2, KeepsNames
<1>4. Started'
  BY <1>1 DEF Started
<1> QED BY <1>3, <1>4 DEF Links

-----------------------------------------------------------------------------
(***************************************************************************)
(* Reading what is tracked.                                                *)
(***************************************************************************)
LEMMA ReadingAgrees ==
  ASSUME TypeOK, Links, phase = "running", phase' = "running", ReInitKnown', task = Idle,
         UNCHANGED <<osVars, fromStart, task, longPaths, fileIds, history>>,
         \A n \in Name, a \in Moves : Pending(a, n)' => Pending(a, n),
         NEW S, S \subseteq {n \in Name : info[n] # None}, ReadLogFiles(S, info)
  PROVE  Links' /\ (Order => Order')
<1>1. OsOK /\ PrintedOK /\ HistoryOK /\ MapsOK /\ clock \in 1 .. MaxClock
  BY TypeParts DEF ThreadsOK
<1>2. S \subseteq Name /\ \A n \in S : info[n] \in Info
  BY <1>1 DEF MapsOK
<1>3. /\ \A n \in Name : info'[n] = None <=> info[n] = None
      /\ \A n \in Name : ~(n \in S /\ CanOpen(n)) => info'[n] = info[n]
  BY <1>1, <1>2, ReadKeeps
<1>4. MapsAgree'
  <2>1. UNCHANGED <<dir, longPaths, fileIds, task>> /\ fileIds \in [Id -> Name \cup {None}]
    BY <1>1 DEF osVars, MapsOK
  <2>2. IdsTracked' /\ TrackedHasId' /\ TrackedHasShort'
    BY <1>3, <2>1, NoneIs DEF Links, MapsAgree, IdsTracked, TrackedHasId, TrackedHasShort, Id
  <2>3. ShortMeans' /\ AddIsNew'
    BY <2>1 DEF Links, MapsAgree, ShortMeans, AddIsNew, Adding
  <2> QED BY <2>2, <2>3 DEF MapsAgree
<1>5. Links'
  <2>1. \A n \in Name, f \in File : Stands(n, f)' => Stands(n, f)
    BY DEF Stands, Adding, ToDo, osVars
  <2>2. UNCHANGED <<osVars, renamedAway, fromStart>>
    BY DEF history
  <2> QED BY <1>3, <1>4, <2>1, <2>2, HandlerLinks
<1>6. ASSUME Order PROVE Order'
  <2>1. UNCHANGED <<dir, born, task, fileIds, skipped, renamedAway>>
    BY DEF osVars, history
  <2>2. OneName /\ OneFile
    BY DEF Links, NamesOK
  <2>3. ASSUME NEW n \in S, NEW f \in File, dir[n] = f
        PROVE  fileIds[f] = n
    BY <2>3 DEF Links, MapsAgree, TrackedHasId
  <2>4. ASSUME NEW f \in File \ renamedAway
        PROVE  /\ \A n \in S : CanOpen(n) /\ dir[n] = f =>
                    info'[n].offset = skipped[f] + Len(printed'[f])
               /\ InOrder(f)'
               /\ (\A n \in S : dir[n] # f) => printed'[f] = printed[f]
    <3>1. InOrder(f)
      BY <1>6 DEF Order, Consecutive
    <3>2. \A n \in S : dir[n] = f => info[n].offset = skipped[f] + Len(printed[f])
      BY <1>2, <1>6, <2>3, NoneIs DEF Order, OffsetCounts
    <3>3. f \in File
      OBVIOUS
    <3> QED BY <1>1, <1>2, <2>1, <2>2, <3>1, <3>2, <3>3, ReadsOn
  <2>5. OffsetCounts'
    <3> SUFFICES ASSUME NEW f \in File \ renamedAway, fileIds[f] # None
                 PROVE  info'[fileIds[f]].offset = skipped[f] + Len(printed'[f])
      BY <2>1 DEF OffsetCounts
    <3> DEFINE n == fileIds[f]
    <3>1. n \in Name
      BY <1>1 DEF MapsOK, Id
    <3>2. CASE n \in S /\ CanOpen(n)
      <4>1. dir[n] \in File /\ Stands(n, dir[n]) /\ Stands(n, f)
        BY <1>1, <3>1, <3>2, FileIs DEF Stands
      <4>2. dir[n] = f
        BY <2>2, <3>1, <4>1 DEF OneFile
      <4> QED BY <2>4, <3>2, <4>2
    <3>3. CASE ~(n \in S /\ CanOpen(n))
      <4>1. info'[n] = info[n]
        BY <1>3, <3>1, <3>3
      <4>2. printed'[f] = printed[f]
        <5>1. CASE \A m \in S : dir[m] # f
          BY <2>4, <5>1
        <5>2. CASE \E m \in S : dir[m] = f
          <6>1. n \in S /\ dir[n] = f /\ ~CanOpen(n)
            BY <2>3, <3>3, <5>2
          <6>2. ~(\E m \in S : CanOpen(m) /\ dir[m] = f)
            BY <1>2, <2>3, <6>1
          <6> QED BY <6>2 DEF ReadLogFiles
        <5> QED BY <5>1, <5>2
      <4> QED BY <1>6, <4>1, <4>2 DEF Order, OffsetCounts
    <3> QED BY <3>2, <3>3
  <2>6. UntrackedUnread'
    <3> SUFFICES ASSUME NEW f \in File \ renamedAway, fileIds[f] = None, f > born \/ ~Dead(f)
                 PROVE  printed'[f] = <<>> /\ skipped[f] = 0
      BY <2>1 DEF UntrackedUnread, Dead
    <3>1. \A n \in S : dir[n] # f
      BY <1>2, <2>3, NoneIs
    <3> QED BY <1>6, <2>4, <3>1 DEF Order, UntrackedUnread
  <2>7. AddedUnread' /\ Consecutive'
    BY <2>1, <2>4 DEF AddedUnread, Adding, Idle, Consecutive
  <2> QED BY <2>5, <2>6, <2>7 DEF Order
<1> QED BY <1>5, <1>6

LEMMA TimerAgrees ==
  ASSUME TypeOK, Links, TimerReadsAll
  PROVE  Links' /\ (Order => Order')
<1> DEFINE S == {n \in Name : info[n] # None}
<1>1. /\ phase = "running" /\ task = Idle /\ ReadLogFiles(S, info)
      /\ UNCHANGED <<osVars, clock, kernel, phase, fromStart, queue, task, longPaths, fileIds, history>>
  BY DEF TimerReadsAll
<1>2. ReInitKnown' /\ \A n \in Name, a \in Moves : Pending(a, n)' => Pending(a, n)
  BY <1>1 DEF Links, ReInitKnown, Pending, history
<1> HIDE DEF S
<1>3. S \subseteq {n \in Name : info[n] # None}
  BY DEF S
<1> QED BY <1>1, <1>2, <1>3, ReadingAgrees

LEMMA ModifyAgrees ==
  ASSUME TypeOK, Links, HandleModify
  PROVE  Links' /\ (Order => Order')
<1>1. Takes("Modify") /\ UNCHANGED <<task, longPaths, fileIds, history>>
  BY DEF HandleModify
<1>2. /\ UNCHANGED <<osVars, clock, kernel, phase, fromStart>> /\ phase = "running" /\ task = Idle
      /\ \A a, n : Pending(a, n)' => Pending(a, n)
      /\ ReInitKnown'
  BY <1>1, TakesTold DEF history, Links
<1> DEFINE n == LookUp(Event.path)
<1>3. CASE n # None /\ ReadLogFiles({n}, info)
  <2>1. {n} \subseteq {m \in Name : info[m] # None}
    <3>1. MapsOK /\ ShortMeans
      BY TypeParts DEF Links, MapsAgree
    <3> QED BY <1>3, <3>1, LookUpMeans
  <2> HIDE DEF n
  <2> QED BY <1>1, <1>2, <1>3, <2>1, ReadingAgrees
<1>4. CASE UNCHANGED <<info, printed>>
  <2>1. MapsAgree'
    BY <1>1, <1>2, <1>4, SameMaps DEF Links, mapVars, osVars
  <2>2. \A m \in Name, f \in File : Stands(m, f)' => Stands(m, f)
    BY <1>1, <1>2 DEF Stands, Adding, ToDo, osVars
  <2>3. Links'
    BY <1>1, <1>2, <1>4, <2>1, <2>2, HandlerLinks DEF history
  <2>4. Order => Order'
    BY <1>1, <1>2, <1>4, SameOrder DEF mapVars, osVars, history
  <2> QED BY <2>3, <2>4
<1> QED BY <1>3, <1>4 DEF HandleModify

LEMMA RenamedAgainAgrees ==
  ASSUME TypeOK, Links, HandleRenamedAgain
  PROVE  Links' /\ (Order => Order')
<1>1. Takes("RenameNew") /\ UNCHANGED <<task, mapVars, printed, history>>
  BY DEF HandleRenamedAgain
<1>2. /\ UNCHANGED <<osVars, clock, kernel, phase, fromStart>> /\ phase = "running"
      /\ \A a, n : Pending(a, n)' => Pending(a, n)
      /\ ReInitKnown'
  BY <1>1, TakesTold DEF history, Links
<1>3. MapsAgree'
  BY <1>1, <1>2, SameMaps DEF Links, osVars
<1>4. \A m \in Name, f \in File : Stands(m, f)' => Stands(m, f)
  BY <1>1, <1>2 DEF Stands, Adding, ToDo, osVars, mapVars
<1>5. Links'
  BY <1>1, <1>2, <1>3, <1>4, HandlerLinks DEF history, mapVars
<1>6. Order => Order'
  BY <1>1, <1>2, SameOrder DEF osVars, history
<1> QED BY <1>5, <1>6

-----------------------------------------------------------------------------
(***************************************************************************)
(* A file is forgotten.                                                    *)
(***************************************************************************)
LEMMA ForgetLinks ==
  ASSUME TypeOK, NamesOK, MapsAgree, NEW path, Forget(path), LookUp(path) # None,
         UNCHANGED dir, \A n \in Name, f \in File : ~Adding(n, f)'
  PROVE  /\ MapsAgree'
         /\ \A n \in Name : info'[n] = IF n = LookUp(path) THEN None ELSE info[n]
         /\ \A f \in File : fileIds'[f] = IF fileIds[f] = LookUp(path) THEN None ELSE fileIds[f]
<1>1. OsOK /\ MapsOK /\ OneFile
  BY TypeParts DEF NamesOK
<1> DEFINE n == LookUp(path)
           ids == {i \in DOMAIN fileIds : fileIds[i] = n}
           keys == IF Tracked(path) THEN {path} ELSE {p \in FilePath : longPaths[p] = n}
<1>2. n \in Name /\ n # None
  BY <1>1, LookUpMeans DEF MapsAgree
<1>3. /\ info' = [info EXCEPT ![n] = None]
      /\ longPaths' = [p \in FilePath |-> IF p \in keys THEN None ELSE longPaths[p]]
      /\ \E gone \in ids \cup (IF ids = {} THEN {NoId} ELSE {}) :
           fileIds' = [fileIds EXCEPT ![gone] = IF @ = n THEN None ELSE @]
  BY DEF Forget
<1>4. /\ DOMAIN fileIds = Id /\ fileIds[NoId] = None /\ NoId \in Id /\ File \subseteq Id
      /\ \A i \in Id : i \in File \/ i = NoId
  BY <1>1 DEF MapsOK, MapsAgree, IdsTracked, Id
<1>5. \A i \in Id : fileIds'[i] = IF fileIds[i] = n THEN None ELSE fileIds[i]
  <2>1. PICK gone \in ids \cup (IF ids = {} THEN {NoId} ELSE {}) :
          fileIds' = [fileIds EXCEPT ![gone] = IF @ = n THEN None ELSE @]
    BY <1>3
  <2>2. gone \in Id /\ (ids # {} => gone \in ids)
    BY <1>4, <2>1
  <2>3. \A i, j \in ids : i = j
    <3> SUFFICES ASSUME NEW i \in ids, NEW j \in ids PROVE i = j
      OBVIOUS
    <3>1. i \in File /\ j \in File /\ Stands(n, i) /\ Stands(n, j)
      BY <1>2, <1>4 DEF Stands
    <3> QED BY <1>1, <1>2, <3>1 DEF OneFile
  <2> HIDE DEF n
  <2> QED BY <1>4, <2>1, <2>2, <2>3
<1>6. \A m \in Name : info'[m] = IF m = n THEN None ELSE info[m]
  BY <1>1, <1>2, <1>3 DEF MapsOK
<1> HIDE DEF n
<1>7. IdsTracked' /\ TrackedHasId'
  <2>1. fileIds'[NoId] = None
    BY <1>4, <1>5
  <2>2. \A f \in File : fileIds[f] # None => fileIds[f] \in Name /\ info[fileIds[f]] # None
    BY <1>1, <1>4 DEF MapsAgree, IdsTracked, MapsOK
  <2>3. \A f \in File : fileIds'[f] # None => info'[fileIds'[f]] # None
    BY <1>4, <1>5, <1>6, <2>2
  <2>4. IdsTracked'
    BY <2>1, <2>3 DEF IdsTracked
  <2>5. TrackedHasId'
    BY <1>4, <1>5, <1>6 DEF MapsAgree, TrackedHasId
  <2> QED BY <2>4, <2>5
<1>8. TrackedHasShort'
  <2> SUFFICES ASSUME NEW m \in Name, info'[m] # None, dir[m] # None
               PROVE  longPaths'[Short[m]] = m
    BY DEF TrackedHasShort
  <2>1. m # n /\ info[m] # None /\ longPaths[Short[m]] = m
    BY <1>6 DEF MapsAgree, TrackedHasShort
  <2>2. Short[m] \notin keys
    <3>1. CASE Tracked(path)
      <4>1. path = n
        BY <3>1 DEF n, LookUp
      <4> QED BY <1>2, <2>1, <3>1, <4>1, FileTailAssumption
    <3>2. CASE ~Tracked(path)
      BY <2>1, <3>2
    <3> QED BY <3>1, <3>2
  <2> HIDE DEF keys
  <2> QED BY <1>3, <2>1, <2>2, Paths
<1>9. ShortMeans'
  <2> HIDE DEF keys
  <2> QED BY <1>3 DEF MapsAgree, ShortMeans
<1> QED BY <1>5, <1>4, <1>6, <1>7, <1>8, <1>9 DEF MapsAgree, AddIsNew, n

LEMMA ForgetOrder ==
  ASSUME TypeOK, NamesOK, MapsAgree, Order, NEW path, Forget(path), LookUp(path) # None,
         UNCHANGED <<dir, born, printed, skipped, renamedAway>>,
         \A n \in Name, f \in File : ~Adding(n, f)',
         \A f \in File : fileIds[f] = LookUp(path) => f \in renamedAway \/ (Dead(f) /\ f <= born)
  PROVE  Order'
<1>1. /\ \A n \in Name : info'[n] = IF n = LookUp(path) THEN None ELSE info[n]
      /\ \A f \in File : fileIds'[f] = IF fileIds[f] = LookUp(path) THEN None ELSE fileIds[f]
  BY ForgetLinks
<1>2. MapsOK /\ born \in Nat /\ \A f \in File : f \in Nat
  BY TypeParts, Constants DEF OsOK, File
<1>3. OffsetCounts'
  <2>1. \A f \in File : fileIds[f] \in Name \cup {None}
    BY <1>2 DEF MapsOK, Id
  <2> QED BY <1>1, <2>1 DEF Order, OffsetCounts
<1>4. UntrackedUnread'
  BY <1>1, <1>2 DEF Order, UntrackedUnread, Dead
<1>5. AddedUnread' /\ Consecutive'
  BY DEF Order, AddedUnread, Consecutive, InOrder
<1> QED BY <1>3, <1>4, <1>5 DEF Order

LEMMA ForgetAgrees ==
  ASSUME TypeOK, Links, NEW action, Takes(action), task' = Idle,
         UNCHANGED <<printed, history>>, NEW path, Forget(path),
         \A f \in File : LookUp(path) # None /\ fileIds[f] = LookUp(path) =>
           f \in renamedAway \/ (Dead(f) /\ f <= born)
  PROVE  Links' /\ (Order => Order')
<1>1. /\ UNCHANGED <<osVars, clock, kernel, phase, fromStart>> /\ phase = "running"
      /\ \A a, n : Pending(a, n)' => Pending(a, n)
      /\ task = Idle /\ ReInitKnown'
  BY TakesTold DEF history, Links
<1>2. NamesOK /\ MapsAgree
  BY DEF Links
<1>3. UNCHANGED <<dir, born, skipped, renamedAway>> /\ \A n \in Name, f \in File : ~Adding(n, f)'
  BY <1>1 DEF osVars, history, Adding, Idle
<1>4. CASE LookUp(path) = None
  <2>1. UNCHANGED mapVars
    BY <1>4 DEF Forget
  <2>2. MapsAgree'
    BY <1>1, <1>2, <1>3, <2>1, SameMaps
  <2>3. \A m \in Name, f \in File : Stands(m, f)' => Stands(m, f)
    BY <1>1, <1>3, <2>1 DEF Stands, Adding, ToDo, mapVars
  <2>4. Links'
    BY <1>1, <1>3, <2>1, <2>2, <2>3, HandlerLinks DEF mapVars
  <2>5. Order => Order'
    BY <1>1, <1>3, <2>1, SameOrder
  <2> QED BY <2>4, <2>5
<1>5. CASE LookUp(path) # None
  <2>1. /\ MapsAgree'
        /\ \A n \in Name : info'[n] = IF n = LookUp(path) THEN None ELSE info[n]
        /\ \A f \in File : fileIds'[f] = IF fileIds[f] = LookUp(path) THEN None ELSE fileIds[f]
    BY <1>2, <1>3, <1>5, ForgetLinks
  <2>2. \A m \in Name, f \in File : Stands(m, f)' => Stands(m, f)
    BY <1>1, <1>3, <2>1, NoneIs DEF Stands, Adding, ToDo
  <2>3. Links'
    BY <1>1, <1>3, <2>1, <2>2, HandlerLinks
  <2>4. Order => Order'
    BY <1>2, <1>3, <1>5, ForgetOrder
  <2> QED BY <2>3, <2>4
<1> QED BY <1>4, <1>5

LEMMA RemoveAgrees ==
  ASSUME TypeOK, Links, HandleRemove
  PROVE  Links' /\ (Order => Order')
<1>1. Takes("Remove") /\ Forget(Event.path) /\ UNCHANGED <<task, printed, history>>
  BY DEF HandleRemove
<1>2. task = Idle /\ \A n \in Name : Means(Event.path, n) => Pending("Remove", n)
  BY <1>1, TakesTold
<1>3. ASSUME NEW f \in File, LookUp(Event.path) # None, fileIds[f] = LookUp(Event.path)
      PROVE  Dead(f) /\ f <= born
  <2> DEFINE n == LookUp(Event.path)
  <2>1. MapsOK /\ ShortMeans
    BY TypeParts DEF Links, MapsAgree
  <2>2. n \in Name /\ Pending("Remove", n)
    BY <1>2, <1>3, <2>1, LookUpMeans
  <2>3. Stands(n, f)
    BY <1>3 DEF Stands
  <2> HIDE DEF n
  <2> QED BY <2>2, <2>3 DEF Links, NamesOK, RemovedIsDead, OnceUsed
<1> QED BY <1>1, <1>2, <1>3, ForgetAgrees

-----------------------------------------------------------------------------
(***************************************************************************)
(* A file is added.                                                        *)
(***************************************************************************)
LEMMA LongPathName ==
  ASSUME NEW n \in Name
  PROVE  LongPath(n) = n
<1>1. CASE \E m \in Name : Exists(m) /\ Short[m] = n
  <2> DEFINE k == CHOOSE m \in Name : Short[m] = n
  <2>1. k \in Name /\ Short[k] = n
    BY <1>1
  <2>2. LongPath(n) = k
    BY <1>1 DEF LongPath
  <2> QED BY <2>1, <2>2, FileTailAssumption
<1>2. CASE ~(\E m \in Name : Exists(m) /\ Short[m] = n)
  BY <1>2 DEF LongPath
<1> QED BY <1>1, <1>2

LEMMA FileIdIs ==
  ASSUME OsOK, NEW n \in Name
  PROVE  /\ FileId(n) # NoId => FileId(n) \in File /\ dir[n] = FileId(n) /\ CanOpen(n)
         /\ NoId \notin File
<1>1. NoId \notin File
  BY DEF NoId, File
<1> QED BY <1>1, FileIs DEF FileId, CanOpen, Exists, Id

LEMMA StartAddAgrees ==
  ASSUME TypeOK, Links, NEW action, Takes(action), UNCHANGED <<mapVars, printed, history>>,
         NEW path, StartAdd(path),
         \A f \in File : LongPath(path) \in Name /\ FileId(LongPath(path)) = f
                         /\ LookUp(path) = None => fileIds[f] = None
  PROVE  Links' /\ (Order => Order')
<1> DEFINE n == LongPath(path)
<1>1. /\ UNCHANGED <<osVars, clock, kernel, phase, fromStart>> /\ phase = "running"
      /\ \A a, m : Pending(a, m)' => Pending(a, m)
      /\ task = Idle /\ ReInitKnown'
  BY TakesTold DEF history, Links
<1>2. OsOK
  BY TypeParts
<1>3. UNCHANGED <<dir, born, skipped, renamedAway, info, longPaths, fileIds>>
  BY <1>1 DEF osVars, history, mapVars
<1>4. ASSUME NEW m \in Name, NEW f \in File, Adding(m, f)'
      PROVE  dir[m] = f /\ fileIds[f] = None /\ task'.short = Short[m]
  <2>1. task' # Idle
    BY <1>4 DEF Adding, Idle
  <2>2. /\ LookUp(path) = None /\ n \in Name /\ Exists(n)
        /\ task' = [does |-> "add", name |-> n, short |-> ShortPath(n), id |-> FileId(n)]
    BY <2>1 DEF StartAdd
  <2>3. n = m /\ FileId(n) = f /\ task'.short = Short[m]
    BY <1>4, <2>2 DEF Adding, ShortPath
  <2> QED BY <1>2, <2>2, <2>3, FileIdIs
<1>5. \A m \in Name, f \in File : Stands(m, f)' => Stands(m, f)
  <2>1. task'.does # "folder"
    BY DEF StartAdd, Idle
  <2> QED BY <1>3, <1>4, <2>1 DEF Stands, ToDo
<1>6. MapsAgree'
  <2>1. AddIsNew'
    BY <1>3, <1>4 DEF AddIsNew
  <2> QED BY <1>3, <2>1
      DEF Links, MapsAgree, IdsTracked, TrackedHasId, TrackedHasShort, ShortMeans
<1>7. Links'
  BY <1>1, <1>3, <1>5, <1>6, HandlerLinks
<1>8. ASSUME Order PROVE Order'
  <2>1. AddedUnread'
    <3> SUFFICES ASSUME NEW m \in Name, NEW f \in File \ renamedAway, Adding(m, f)'
                 PROVE  printed[f] = <<>> /\ skipped[f] = 0
      BY <1>3 DEF AddedUnread
    <3>1. dir[m] = f /\ fileIds[f] = None
      BY <1>4
    <3> QED BY <1>8, <3>1 DEF Order, UntrackedUnread, Dead
  <2> QED BY <1>3, <1>8, <2>1
      DEF Order, OffsetCounts, UntrackedUnread, Consecutive, InOrder, Dead
<1> QED BY <1>7, <1>8

LEMMA AddAgrees ==
  ASSUME TypeOK, Links, HandleAdd
  PROVE  Links' /\ (Order => Order')
<1>1. Takes("Add") /\ StartAdd(Event.path) /\ UNCHANGED <<mapVars, printed, history>>
  BY DEF HandleAdd
<1> DEFINE n == LongPath(Event.path)
<1>2. \A m \in Name : Means(Event.path, m) => Pending("Add", m)
  BY <1>1, TakesTold
<1>3. OsOK /\ MapsOK
  BY TypeParts
<1>4. ASSUME NEW f \in File, n \in Name, FileId(n) = f, LookUp(Event.path) = None
      PROVE  fileIds[f] = None
  <2>1. Means(Event.path, n) /\ Pending("Add", n)
    <3>1. Means(n, n)
      BY DEF Means
    <3> QED BY <1>2, <1>4, <3>1, LongPathMeans
  <2>2. dir[n] = f
    BY <1>3, <1>4, FileIdIs
  <2> HIDE DEF n
  <2>3. SUFFICES ASSUME fileIds[f] # None PROVE FALSE
    OBVIOUS
  <2>4. fileIds[f] \in Name /\ Stands(fileIds[f], f)
    BY <1>3, <2>3 DEF MapsOK, Id, Stands
  <2>5. fileIds[f] = n /\ info[n] # None
    BY <1>4, <2>1, <2>2, <2>3, <2>4
    DEF Links, NamesOK, AddedIsFirst, MapsAgree, IdsTracked
  <2>6. LookUp(Event.path) = n
    BY <1>4, <2>1, <2>2, <2>5, NoneIs, LookUpFinds DEF Links, MapsAgree
  <2> QED BY <1>4, <2>6, NoneIs
<1> QED BY <1>1, <1>4, StartAddAgrees

LEMMA AddingIs ==
  ASSUME TypeOK, Links, FinishAdd, ~unidentified'
  PROVE  /\ task.name \in Name /\ task.id \in File /\ task.short = Short[task.name]
         /\ Adding(task.name, task.id) /\ fileIds[task.id] = None
<1>1. task \in Adds /\ task.does = "add"
  BY TypeParts DEF FinishAdd, TaskOK, Folders, Idle
<1>2. task.name \in Name /\ task.id \in Id /\ task.id # NoId
  BY <1>1 DEF Adds, FinishAdd
<1>3. task.id \in File /\ Adding(task.name, task.id)
  BY <1>1, <1>2 DEF Id, Adding
<1> QED BY <1>2, <1>3 DEF Links, MapsAgree, AddIsNew

LEMMA FinishAddAgrees ==
  ASSUME TypeOK, Links, FinishAdd, ~unidentified'
  PROVE  Links' /\ (Order => Order')
<1> DEFINE n == task.name
           f == task.id
           known == [info EXCEPT ![n] = NeverRead]
<1>1. OsOK /\ MapsOK /\ PrintedOK /\ HistoryOK /\ clock \in 1 .. MaxClock
  BY TypeParts DEF ThreadsOK
<1>2. n \in Name /\ f \in File /\ task.short = Short[n] /\ Adding(n, f) /\ fileIds[f] = None
  BY AddingIs
<1>3. /\ ReadLogFiles({n}, known) /\ task' = Idle
      /\ longPaths' = [longPaths EXCEPT ![Short[n]] = n] /\ fileIds' = [fileIds EXCEPT ![f] = n]
      /\ UNCHANGED <<osVars, clock, kernel, phase, fromStart, queue, skipped, overlooked, renamedAway,
                     reinited>>
  BY <1>2 DEF FinishAdd
<1>4. NeverRead \in Info /\ NeverRead.offset = 0 /\ NeverRead # None
  BY Constants, NoneIs DEF NeverRead, Info
<1>5. /\ known[n] = NeverRead /\ \A m \in Name \ {n} : known[m] = info[m]
      /\ {n} \subseteq Name /\ \A m \in {n} : known[m] \in Info
  BY <1>1, <1>2, <1>4 DEF MapsOK
<1> HIDE DEF n, f, known
<1>6. /\ info'[n] # None /\ \A m \in Name \ {n} : info'[m] = info[m]
      /\ ~CanOpen(n) => info'[n] = NeverRead
  <2>1. /\ \A m \in Name : info'[m] = None <=> known[m] = None
        /\ \A m \in Name : ~(m \in {n} /\ CanOpen(m)) => info'[m] = known[m]
    BY <1>1, <1>3, <1>5, ReadKeeps
  <2> QED BY <1>2, <1>4, <1>5, <2>1
<1>7. /\ fileIds'[f] = n /\ fileIds'[NoId] = fileIds[NoId]
      /\ \A g \in File \ {f} : fileIds'[g] = fileIds[g]
      /\ \A g \in File : fileIds[g] \in Name \cup {None}
  <2>1. NoId \notin File
    BY DEF NoId, File
  <2> QED BY <1>1, <1>2, <1>3, <2>1 DEF MapsOK, Id
<1>8. UNCHANGED <<dir, born, skipped, renamedAway>> /\ \A m \in Name, g \in File : ~Adding(m, g)'
  BY <1>3 DEF osVars, Adding, Idle
<1>9. OneName /\ OneFile /\ \A g \in File : Stands(n, g) => g = f
  BY <1>2 DEF Links, NamesOK, OneFile, Stands
<1>10. ASSUME NEW m \in Name, NEW g \in File, Stands(m, g)'
       PROVE  Stands(m, g)
  <2>1. ~ToDo(m, g)'
    BY <1>3 DEF ToDo, Idle
  <2> QED BY <1>2, <1>7, <1>8, <1>10, <2>1 DEF Stands
<1>11. MapsAgree'
  <2>1. IdsTracked'
    BY <1>2, <1>6, <1>7 DEF Links, MapsAgree, IdsTracked
  <2>2. TrackedHasId'
    <3> SUFFICES ASSUME NEW m \in Name, NEW g \in File, info'[m] # None, dir[m] = g
                 PROVE  fileIds'[g] = m
      BY <1>8 DEF TrackedHasId
    <3>1. CASE m = n
      BY <1>7, <1>9, <3>1 DEF Stands
    <3>2. CASE m # n
      <4>1. fileIds[g] = m
        BY <1>6, <3>2 DEF Links, MapsAgree, TrackedHasId
      <4>2. g # f
        BY <1>2, <4>1, NoneIs
      <4> QED BY <1>7, <4>1, <4>2
    <3> QED BY <3>1, <3>2
  <2>3. TrackedHasShort'
    <3>1. longPaths'[Short[n]] = n /\ \A m \in Name \ {n} : longPaths'[Short[m]] = longPaths[Short[m]]
      BY <1>1, <1>2, <1>3, Paths, NameMeans DEF MapsOK
    <3> QED BY <1>6, <1>8, <3>1 DEF Links, MapsAgree, TrackedHasShort
  <2>4. ShortMeans'
    <3>1. \A p \in FilePath : longPaths'[p] = IF p = Short[n] THEN n ELSE longPaths[p]
      BY <1>1, <1>3 DEF MapsOK
    <3> QED BY <1>2, <3>1, NameMeans DEF Links, MapsAgree, ShortMeans
  <2> QED BY <1>8, <2>1, <2>2, <2>3, <2>4 DEF MapsAgree, AddIsNew
<1>12. Links'
  <2>1. NamesOK'
    <3>1. \A m \in Name, a \in Moves : Pending(a, m)' => Pending(a, m)
      BY <1>3 DEF Pending
    <3>2. \A m \in Name : info'[m] # None => info[m] # None \/ \E g \in File : Stands(m, g)
      BY <1>2, <1>6 DEF Stands
    <3>3. Keeps
      BY <1>3, <1>10, <3>1, <3>2 DEF Keeps, osVars
    <3> QED BY <1>1, <3>3, KeepsNames DEF Links
  <2>2. phase = "running"
    BY <1>2 DEF Links, Started, Adding, Idle
  <2>3. Started' /\ ReInitKnown'
    BY <1>3, <2>2 DEF Links, Started, ReInitKnown
  <2> QED BY <1>11, <2>1, <2>3 DEF Links
<1>13. ASSUME Order PROVE Order'
  <2>1. f \in renamedAway \/ (printed[f] = <<>> /\ skipped[f] = 0)
    BY <1>2, <1>13 DEF Order, AddedUnread
  <2>2. ASSUME NEW g \in File \ renamedAway
        PROVE  /\ CanOpen(n) /\ dir[n] = g => info'[n].offset = skipped[g] + Len(printed'[g])
               /\ InOrder(g)'
               /\ dir[n] # g => printed'[g] = printed[g]
    <3>1. InOrder(g) /\ g \in File
      BY <1>13 DEF Order, Consecutive
    <3>2. dir[n] = g => known[n].offset = skipped[g] + Len(printed[g])
      BY <1>4, <1>5, <1>9, <2>1 DEF Stands
    <3>3. /\ \A m \in {n} : CanOpen(m) /\ dir[m] = g => info'[m].offset = skipped[g] + Len(printed'[g])
          /\ InOrder(g)'
          /\ (\A m \in {n} : dir[m] # g) => printed'[g] = printed[g]
      BY <1>1, <1>3, <1>5, <1>8, <1>9, <3>1, <3>2, ReadsOn
    <3> QED BY <3>3
  <2>3. OffsetCounts'
    <3> SUFFICES ASSUME NEW g \in File \ renamedAway, fileIds'[g] # None
                 PROVE  info'[fileIds'[g]].offset = skipped[g] + Len(printed'[g])
      BY <1>8 DEF OffsetCounts
    <3>1. CASE g # f
      <4>1. fileIds'[g] = fileIds[g] /\ fileIds[g] \in Name
        BY <1>7, <3>1
      <4>2. fileIds[g] # n /\ dir[n] # g
        BY <1>9, <3>1 DEF Stands
      <4> QED BY <1>6, <1>13, <2>2, <4>1, <4>2 DEF Order, OffsetCounts
    <3>2. CASE g = f /\ CanOpen(n)
      <4>1. dir[n] \in File /\ Stands(n, dir[n])
        BY <1>1, <1>2, <3>2, FileIs DEF Stands
      <4> QED BY <1>7, <1>9, <2>2, <3>2, <4>1
    <3>3. CASE g = f /\ ~CanOpen(n)
      <4>1. printed'[f] = printed[f]
        BY <1>2, <1>3, <3>3 DEF ReadLogFiles
      <4> QED BY <1>4, <1>6, <1>7, <2>1, <3>3, <4>1
    <3> QED BY <3>1, <3>2, <3>3
  <2>4. UntrackedUnread'
    <3> SUFFICES ASSUME NEW g \in File \ renamedAway, fileIds'[g] = None, g > born \/ ~Dead(g)
                 PROVE  printed'[g] = <<>> /\ skipped[g] = 0
      BY <1>8 DEF UntrackedUnread, Dead
    <3>1. g # f /\ fileIds[g] = None
      BY <1>2, <1>7, NoneIs
    <3>2. dir[n] # g
      BY <1>9, <3>1 DEF Stands
    <3> QED BY <1>13, <2>2, <3>1, <3>2 DEF Order, UntrackedUnread
  <2>5. AddedUnread' /\ Consecutive'
    BY <1>8, <2>2 DEF AddedUnread, Consecutive
  <2> QED BY <2>3, <2>4, <2>5 DEF Order
<1> QED BY <1>12, <1>13

-----------------------------------------------------------------------------
(***************************************************************************)
(* A file is renamed.                                                      *)
(***************************************************************************)
LEMMA RenameLinks ==
  ASSUME TypeOK, NamesOK, MapsAgree, NEW new \in Name, NEW id \in File, RenameInMaps(new, id),
         Stands(new, id), fileIds[id] # None,
         UNCHANGED dir, \A n \in Name, f \in File : ~Adding(n, f)'
  PROVE  /\ MapsAgree'
         /\ fileIds[id] \in Name
         /\ \A m \in Name : info'[m] = IF m = new THEN info[fileIds[id]]
                                       ELSE IF m = fileIds[id] THEN None ELSE info[m]
         /\ \A f \in File : fileIds'[f] = IF f = id THEN new ELSE fileIds[f]
<1>1. OsOK /\ MapsOK /\ OneFile
  BY TypeParts DEF NamesOK
<1> DEFINE old == fileIds[id]
           keys == IF longPaths[old] # None THEN {old} ELSE {p \in FilePath : longPaths[p] = old}
<1>2. old \in Name /\ old # None /\ info[old] # None /\ Stands(old, id)
  BY <1>1 DEF MapsOK, Id, MapsAgree, IdsTracked, Stands
<1>3. LookUp(old) = old
  BY <1>2, LookUpName
<1>4. /\ info' = [m \in Name |-> IF m = new THEN info[old] ELSE IF m = old THEN None ELSE info[m]]
      /\ longPaths' = [p \in FilePath |-> IF p = ShortPath(new) THEN new
                                          ELSE IF p \in keys THEN None ELSE longPaths[p]]
      /\ fileIds' = [fileIds EXCEPT ![id] = new]
  BY <1>2, <1>3 DEF RenameInMaps
<1>5. \A p \in keys : p = old \/ longPaths[p] = old
  OBVIOUS
<1> HIDE DEF old, keys
<1>6. NoId \notin File /\ fileIds \in [Id -> Name \cup {None}] /\ Id = File \cup {NoId}
  BY <1>1 DEF NoId, File, MapsOK, Id
<1>7. /\ fileIds'[NoId] = None
      /\ \A f \in File : fileIds'[f] = IF f = id THEN new ELSE fileIds[f]
  BY <1>4, <1>6 DEF MapsAgree, IdsTracked
<1>8. \A f \in File : fileIds[f] # None =>
        fileIds[f] \in Name /\ info[fileIds[f]] # None /\ Stands(fileIds[f], f)
  BY <1>6 DEF MapsAgree, IdsTracked, Stands
<1>9. IdsTracked'
  <2>1. ASSUME NEW f \in File, fileIds'[f] # None PROVE info'[fileIds'[f]] # None
    <3>1. CASE f = id
      BY <1>2, <1>4, <1>7, <3>1
    <3>2. CASE f # id
      <4>1. fileIds'[f] = fileIds[f] /\ fileIds[f] \in Name /\ info[fileIds[f]] # None
            /\ Stands(fileIds[f], f)
        BY <1>7, <1>8, <2>1, <3>2
      <4>2. fileIds[f] # new /\ fileIds[f] # old
        BY <1>1, <1>2, <3>2, <4>1 DEF OneFile
      <4> QED BY <1>4, <4>1, <4>2
    <3> QED BY <3>1, <3>2
  <2> QED BY <1>7, <2>1 DEF IdsTracked
<1>10. TrackedHasId'
  <2> SUFFICES ASSUME NEW m \in Name, NEW g \in File, info'[m] # None, dir[m] = g
               PROVE  fileIds'[g] = m
    BY DEF TrackedHasId
  <2>1. CASE m = new
    <3>1. g = id
      BY <1>1, <2>1 DEF OneFile, Stands
    <3> QED BY <1>7, <2>1, <3>1
  <2>2. CASE m # new
    <3>1. m # old /\ info[m] # None
      BY <1>4, <2>2
    <3>2. fileIds[g] = m
      BY <3>1 DEF MapsAgree, TrackedHasId
    <3>3. g # id
      BY <3>1, <3>2 DEF old
    <3> QED BY <1>7, <3>2, <3>3
  <2> QED BY <2>1, <2>2
<1>11. TrackedHasShort'
  <2> SUFFICES ASSUME NEW m \in Name, info'[m] # None, dir[m] # None
               PROVE  longPaths'[Short[m]] = m
    BY DEF TrackedHasShort
  <2>1. CASE m = new
    BY <1>4, <2>1, Paths DEF ShortPath, Exists
  <2>2. CASE m # new
    <3>1. m # old /\ longPaths[Short[m]] = m
      BY <1>4, <2>2 DEF MapsAgree, TrackedHasShort
    <3>2. Short[m] \notin keys
      BY <1>2, <1>5, <3>1, FileTailAssumption
    <3>3. Short[m] # ShortPath(new)
      BY <2>2, FileTailAssumption DEF ShortPath
    <3> QED BY <1>4, <3>1, <3>2, <3>3, Paths
  <2> QED BY <2>1, <2>2
<1>12. ShortMeans'
  <2>1. Means(ShortPath(new), new)
    BY DEF Means, ShortPath
  <2> QED BY <1>4, <2>1 DEF MapsAgree, ShortMeans
<1> QED BY <1>2, <1>4, <1>7, <1>9, <1>10, <1>11, <1>12 DEF MapsAgree, AddIsNew, old

LEMMA RenameOrder ==
  ASSUME TypeOK, NamesOK, MapsAgree, Order, NEW new \in Name, NEW id \in File,
         RenameInMaps(new, id), Stands(new, id), fileIds[id] # None,
         UNCHANGED <<dir, born, printed, skipped, renamedAway>>,
         \A n \in Name, f \in File : ~Adding(n, f)'
  PROVE  Order'
<1>1. /\ fileIds[id] \in Name
      /\ \A m \in Name : info'[m] = IF m = new THEN info[fileIds[id]]
                                    ELSE IF m = fileIds[id] THEN None ELSE info[m]
      /\ \A f \in File : fileIds'[f] = IF f = id THEN new ELSE fileIds[f]
  BY RenameLinks
<1>2. MapsOK /\ OneFile
  BY TypeParts DEF NamesOK
<1>3. OffsetCounts'
  <2> SUFFICES ASSUME NEW f \in File \ renamedAway, fileIds'[f] # None
               PROVE  info'[fileIds'[f]].offset = skipped[f] + Len(printed[f])
    BY DEF OffsetCounts
  <2>1. CASE f = id
    <3>1. info'[fileIds'[f]] = info[fileIds[f]]
      BY <1>1, <2>1
    <3> QED BY <2>1, <3>1 DEF Order, OffsetCounts
  <2>2. CASE f # id
    <3>1. fileIds'[f] = fileIds[f] /\ fileIds[f] \in Name
      BY <1>1, <1>2, <2>2 DEF MapsOK, Id
    <3>2. fileIds[f] # new /\ fileIds[f] # fileIds[id]
      BY <1>1, <1>2, <2>2, <3>1 DEF OneFile, Stands
    <3> QED BY <1>1, <3>1, <3>2 DEF Order, OffsetCounts
  <2> QED BY <2>1, <2>2
<1>4. UntrackedUnread'
  BY <1>1, NoneIs DEF Order, UntrackedUnread, Dead
<1>5. AddedUnread' /\ Consecutive'
  BY DEF Order, AddedUnread, Consecutive, InOrder
<1> QED BY <1>3, <1>4, <1>5 DEF Order

\* A step that renames a file which the handler finds under its new name, or found there.
LEMMA RenameAgrees ==
  ASSUME TypeOK, Links, phase = "running", phase' = "running", ReInitKnown',
         UNCHANGED <<osVars, fromStart, printed, history>>,
         \A n \in Name, a \in Moves : Pending(a, n)' => Pending(a, n),
         \A n \in Name, f \in File : ~Adding(n, f)' /\ (ToDo(n, f)' => ToDo(n, f)),
         NEW new \in Name, NEW id \in File, RenameInMaps(new, id),
         Stands(new, id), fileIds[id] # None
  PROVE  Links' /\ (Order => Order')
<1>1. NamesOK /\ MapsAgree /\ UNCHANGED <<dir, born, skipped, renamedAway>>
  BY DEF Links, osVars, history
<1>2. /\ MapsAgree' /\ fileIds[id] \in Name
      /\ \A m \in Name : info'[m] = IF m = new THEN info[fileIds[id]]
                                    ELSE IF m = fileIds[id] THEN None ELSE info[m]
      /\ \A f \in File : fileIds'[f] = IF f = id THEN new ELSE fileIds[f]
  BY <1>1, RenameLinks
<1>3. \A m \in Name, f \in File : Stands(m, f)' => Stands(m, f)
  BY <1>1, <1>2 DEF Stands
<1>4. \A n \in Name : info'[n] # None => info[n] # None \/ \E f \in File : Stands(n, f)
  BY <1>2
<1>5. Links'
  BY <1>1, <1>2, <1>3, <1>4, HandlerLinks
<1>6. Order => Order'
  BY <1>1, RenameOrder
<1> QED BY <1>5, <1>6

LEMMA FileRenamedAgrees ==
  ASSUME TypeOK, Links, HandleFileRenamed
  PROVE  Links' /\ (Order => Order')
<1> DEFINE n == LongPath(Event.path)
           id == FileId(n)
<1>1. /\ Takes("RenameNew") /\ n \in Name /\ Exists(n) /\ UNCHANGED <<printed, history>>
      /\ \/ fileIds[id] # None /\ RenameInMaps(n, id) /\ UNCHANGED task
         \/ fileIds[id] # None /\ n \notin Matching /\ Forget(fileIds[id]) /\ UNCHANGED task
         \/ fileIds[id] = None /\ StartAdd(n) /\ UNCHANGED mapVars
         \/ UNCHANGED <<mapVars, task>>
  BY DEF HandleFileRenamed
<1>2. /\ UNCHANGED <<osVars, clock, kernel, phase, fromStart>> /\ phase = "running"
      /\ \A a, m : Pending(a, m)' => Pending(a, m)
      /\ task = Idle /\ ReInitKnown'
      /\ \A m \in Name : Means(Event.path, m) => Pending("RenameNew", m)
  BY <1>1, TakesTold DEF history, Links
<1>3. OsOK /\ MapsOK
  BY TypeParts
<1>4. Pending("RenameNew", n)
  <2>1. Means(n, n)
    BY DEF Means
  <2> QED BY <1>1, <1>2, <2>1, LongPathMeans
<1>5. id # NoId => id \in File /\ dir[n] = id
  BY <1>1, <1>3, FileIdIs
<1>6. fileIds[NoId] = None
  BY DEF Links, MapsAgree, IdsTracked
<1>7. n = LongPath(n)
  BY <1>1, LongPathName
<1>8. id = FileId(LongPath(n))
  BY <1>7
<1> HIDE DEF n, id
<1>9. CASE fileIds[id] # None /\ RenameInMaps(n, id) /\ UNCHANGED task
  <2>1. id \in File /\ Stands(n, id)
    BY <1>5, <1>6, <1>9 DEF Stands
  <2>2. \A m \in Name, f \in File : ~Adding(m, f)' /\ ~ToDo(m, f)'
    BY <1>2, <1>9 DEF Adding, ToDo, Idle
  <2> QED BY <1>1, <1>2, <1>9, <2>1, <2>2, RenameAgrees
<1>10. CASE fileIds[id] # None /\ n \notin Matching /\ Forget(fileIds[id]) /\ UNCHANGED task
  <2>1. id \in File /\ dir[n] = id
    BY <1>5, <1>6, <1>10
  <2>2. id \in renamedAway
    BY <1>1, <1>4, <1>10, <2>1 DEF Links, NamesOK, LeftFilter
  <2>3. fileIds[id] \in Name /\ LookUp(fileIds[id]) = fileIds[id]
    BY <1>3, <1>10, <2>1, LookUpName DEF MapsOK, Id, Links, MapsAgree, IdsTracked
  <2>4. \A f \in File : fileIds[f] = fileIds[id] => f = id
    BY <2>1, <2>3 DEF Links, NamesOK, OneFile, Stands
  <2> QED BY <1>1, <1>2, <1>10, <2>2, <2>3, <2>4, ForgetAgrees
<1>11. CASE fileIds[id] = None /\ StartAdd(n) /\ UNCHANGED mapVars
  BY <1>1, <1>8, <1>11, StartAddAgrees
<1>12. CASE UNCHANGED <<mapVars, task>>
  <2>1. MapsAgree'
    BY <1>2, <1>12, SameMaps DEF Links, osVars
  <2>2. \A m \in Name, f \in File : Stands(m, f)' => Stands(m, f)
    BY <1>2, <1>12 DEF Stands, Adding, ToDo, osVars, mapVars
  <2>3. Links'
    BY <1>1, <1>2, <1>12, <2>1, <2>2, HandlerLinks DEF history, mapVars
  <2>4. Order => Order'
    BY <1>1, <1>2, <1>12, SameOrder DEF osVars, history
  <2> QED BY <2>3, <2>4
<1> QED BY <1>1, <1>9, <1>10, <1>11, <1>12

LEMMA FolderRenamedAgrees ==
  ASSUME TypeOK, Links, HandleFolderRenamed
  PROVE  Links' /\ (Order => Order')
<1>1. /\ Takes("RenameNew")
      /\ task' = [does |-> "folder", todo |-> {[name |-> n, id |-> FileId(n)] : n \in Listing}]
      /\ UNCHANGED <<mapVars, printed, skipped, renamedAway, unidentified, reinited>>
  BY DEF HandleFolderRenamed
<1>2. /\ UNCHANGED <<osVars, clock, kernel, phase, fromStart>> /\ phase = "running"
      /\ \A a, m : Pending(a, m)' => Pending(a, m)
      /\ task = Idle /\ ReInitKnown'
  BY <1>1, TakesTold DEF Links
<1>3. OsOK
  BY TypeParts
<1>4. \A m \in Name, f \in File : ~Adding(m, f)' /\ (ToDo(m, f)' => dir[m] = f)
  <2>1. ASSUME NEW m \in Name, NEW f \in File, ToDo(m, f)' PROVE dir[m] = f
    <3>1. [name |-> m, id |-> f] \in {[name |-> n, id |-> FileId(n)] : n \in Listing}
      BY <1>1, <2>1 DEF ToDo
    <3>2. FileId(m) = f
      BY <3>1
    <3> QED BY <1>3, <3>2, FileIdIs
  <2> QED BY <1>1, <2>1 DEF Adding
<1>5. MapsAgree'
  <2>1. AddIsNew'
    BY <1>4 DEF AddIsNew
  <2> QED BY <1>1, <1>2, <2>1
      DEF Links, MapsAgree, IdsTracked, TrackedHasId, TrackedHasShort, ShortMeans, mapVars, osVars
<1>6. \A m \in Name, f \in File : Stands(m, f)' => Stands(m, f)
  BY <1>1, <1>2, <1>4 DEF Stands, osVars, mapVars
<1>7. Links'
  BY <1>1, <1>2, <1>5, <1>6, HandlerLinks DEF mapVars
<1>8. Order => Order'
  BY <1>1, <1>2, <1>4
  DEF Order, OffsetCounts, UntrackedUnread, AddedUnread, Consecutive, InOrder, Dead, osVars, mapVars
<1> QED BY <1>7, <1>8

LEMMA FolderTaskAgrees ==
  ASSUME TypeOK, Links, RenameNextInFolder \/ FinishFolder
  PROVE  Links' /\ (Order => Order')
<1>1. task \in Folders /\ task.does = "folder"
  BY TypeParts DEF RenameNextInFolder, FinishFolder, TaskOK, Adds, Idle
<1>2. UNCHANGED <<osVars, clock, kernel, phase, fromStart, queue, printed, history>>
  BY DEF RenameNextInFolder, FinishFolder
<1>3. phase = "running" /\ ReInitKnown' /\ \A a, n : Pending(a, n)' => Pending(a, n)
  <2>1. phase = "running"
    BY <1>1 DEF Links, Started, Idle
  <2> QED BY <1>2, <2>1 DEF Links, ReInitKnown, Pending, history
<1>4. \A n \in Name, f \in File : ~Adding(n, f)' /\ (ToDo(n, f)' => ToDo(n, f))
  <2>1. CASE RenameNextInFolder
    <3>1. PICK file \in task.todo : task' = [task EXCEPT !.todo = @ \ {file}]
      BY <2>1 DEF RenameNextInFolder
    <3>2. task'.does = "folder" /\ task'.todo \subseteq task.todo
      BY <1>1, <3>1 DEF Folders
    <3> QED BY <1>1, <3>2 DEF Adding, ToDo
  <2>2. CASE FinishFolder
    BY <2>2 DEF FinishFolder, Adding, ToDo, Idle
  <2> QED BY <2>1, <2>2
<1>5. CASE UNCHANGED mapVars
  <2>1. AddIsNew'
    BY <1>4 DEF AddIsNew
  <2>2. MapsAgree'
    BY <1>2, <1>5, <2>1
    DEF Links, MapsAgree, IdsTracked, TrackedHasId, TrackedHasShort, ShortMeans, mapVars, osVars
  <2>3. \A m \in Name, f \in File : Stands(m, f)' => Stands(m, f)
    BY <1>2, <1>4, <1>5 DEF Stands, osVars, mapVars
  <2>4. Links'
    BY <1>2, <1>3, <1>5, <2>2, <2>3, HandlerLinks DEF history, mapVars
  <2>5. Order => Order'
    BY <1>2, <1>4, <1>5
    DEF Order, OffsetCounts, UntrackedUnread, AddedUnread, Consecutive, InOrder, Dead, osVars,
        mapVars, history
  <2> QED BY <2>4, <2>5
<1>6. CASE \E file \in task.todo : fileIds[file.id] # None /\ RenameInMaps(file.name, file.id)
  <2>1. PICK file \in task.todo : fileIds[file.id] # None /\ RenameInMaps(file.name, file.id)
    BY <1>6
  <2>2. /\ file \in [name : Name, id : Id] /\ file = [name |-> file.name, id |-> file.id]
        /\ file.name \in Name /\ file.id \in Id
    BY <1>1 DEF Folders
  <2>3. file.id \in File
    BY <2>1, <2>2 DEF Links, MapsAgree, IdsTracked, Id
  <2>4. Stands(file.name, file.id)
    BY <1>1, <2>2 DEF Stands, ToDo
  <2> QED BY <1>2, <1>3, <1>4, <2>1, <2>2, <2>3, <2>4, RenameAgrees
<1> QED BY <1>5, <1>6 DEF RenameNextInFolder, FinishFolder

-----------------------------------------------------------------------------
(***************************************************************************)
(* The scans find files by their names.                                    *)
(***************************************************************************)
LEMMA TrackLinks ==
  ASSUME TypeOK, NamesOK, MapsAgree, NEW S, S \subseteq Name,
         \A n \in S : Exists(n) /\ LookUp(n) = None,
         TrackNames(S, [n \in S |-> FileId(n)]), ~unidentified',
         \A n \in Name : info'[n] # None <=> n \in S \/ info[n] # None,
         UNCHANGED dir, \A n \in Name, f \in File : ~Adding(n, f)'
  PROVE  /\ ~unidentified /\ MapsAgree'
         /\ \A f \in File : \/ \E n \in S : dir[n] = f /\ fileIds'[f] = n
                            \/ (\A n \in S : dir[n] # f) /\ fileIds'[f] = fileIds[f]
<1> DEFINE id == [n \in S |-> FileId(n)]
           zeroed == {n \in S : id[n] = NoId}
<1>1. OsOK /\ MapsOK /\ OneName
  BY TypeParts DEF NamesOK
<1>2. zeroed = {} /\ ~unidentified
  BY DEF TrackNames
<1>3. \A n \in S : id[n] = dir[n] /\ dir[n] \in File
  <2> SUFFICES ASSUME NEW n \in S PROVE id[n] = dir[n] /\ dir[n] \in File
    OBVIOUS
  <2>1. id[n] = FileId(n) /\ FileId(n) # NoId
    BY <1>2
  <2> QED BY <1>1, <2>1, FileIdIs
<1>4. /\ longPaths' = [p \in FilePath |->
           IF \E n \in S : ShortPath(n) = p THEN CHOOSE n \in S : ShortPath(n) = p
           ELSE longPaths[p]]
      /\ \E last \in (IF zeroed = {} THEN {fileIds[NoId]} ELSE zeroed) :
           fileIds' = [i \in DOMAIN fileIds |->
             IF i = NoId THEN last
             ELSE IF \E n \in S : id[n] = i THEN CHOOSE n \in S : id[n] = i
             ELSE fileIds[i]]
  BY DEF TrackNames
<1> HIDE DEF id, zeroed
<1>5. fileIds' = [i \in DOMAIN fileIds |->
        IF i = NoId THEN fileIds[NoId]
        ELSE IF \E n \in S : id[n] = i THEN CHOOSE n \in S : id[n] = i
        ELSE fileIds[i]]
  BY <1>2, <1>4
<1>6. DOMAIN fileIds = Id /\ NoId \notin File /\ Id = File \cup {NoId}
  BY <1>1 DEF MapsOK, Id, NoId, File
<1>7. fileIds'[NoId] = None
  BY <1>5, <1>6 DEF MapsAgree, IdsTracked
<1>8. ASSUME NEW f \in File
      PROVE  \/ \E n \in S : dir[n] = f /\ fileIds'[f] = n
             \/ (\A n \in S : dir[n] # f) /\ fileIds'[f] = fileIds[f]
  <2>1. fileIds'[f] = IF \E n \in S : id[n] = f THEN CHOOSE n \in S : id[n] = f ELSE fileIds[f]
    BY <1>5, <1>6
  <2>2. CASE \E n \in S : id[n] = f
    <3>1. fileIds'[f] \in S /\ id[fileIds'[f]] = f
      BY <2>1, <2>2
    <3> QED BY <1>3, <3>1
  <2>3. CASE ~(\E n \in S : id[n] = f)
    BY <1>3, <2>1, <2>3
  <2> QED BY <2>2, <2>3
<1>9. IdsTracked'
  <2>1. ASSUME NEW f \in File, fileIds'[f] # None PROVE info'[fileIds'[f]] # None
    <3>1. CASE fileIds'[f] \in S
      BY <3>1
    <3>2. CASE fileIds'[f] = fileIds[f]
      <4>1. fileIds[f] \in Name /\ info[fileIds[f]] # None
        BY <1>1, <2>1, <3>2 DEF MapsOK, Id, MapsAgree, IdsTracked
      <4> QED BY <3>2, <4>1
    <3> QED BY <1>8, <3>1, <3>2
  <2> QED BY <1>7, <2>1 DEF IdsTracked
<1>10. TrackedHasId'
  <2> SUFFICES ASSUME NEW m \in Name, NEW f \in File, info'[m] # None, dir[m] = f
               PROVE  fileIds'[f] = m
    BY DEF TrackedHasId
  <2>1. \A n \in S : dir[n] = f => n = m
    BY <1>1, NoneIs DEF OneName
  <2>2. CASE m \in S
    BY <1>8, <2>1, <2>2
  <2>3. CASE m \notin S
    <3>1. fileIds[f] = m
      BY <2>3 DEF MapsAgree, TrackedHasId
    <3> QED BY <1>8, <2>1, <2>3, <3>1
  <2> QED BY <2>2, <2>3
<1>11. \A n \in S : ShortPath(n) = Short[n]
  BY DEF ShortPath
<1>12. TrackedHasShort'
  <2> SUFFICES ASSUME NEW m \in Name, info'[m] # None, dir[m] # None
               PROVE  longPaths'[Short[m]] = m
    BY DEF TrackedHasShort
  <2>1. \A n \in S : ShortPath(n) = Short[m] => n = m
    BY <1>11, NameMeans
  <2>2. longPaths'[Short[m]] = IF \E n \in S : ShortPath(n) = Short[m]
                               THEN CHOOSE n \in S : ShortPath(n) = Short[m]
                               ELSE longPaths[Short[m]]
    BY <1>4, Paths
  <2>3. CASE m \in S
    BY <1>11, <2>1, <2>2, <2>3
  <2>4. CASE m \notin S
    <3>1. longPaths[Short[m]] = m
      BY <2>4 DEF MapsAgree, TrackedHasShort
    <3> QED BY <2>1, <2>2, <2>4, <3>1
  <2> QED BY <2>3, <2>4
<1>13. ShortMeans'
  <2> SUFFICES ASSUME NEW p \in FilePath, longPaths'[p] # None
               PROVE  Means(p, longPaths'[p])
    BY DEF ShortMeans
  <2>1. CASE \E n \in S : ShortPath(n) = p
    <3>1. longPaths'[p] \in S /\ ShortPath(longPaths'[p]) = p
      BY <1>4, <2>1
    <3> QED BY <1>11, <3>1 DEF Means
  <2>2. CASE ~(\E n \in S : ShortPath(n) = p)
    BY <1>4, <2>2 DEF MapsAgree, ShortMeans
  <2> QED BY <2>1, <2>2
<1> QED BY <1>2, <1>8, <1>9, <1>10, <1>12, <1>13 DEF MapsAgree, AddIsNew

LEMMA ReInitAgrees ==
  ASSUME TypeOK, Links, HandleReInit, ~unidentified'
  PROVE  Links' /\ reinited'
<1> DEFINE unknown == {n \in Listing : LookUp(n) = None}
           known == [n \in Name |-> IF n \in unknown THEN NeverRead ELSE info[n]]
           S == {n \in Name : known[n] # None}
<1>1. /\ Takes("ReInit") /\ TrackNames(unknown, [n \in unknown |-> FileId(n)])
      /\ ReadLogFiles(S, known) /\ UNCHANGED <<task, skipped, overlooked, renamedAway, reinited>>
  BY DEF HandleReInit
<1>2. /\ UNCHANGED <<osVars, clock, kernel, phase, fromStart>> /\ phase = "running"
      /\ \A a, m : Pending(a, m)' => Pending(a, m)
      /\ task = Idle /\ ReInitKnown' /\ reinited
  BY <1>1, TakesTold DEF Links
<1>3. OsOK /\ MapsOK /\ clock \in 1 .. MaxClock
  BY TypeParts DEF ThreadsOK
<1>4. unknown \subseteq Name /\ \A n \in unknown : Exists(n) /\ LookUp(n) = None
  BY DEF Listing
<1>5. NeverRead \in Info
  BY Constants DEF NeverRead, Info
<1>6. /\ \A n \in Name : known[n] = IF n \in unknown THEN NeverRead ELSE info[n]
      /\ S \subseteq Name /\ \A n \in S : n \in Name /\ known[n] # None
      /\ \A n \in Name : info[n] \in Info \cup {None}
  BY <1>3 DEF MapsOK
<1> HIDE DEF unknown, known, S
<1>7. \A n \in S : known[n] \in Info
  BY <1>5, <1>6
<1>8. \A n \in Name : info'[n] # None <=> n \in unknown \/ info[n] # None
  <2>1. \A n \in Name : info'[n] = None <=> known[n] = None
    BY <1>1, <1>3, <1>6, <1>7, ReadKeeps
  <2> QED BY <1>5, <1>6, <2>1, NoneIs
<1>9. /\ MapsAgree'
      /\ \A f \in File : \/ \E n \in unknown : dir[n] = f /\ fileIds'[f] = n
                         \/ (\A n \in unknown : dir[n] # f) /\ fileIds'[f] = fileIds[f]
  <2>1. UNCHANGED dir /\ \A n \in Name, f \in File : ~Adding(n, f)'
    BY <1>1, <1>2 DEF osVars, Adding, Idle
  <2> QED BY <1>1, <1>4, <1>8, <2>1, TrackLinks DEF Links
<1>10. \A n \in Name, f \in File : Stands(n, f)' => Stands(n, f)
  BY <1>1, <1>2, <1>9 DEF Stands, Adding, ToDo, osVars
<1>11. \A n \in Name : info'[n] # None => info[n] # None \/ dir[n] # None
  BY <1>4, <1>8 DEF Exists
<1>12. Links'
  BY <1>1, <1>2, <1>9, <1>10, <1>11, HandlerLinks
<1> QED BY <1>1, <1>2, <1>12

\* The scan itself announces nothing but changes of files it knows.
LEMMA ScanTold ==
  ASSUME TypeOK, NEW T, T \subseteq Name, queue' = queue \o SetToSeq({Modified(n) : n \in T}),
         UNCHANGED <<kernel, reinited>>
  PROVE  /\ \A a \in Moves, n \in Name : Pending(a, n)' => Pending(a, n)
         /\ ReInitKnown => ReInitKnown'
<1> DEFINE t == SetToSeq({Modified(n) : n \in T})
           M == {Modified(n) : n \in T}
<1>1. queue \in Seq(Events) /\ t \in Seq(Events)
  BY TypeParts, ModifiedTyped DEF ThreadsOK
<1>2. t \in Seq(M)
  <2>1. IsFiniteSet(T)
    BY NamesFinite, FS_Subset
  <2> DEFINE g == [n \in T |-> Modified(n)]
  <2>2. g \in Surjection(T, M)
    BY DEF Surjection
  <2>3. IsFiniteSet(M)
    <3> HIDE DEF g, M
    <3> QED BY <2>1, <2>2, FS_Surjection
  <2> HIDE DEF M
  <2>4. SetToSeq(M) \in Seq(M)
    BY <2>3, SetToSeqTyped
  <2> QED BY <2>4 DEF M
<1>3. \A e \in M : e.action = "Modify"
  BY DEF Modified
<1> HIDE DEF t, M
<1>4. /\ Len(queue') = Len(queue) + Len(t) /\ Len(queue) \in Nat /\ Len(t) \in Nat
      /\ \A i \in 1 .. Len(queue') : queue'[i] = IF i <= Len(queue) THEN queue[i] ELSE t[i - Len(queue)]
  <2>1. queue' = queue \o t
    BY DEF t
  <2>2. /\ Len(queue \o t) = Len(queue) + Len(t) /\ Len(queue) \in Nat /\ Len(t) \in Nat
        /\ \A i \in 1 .. Len(queue \o t) :
             (queue \o t)[i] = IF i <= Len(queue) THEN queue[i] ELSE t[i - Len(queue)]
    BY <1>1, ConcatIs
  <2> QED BY <2>1, <2>2
<1>5. ASSUME NEW k \in 1 .. Len(queue')
      PROVE  \/ k \in 1 .. Len(queue) /\ queue'[k] = queue[k]
             \/ queue'[k].action = "Modify"
  <2>1. CASE k <= Len(queue)
    BY <1>4, <2>1
  <2>2. CASE ~(k <= Len(queue))
    <3>1. k - Len(queue) \in 1 .. Len(t)
      BY <1>4, <2>2
    <3>2. t[k - Len(queue)] \in M
      BY <1>2, <3>1
    <3> QED BY <1>3, <1>4, <2>2, <3>2
  <2> QED BY <2>1, <2>2
<1>6. \A a \in Moves : \A n \in Name : Told(queue', a, n) => Told(queue, a, n)
  BY <1>5 DEF Told, Moves
<1>7. ReInitKnown => ReInitKnown'
  BY <1>5 DEF ReInitKnown
<1> QED BY <1>6, <1>7 DEF Pending

LEMMA ScanAgrees ==
  ASSUME TypeOK, Links, Scan, ~unidentified', phase \in {"new", "registered"}, phase' # "new"
  PROVE  ~unidentified /\ Links' /\ (Order => Order')
<1> DEFINE unknown == {n \in Listing : LookUp(n) = None}
           found == {n \in unknown : fromStart \/ CanOpen(n)}
           passed == IF fromStart THEN {} ELSE {dir[n] : n \in found}
           seen == Listing \ (unknown \ found)
<1>1. /\ info' = [n \in Name |->
           IF n \in found THEN [offset |-> IF fromStart THEN 0 ELSE lines[dir[n]], lastRead |-> 0]
           ELSE info[n]]
      /\ TrackNames(found, [n \in found |-> FileId(n)])
      /\ fromStart' = FALSE /\ queue' = queue \o SetToSeq({Modified(n) : n \in seen})
      /\ skipped' = [f \in File |-> IF f \in passed THEN lines[f] ELSE skipped[f]]
      /\ UNCHANGED <<osVars, clock, kernel, task, printed, renamedAway, reinited>>
  BY DEF Scan
<1>2. found \subseteq Name /\ seen \subseteq Name
      /\ \A n \in found : Exists(n) /\ LookUp(n) = None
  BY DEF Listing
<1>3. OsOK /\ MapsOK /\ HistoryOK /\ PrintedOK
  BY TypeParts
<1>4. task = Idle /\ \A f \in File : printed[f] = <<>>
  BY DEF Links, Started
<1>5. fromStart => \A f \in File : skipped[f] = 0
  BY DEF Links, Started
<1>6. /\ fromStart => passed = {}
      /\ ~fromStart => \A f \in File : f \in passed <=> \E n \in found : dir[n] = f
  OBVIOUS
<1> HIDE DEF unknown, found, passed, seen
<1>7. \A n \in found : n \in Name /\ info[n] = None /\ dir[n] # None /\ dir[n] \in File
                       /\ lines[dir[n]] \in 0 .. MaxLines
  BY <1>2, <1>3, LookUpName, FileIs DEF Exists
<1>8. /\ \A n \in found : info'[n].offset = IF fromStart THEN 0 ELSE lines[dir[n]]
      /\ \A n \in Name \ found : info'[n] = info[n]
      /\ \A n \in Name : info'[n] # None <=> n \in found \/ info[n] # None
  <2>1. \A n \in found : [offset |-> IF fromStart THEN 0 ELSE lines[dir[n]], lastRead |-> 0] \in Info
    BY <1>7, Constants DEF Info
  <2> QED BY <1>1, <1>2, <2>1, NoneIs
<1>9. /\ ~unidentified /\ MapsAgree'
      /\ \A f \in File : \/ \E n \in found : dir[n] = f /\ fileIds'[f] = n
                         \/ (\A n \in found : dir[n] # f) /\ fileIds'[f] = fileIds[f]
  <2>1. UNCHANGED dir /\ \A n \in Name, f \in File : ~Adding(n, f)'
    BY <1>1, <1>4 DEF osVars, Adding, Idle
  <2> QED BY <1>1, <1>2, <1>8, <2>1, TrackLinks DEF Links
<1>10. /\ \A a \in Moves, n \in Name : Pending(a, n)' => Pending(a, n)
       /\ ReInitKnown'
  BY <1>1, <1>2, ScanTold DEF Links
<1>11. NamesOK'
  <2>1. \A n \in Name, f \in File : Stands(n, f)' => Stands(n, f)
    BY <1>1, <1>9 DEF Stands, Adding, ToDo, osVars
  <2>2. \A n \in Name : info'[n] # None => info[n] # None \/ dir[n] # None
    BY <1>7, <1>8
  <2>3. Keeps
    BY <1>1, <1>10, <2>1, <2>2 DEF Keeps, osVars
  <2> QED BY <1>3, <2>3, KeepsNames DEF Links
<1>12. Started'
  BY <1>1, <1>4 DEF Started
<1>13. ASSUME Order PROVE Order'
  <2>1. UNCHANGED <<dir, born, task, printed, renamedAway>>
    BY <1>1 DEF osVars
  <2>2. OffsetCounts'
    <3> SUFFICES ASSUME NEW f \in File \ renamedAway, fileIds'[f] # None
                 PROVE  info'[fileIds'[f]].offset = skipped'[f] + Len(printed[f])
      BY <2>1 DEF OffsetCounts
    <3>1. Len(printed[f]) = 0
      BY <1>4
    <3>2. skipped[f] \in Nat /\ skipped'[f] = IF f \in passed THEN lines[f] ELSE skipped[f]
      BY <1>1, <1>3, Constants DEF HistoryOK
    <3>3. CASE \E n \in found : dir[n] = f /\ fileIds'[f] = n
      <4>1. info'[fileIds'[f]].offset = IF fromStart THEN 0 ELSE lines[f]
        BY <1>8, <3>3
      <4>2. skipped'[f] = IF fromStart THEN 0 ELSE lines[f]
        BY <1>5, <1>6, <3>2, <3>3
      <4>3. lines[f] \in Nat
        BY <1>7, <3>3, Constants
      <4> QED BY <3>1, <4>1, <4>2, <4>3
    <3>4. CASE (\A n \in found : dir[n] # f) /\ fileIds'[f] = fileIds[f]
      <4>1. skipped'[f] = skipped[f]
        BY <1>6, <3>2, <3>4
      <4>2. fileIds[f] \in Name /\ info[fileIds[f]] # None
        BY <1>3, <3>4 DEF MapsOK, Id, Links, MapsAgree, IdsTracked
      <4>3. info'[fileIds'[f]] = info[fileIds[f]]
        BY <1>7, <1>8, <3>4, <4>2
      <4> QED BY <1>13, <3>4, <4>1, <4>3 DEF Order, OffsetCounts
    <3> QED BY <1>9, <3>3, <3>4
  <2>3. UntrackedUnread'
    <3> SUFFICES ASSUME NEW f \in File \ renamedAway, fileIds'[f] = None, f > born \/ ~Dead(f)
                 PROVE  printed[f] = <<>> /\ skipped'[f] = 0
      BY <2>1 DEF UntrackedUnread, Dead
    <3>1. (\A n \in found : dir[n] # f) /\ fileIds[f] = None
      BY <1>7, <1>9, NoneIs
    <3>2. skipped'[f] = skipped[f]
      BY <1>1, <1>6, <3>1
    <3> QED BY <1>13, <3>1, <3>2 DEF Order, UntrackedUnread
  <2>4. AddedUnread' /\ Consecutive'
    BY <1>4, <2>1 DEF AddedUnread, Adding, Idle, Consecutive, InOrder
  <2> QED BY <2>2, <2>3, <2>4 DEF Order
<1> QED BY <1>9, <1>10, <1>11, <1>12, <1>13 DEF Links

-----------------------------------------------------------------------------
(***************************************************************************)
(* The invariant.                                                          *)
(***************************************************************************)
\* What the applications are like does not change, and what once was missed stays so.
LEMMA QuietBack ==
  ASSUME TypeOK, [Next]_vars
  PROVE  UNCHANGED habit /\ (~unidentified' => ~unidentified) /\ (~reinited' => ~reinited)
<1> USE DEF osVars, history
<1>0. unidentified \in BOOLEAN
  BY TypeParts DEF HistoryOK
<1>1. CASE Application
  <2>1. ASSUME NEW n \in Name, Create(n) \/ AppendLine(n) \/ Delete(n) \/ Lock(n)
        PROVE  UNCHANGED <<habit, unidentified, reinited>>
    BY <2>1 DEF Create, AppendLine, Delete, Lock, Report
  <2>2. ASSUME NEW n \in Name, NEW m \in Name, Rename(n, m)
        PROVE  UNCHANGED <<habit, unidentified, reinited>>
    BY <2>2 DEF Rename, Report
  <2>3. ASSUME NEW d \in Folder, RenameFolder(d)
        PROVE  UNCHANGED <<habit, unidentified, reinited>>
    BY <2>3 DEF RenameFolder, Report
  <2> QED BY <1>1, <2>1, <2>2, <2>3 DEF Application
<1>2. CASE Unlock
  BY <1>2 DEF Unlock
<1>3. CASE Start
  <2>1. CASE Register
    BY <2>1 DEF Register
  <2>2. CASE Scan
    <3>1. UNCHANGED <<habit, reinited>> /\ (~unidentified' => ~unidentified)
      BY <1>0, <2>2 DEF Scan, TrackNames
    <3> QED BY <3>1
  <2> QED BY <1>3, <2>1, <2>2 DEF Start, FirstScan, SecondScan
<1>4. CASE Notice \/ Loses
  BY <1>4 DEF Notice, Loses, Overflow, OverflowIsSilent
<1>5. CASE Handle
  <2>1. CASE HandleModify \/ HandleRemove \/ HandleAdd \/ HandleFileRenamed \/ HandleRenamedAgain
    BY <2>1 DEF HandleModify, HandleRemove, HandleAdd, HandleFileRenamed, HandleRenamedAgain, Takes
  <2>2. CASE FinishAdd \/ HandleFolderRenamed \/ RenameNextInFolder \/ FinishFolder
    BY <1>0, <2>2 DEF FinishAdd, HandleFolderRenamed, RenameNextInFolder, FinishFolder, Takes
  <2>3. CASE HandleReInit
    BY <1>0, <2>3 DEF HandleReInit, Takes, TrackNames
  <2> QED BY <1>5, <2>1, <2>2, <2>3 DEF Handle
<1>6. CASE TimerReadsAll
  BY <1>6 DEF TimerReadsAll
<1>7. CASE UNCHANGED vars
  BY <1>7 DEF vars
<1> QED BY <1>1, <1>2, <1>3, <1>4, <1>5, <1>6, <1>7 DEF Next

LEMMA InitAgrees ==
  ASSUME Init
  PROVE  Links /\ Order
<1>1. /\ taken = (IF born = 1 THEN {FirstFile} ELSE {}) /\ born \in {0, 1}
      /\ \A n \in Name : dir[n] = IF born = 1 /\ n = FirstFile THEN 1 ELSE None
      /\ kernel = <<>> /\ queue = <<>> /\ task = Idle /\ phase = "new"
      /\ \A n \in Name : info[n] = None
      /\ \A p \in FilePath : longPaths[p] = None
      /\ fileIds[NoId] = None
      /\ \A f \in File : fileIds[f] = None /\ printed[f] = <<>> /\ skipped[f] = 0
  BY DEF Init
<1>2. \A n \in Name, f \in File : Stands(n, f) => born = 1 /\ n = FirstFile /\ f = 1
  BY <1>1, NoneIs DEF Stands, Adding, ToDo, Idle
<1>3. \A a, n : ~Pending(a, n)
  BY <1>1 DEF Pending, Told
<1>4. NamesOK
  <2>1. OneName /\ OneFile
    BY <1>1, <1>2 DEF OneName, OneFile
  <2>2. OnceUsed
    BY <1>1, <1>2, <1>3 DEF OnceUsed
  <2>3. RemovedIsDead /\ AddedIsFirst /\ LeftFilter
    BY <1>3 DEF RemovedIsDead, AddedIsFirst, LeftFilter
  <2> QED BY <2>1, <2>2, <2>3 DEF NamesOK
<1>5. MapsAgree
  BY <1>1
  DEF MapsAgree, IdsTracked, TrackedHasId, TrackedHasShort, ShortMeans, AddIsNew, Adding, Idle
<1>6. Started /\ ReInitKnown
  BY <1>1 DEF Started, ReInitKnown
<1>7. Order
  BY <1>1 DEF Order, OffsetCounts, UntrackedUnread, AddedUnread, Consecutive, InOrder, Adding, Idle
<1> QED BY <1>4, <1>5, <1>6, <1>7 DEF Links

LEMMA StepAgrees ==
  ASSUME TypeOK, Quiet, Links, ~unidentified', [Next]_vars
  PROVE  Links' /\ (~reinited' => (Order => Order'))
<1>1. CASE Application \/ Unlock
  <2>1. NamesOK /\ habit.reuse = "never"
    BY DEF Quiet, Links
  <2>2. Moved /\ Reports
    BY <1>1, <2>1, ApplicationMoves
  <2> QED BY <2>2, MovedLinks, MovedOrder
<1>2. CASE Start
  BY <1>2, ScanAgrees, RegisterAgrees DEF Start, FirstScan, SecondScan
<1>3. CASE Notice \/ Loses
  BY <1>3, NoticeAgrees, LossAgrees
<1>4. CASE Handle
  BY <1>4, ModifyAgrees, RemoveAgrees, AddAgrees, FinishAddAgrees, FileRenamedAgrees,
     FolderRenamedAgrees, FolderTaskAgrees, RenamedAgainAgrees, ReInitAgrees
  DEF Handle
<1>5. CASE TimerReadsAll
  BY <1>5, TimerAgrees
<1>6. CASE UNCHANGED vars
  <2>1. /\ UNCHANGED <<osVars, clock, kernel, phase, fromStart, queue, task, mapVars, printed, history>>
    BY <1>6 DEF vars
  <2>2. NamesOK'
    <3>1. Keeps
      BY <2>1 DEF Keeps, osVars, history, mapVars, Stands, Adding, ToDo, Pending
    <3> QED BY <3>1, TypeParts, KeepsNames DEF Links
  <2>3. MapsAgree'
    BY <2>1, SameMaps DEF osVars, Links
  <2>4. Started' /\ ReInitKnown'
    BY <2>1 DEF Links, Started, ReInitKnown, mapVars, history
  <2>5. Order => Order'
    BY <2>1, SameOrder DEF osVars, history
  <2> QED BY <2>2, <2>3, <2>4, <2>5 DEF Links
<1> QED BY <1>1, <1>2, <1>3, <1>4, <1>5, <1>6 DEF Next

LEMMA Agreement == Spec => [](TypeOK /\ LInv /\ OInv)
<1>1. Init => LInv /\ OInv
  BY InitAgrees DEF LInv, OInv
<1>2. TypeOK /\ LInv /\ OInv /\ [Next]_vars => (LInv /\ OInv)'
  <2> SUFFICES ASSUME TypeOK, LInv, OInv, [Next]_vars
               PROVE  (LInv /\ OInv)'
    OBVIOUS
  <2>1. UNCHANGED habit /\ (~unidentified' => ~unidentified) /\ (~reinited' => ~reinited)
    BY QuietBack
  <2>2. ASSUME Quiet' PROVE Links' /\ (~reinited' => Order')
    <3>1. ~unidentified' /\ Quiet
      BY <2>1, <2>2 DEF Quiet
    <3>2. Links /\ (~reinited' => Order)
      BY <2>1, <3>1 DEF LInv, OInv
    <3> QED BY <3>1, <3>2, StepAgrees
  <2> QED BY <2>2 DEF LInv, OInv
<1> QED BY <1>1, <1>2, TypeCorrect, PTL DEF Spec

(***************************************************************************)
(* Where names are not used twice and every file is identified, and even   *)
(* if notifications are lost, a file id leads to a tracked name, to one    *)
(* that no other id leads to, and to the name of this very file: a rename  *)
(* takes the offset of the file that was renamed along, and no other.      *)
(***************************************************************************)
THEOREM IdsCorrect == Spec => []FileIdsConsistent
<1>1. TypeOK /\ LInv /\ OInv => FileIdsConsistent
  <2> SUFFICES ASSUME TypeOK, LInv, habit.reuse = "never", ~unidentified
               PROVE  /\ \A i \in Id : fileIds[i] # None => Tracked(fileIds[i])
                      /\ \A i, j \in Id : fileIds[i] # None /\ fileIds[i] = fileIds[j] => i = j
                      /\ \A f \in File : fileIds[f] # None /\ Exists(fileIds[f]) =>
                           dir[fileIds[f]] = f
    BY DEF FileIdsConsistent
  <2>1. MapsOK /\ OsOK /\ IdsTracked /\ OneFile
    BY TypeParts DEF LInv, Quiet, Links, NamesOK, MapsAgree
  <2>2. ASSUME NEW i \in Id, fileIds[i] # None
        PROVE  i \in File /\ fileIds[i] \in Name /\ Tracked(fileIds[i]) /\ Stands(fileIds[i], i)
    BY <2>1, <2>2 DEF MapsOK, Id, IdsTracked, Tracked, Stands
  <2>3. ASSUME NEW i \in Id, NEW j \in Id, fileIds[i] # None, fileIds[i] = fileIds[j]
        PROVE  i = j
    BY <2>1, <2>2, <2>3 DEF OneFile
  <2>4. ASSUME NEW f \in File, fileIds[f] # None, Exists(fileIds[f])
        PROVE  dir[fileIds[f]] = f
    <3>1. f \in Id
      BY DEF Id
    <3>2. fileIds[f] \in Name /\ Stands(fileIds[f], f)
      BY <2>2, <2>4, <3>1
    <3>3. dir[fileIds[f]] \in File /\ Stands(fileIds[f], dir[fileIds[f]])
      BY <2>1, <2>4, <3>2, FileIs DEF Stands
    <3> QED BY <2>1, <3>2, <3>3 DEF OneFile
  <2> QED BY <2>2, <2>3, <2>4
<1> QED BY <1>1, Agreement, PTL

(***************************************************************************)
(* Where also no notification is lost, what is printed of a file is one    *)
(* line after the other, from the first that was not skipped on: none      *)
(* twice and none left out, through renames of the file and of its folder  *)
(* and however far the handler is behind the applications.                 *)
(***************************************************************************)
THEOREM OrderCorrect == Spec => []PrintedInOrder
<1>1. TypeOK /\ LInv /\ OInv => PrintedInOrder
  <2> SUFFICES ASSUME TypeOK, OInv, NEW f \in File \ renamedAway, habit.reuse = "never",
                      ~reinited, ~unidentified
               PROVE  \A i \in DOMAIN printed[f] : printed[f][i] = skipped[f] + i
    BY DEF PrintedInOrder
  <2>1. InOrder(f)
    BY DEF OInv, Quiet, Order, Consecutive
  <2> DEFINE A == 1 .. MaxLines
  <2>2. printed[f] \in Seq(A)
    BY TypeParts DEF PrintedOK
  <2> HIDE DEF A
  <2>3. DOMAIN printed[f] = 1 .. Len(printed[f])
    BY <2>2
  <2> QED BY <2>1, <2>3 DEF InOrder
<1> QED BY <1>1, Agreement, PTL
=============================================================================
