------------------------------ MODULE FileTail ------------------------------
(***************************************************************************)
(* What a LogFileMonitor reads (LogFileMonitor.cpp): the maps in which it  *)
(* tracks log files by name, by short name and by file id, the offset up   *)
(* to which it has read each, and how it keeps up with applications that   *)
(* create, append to, rename and delete files while it works through       *)
(* notifications that are already old.                                     *)
(*                                                                         *)
(* The threads, the lock and stopping are the subject of LogFileMonitor:   *)
(* here the directory thread turns one notification at a time into an      *)
(* event, and the handler takes one event at a time.  A line stands for    *)
(* whatever an application appends in one call.                            *)
(***************************************************************************)
EXTENDS Naturals, Sequences, SequencesExt

CONSTANTS
  None,
  MaxFiles,       \* bound: the files created, named 1 .. MaxFiles in this order
  MaxLines,       \* bound: the lines of a file
  MaxOps,         \* bound: what the applications do
  MaxClock,       \* bound: the ticks of GetTickCount64
  Folder,         \* the names of subdirectories
  FirstFile,      \* the name of a file that may be there at first, with one line
  Base,           \* the names of files in a subdirectory
  Short,          \* the short form of the path of each file
  Matching,       \* the paths that match the filter
  Habits          \* what the applications may be like

Name == Folder \X Base
FilePath == Name \cup {Short[n] : n \in Name}
FolderPath == {<<d>> : d \in Folder}
File == 1 .. MaxFiles
NoId == 0                    \* the zeroed FILE_ID_INFO of a file that could not be opened
Info == [offset : 0 .. MaxLines, lastRead : 0 .. MaxClock]
Habit == [reuse : {"never", "deleted", "any"}, overflows : BOOLEAN, locks : BOOLEAN,
          late : BOOLEAN, short : BOOLEAN, early : BOOLEAN]

ASSUME FileTailAssumption ==
  /\ MaxFiles \in Nat \ {0} /\ MaxLines \in Nat \ {0} /\ MaxOps \in Nat /\ MaxClock \in Nat \ {0}
  /\ IsFiniteSet(Folder) /\ IsFiniteSet(Base) /\ FirstFile \in Name
  /\ DOMAIN Short = Name
  /\ \A n, m \in Name : n # m => Short[n] # Short[m] /\ Short[n] # m
  /\ Matching \subseteq FilePath
  /\ Habits \subseteq Habit
  /\ FilePath \cap FolderPath = {}
  /\ None \notin FilePath \cup FolderPath \cup File \cup Info

VARIABLES
  \* The file system and the applications.
  dir,          \* the file each name stands for
  folder,       \* the name of the subdirectory
  lines,        \* the number of lines of each file
  born,         \* the files created are 1 .. born
  locked,       \* the files an application holds open for itself alone
  taken,        \* the names the applications will not use again
  habit,        \* what the applications are like
  ops,          \* what they have done so far
  clock,        \* GetTickCount64, which is coarse
  kernel,       \* the notification records not yet seen by the directory thread
  \* The monitor.
  phase,        \* how far it is with starting
  fromStart,    \* m_readLogFilesFromStart
  queue,        \* m_directoryChangeEvents
  task,         \* what the handler is in the middle of
  info,         \* m_logFilesInformation
  longPaths,    \* m_longPaths
  fileIds,      \* m_fileIds
  \* Histories.
  printed,      \* the lines printed of each file, in order
  skipped,      \* the lines of each file that a scan chose not to read
  overlooked,   \* the files the monitor came across and did not start to track, and those
                \* of which it was not told, and not told that it was not told either
  renamedAway,  \* the files that once had a name outside the filter
  unidentified, \* a file was tracked under NoId
  reinited      \* notifications were lost

osVars == <<dir, folder, lines, born, locked, taken, habit, ops>>
mapVars == <<info, longPaths, fileIds>>
history == <<skipped, overlooked, renamedAway, unidentified, reinited>>
vars == <<osVars, clock, kernel, phase, fromStart, queue, task, mapVars, printed, history>>

NeverRead == [offset |-> 0, lastRead |-> 0]
Idle == [does |-> "nothing"]

Init ==
  /\ born \in {0, 1}
  /\ dir = [n \in Name |-> IF born = 1 /\ n = FirstFile THEN 1 ELSE None]
  /\ folder = FirstFile[1]
  /\ lines = [f \in File |-> IF f <= born THEN 1 ELSE 0]
  /\ locked = {}
  /\ taken = IF born = 1 THEN {FirstFile} ELSE {}
  /\ habit \in Habits
  /\ ops = 0
  /\ clock = 1
  /\ kernel = <<>>
  /\ phase = "new"
  /\ fromStart = habit.late
  /\ queue = <<>>
  /\ task = Idle
  /\ info = [n \in Name |-> None]
  /\ longPaths = [p \in FilePath |-> None]
  /\ fileIds = [i \in File \cup {NoId} |-> None]
  /\ printed = [f \in File |-> <<>>]
  /\ skipped = [f \in File |-> 0]
  /\ overlooked = {}
  /\ renamedAway = IF FirstFile \in Matching THEN {} ELSE 1 .. born
  /\ unidentified = FALSE
  /\ reinited = FALSE
-----------------------------------------------------------------------------
(***************************************************************************)
(* The applications and the file system.                                   *)
(***************************************************************************)
Registered == phase \in {"registered", "running"}

Exists(n) == dir[n] # None
Free(n) == ~Exists(n) /\ (habit.reuse = "any" \/ n \notin taken)

Record(action, path) == [action |-> action, path |-> path]

(* A change is reported under the name the application used, long or short. *)
Reported(n) == IF habit.short THEN Short[n] ELSE n

Report(records) ==
  /\ phase = "running" \/ (habit.early /\ phase # "new")
  /\ ops < MaxOps
  /\ ops' = ops + 1
  /\ kernel' = IF Registered THEN kernel \o records ELSE kernel
  /\ UNCHANGED <<clock, phase, fromStart, queue, task, mapVars, printed, habit>>

Leaves(f, n) == renamedAway' = renamedAway \cup (IF n \in Matching THEN {} ELSE {f})

Create(n) ==
  /\ born < MaxFiles
  /\ n[1] = folder
  /\ Free(n)
  /\ born' = born + 1
  /\ dir' = [dir EXCEPT ![n] = born']
  /\ taken' = taken \cup {n}
  /\ Leaves(born', n)
  /\ Report(<<Record("Add", Reported(n))>>)
  /\ UNCHANGED <<folder, lines, locked, skipped, overlooked, unidentified, reinited>>

AppendLine(n) ==
  /\ Exists(n)
  /\ lines[dir[n]] < MaxLines
  /\ lines' = [lines EXCEPT ![dir[n]] = @ + 1]
  /\ Report(<<Record("Modify", Reported(n))>>)
  /\ UNCHANGED <<dir, folder, born, locked, taken, history>>

Delete(n) ==
  /\ Exists(n) /\ dir[n] \notin locked
  /\ dir' = [dir EXCEPT ![n] = None]
  /\ taken' = IF habit.reuse = "deleted" /\ Registered THEN taken \ {n} ELSE taken
  /\ Report(<<Record("Remove", Reported(n))>>)
  /\ UNCHANGED <<folder, lines, born, locked, history>>

(* The record of the old name that comes first is left out: no thread does anything with it
   but queue it. *)
Rename(n, m) ==
  /\ n[1] = m[1]
  /\ Exists(n) /\ dir[n] \notin locked
  /\ Free(m)
  /\ dir' = [dir EXCEPT ![n] = None, ![m] = dir[n]]
  /\ taken' = taken \cup {m}
  /\ Leaves(dir[n], m)
  /\ Report(<<Record("RenameNew", Reported(m))>>)
  /\ UNCHANGED <<folder, lines, born, locked, skipped, overlooked, unidentified, reinited>>

RenameFolder(d) ==
  /\ \A b \in Base : Free(<<d, b>>) /\ (Exists(<<folder, b>>) => dir[<<folder, b>>] \notin locked)
  /\ folder' = d
  /\ dir' = [n \in Name |-> IF n[1] = d THEN dir[<<folder, n[2]>>] ELSE None]
  /\ taken' = taken \cup {n \in Name : n[1] \in {d, folder}}
  /\ Report(<<Record("RenameNew", <<d>>)>>)
  /\ UNCHANGED <<lines, born, locked, history>>

Lock(n) ==
  /\ habit.locks
  /\ Exists(n) /\ dir[n] \notin locked
  /\ locked' = locked \cup {dir[n]}
  /\ Report(<<>>)
  /\ UNCHANGED <<dir, folder, lines, born, taken, history>>

Unlock ==
  /\ \E f \in locked : locked' = locked \ {f}
  /\ UNCHANGED <<dir, folder, lines, born, taken, habit, ops, clock, kernel, phase, fromStart,
                 queue, task, mapVars, printed, history>>

Application ==
  \/ \E n \in Name : Create(n) \/ AppendLine(n) \/ Delete(n) \/ Lock(n)
  \/ \E n, m \in Name : Rename(n, m)
  \/ \E d \in Folder : RenameFolder(d)
-----------------------------------------------------------------------------
(***************************************************************************)
(* Looking up paths and files.                                             *)
(***************************************************************************)
(* GetLongPath: a path that no file has is returned as it is. *)
LongPath(path) ==
  IF \E n \in Name : Exists(n) /\ Short[n] = path
  THEN CHOOSE n \in Name : Short[n] = path
  ELSE path

Tracked(path) == path \in Name /\ info[path] # None

KnownShort(path) == path \in FilePath /\ longPaths[path] # None

(* GetLogFilesInformationIt. *)
LookUp(path) ==
  IF Tracked(path) THEN path
  ELSE IF KnownShort(path) /\ Tracked(longPaths[path]) THEN longPaths[path] ELSE None

CanOpen(n) == Exists(n) /\ dir[n] \notin locked

(* GetFileId; a caller that ignores its failure goes on with a zeroed id. *)
FileId(n) == IF CanOpen(n) THEN dir[n] ELSE NoId

(* GetFilesInDirectory, in the whole directory or in the subdirectory. *)
Listing == {n \in Name : Exists(n) /\ n \in Matching}

(* What the loop of ReadLogFile prints on its way from an offset to the end. *)
LinesAfter(from, end) == [i \in 1 .. end - from |-> from + i]

(* A slip of ReadLogFiles: the offset ends up one past the end of the file. *)
MutReadLogFiles(S, known) ==
  /\ info' = [n \in Name |->
       IF n \in S /\ CanOpen(n) THEN [offset |-> lines[dir[n]] + 1, lastRead |-> clock]
       ELSE known[n]]
  /\ UNCHANGED printed

(* ReadLogFile on each of the names in S, with the information in known: it reads to the
   end, and leaves alone a file that it cannot open or that is shorter than its offset. *)
ReadLogFiles(S, known) ==
  LET Reads(f) == {n \in S : CanOpen(n) /\ dir[n] = f}
  IN  /\ info' = [n \in Name |->
           IF n \in S /\ CanOpen(n)
           THEN [offset |-> IF lines[dir[n]] > known[n].offset THEN lines[dir[n]]
                            ELSE known[n].offset,
                 lastRead |-> clock]
           ELSE known[n]]
      /\ printed' = [f \in File |->
           IF \E n \in Reads(f) : known[n].offset < lines[f]
           THEN LET from == known[CHOOSE n \in Reads(f) : TRUE].offset
                IN  printed[f] \o LinesAfter(from, lines[f])
           ELSE printed[f]]
-----------------------------------------------------------------------------
(***************************************************************************)
(* Changing the maps.                                                      *)
(***************************************************************************)
(* GetShortPath, which also returns the path of a missing file as it is. *)
ShortPath(n) == IF Exists(n) THEN Short[n] ELSE n

(* The entries of m_longPaths and m_fileIds for the names in S, each under the id found for
   it.  Of several names with a zeroed id the one listed last stays. *)
TrackNames(S, id) ==
  LET zeroed == {n \in S : id[n] = NoId}
  IN  /\ longPaths' = [p \in FilePath |->
           IF \E n \in S : ShortPath(n) = p THEN CHOOSE n \in S : ShortPath(n) = p
           ELSE longPaths[p]]
      /\ \E last \in (IF zeroed = {} THEN {fileIds[NoId]} ELSE zeroed) :
           fileIds' = [i \in DOMAIN fileIds |->
             IF i = NoId THEN last
             ELSE IF \E n \in S : id[n] = i THEN CHOOSE n \in S : id[n] = i
             ELSE fileIds[i]]
      /\ unidentified' = (unidentified \/ zeroed # {})

(* A slip of Forget: the file id is left behind. *)
MutForget(path) ==
  /\ info' = [n \in Name |-> IF n = LookUp(path) THEN None ELSE info[n]]
  /\ UNCHANGED <<longPaths, fileIds>>

(* The body of LogFileRemoveEventHandler.  Found by its long path, a file whose short path
   differs keeps its entry in m_longPaths. *)
Forget(path) ==
  LET n == LookUp(path)
      keys == IF Tracked(path) THEN {path} ELSE {p \in FilePath : longPaths[p] = n}
      ids == {i \in DOMAIN fileIds : fileIds[i] = n}
  IN  IF n = None THEN UNCHANGED mapVars
      ELSE /\ info' = [info EXCEPT ![n] = None]
           /\ longPaths' = [p \in FilePath |-> IF p \in keys THEN None ELSE longPaths[p]]
           /\ \E gone \in ids \cup (IF ids = {} THEN {NoId} ELSE {}) :
                fileIds' = [fileIds EXCEPT ![gone] = IF @ = n THEN None ELSE @]

(* A slip of RenameInMaps: the new name starts from the beginning of the file. *)
MutRenameInMaps(new, id) ==
  /\ info' = [m \in Name |-> IF m = new THEN NeverRead
                             ELSE IF m = LookUp(fileIds[id]) THEN None ELSE info[m]]
  /\ longPaths' = [longPaths EXCEPT ![ShortPath(new)] = new]
  /\ fileIds' = [fileIds EXCEPT ![id] = new]

(* RenameFileInMaps. *)
RenameInMaps(new, id) ==
  LET old == fileIds[id]
      n == LookUp(old)
      keys == IF longPaths[old] # None THEN {old} ELSE {p \in FilePath : longPaths[p] = old}
  IN  /\ info' = [m \in Name |-> IF m = new THEN IF n = None THEN NeverRead ELSE info[n]
                                 ELSE IF m = n THEN None ELSE info[m]]
      /\ longPaths' = [p \in FilePath |-> IF p = ShortPath(new) THEN new
                                          ELSE IF p \in keys THEN None ELSE longPaths[p]]
      /\ fileIds' = [fileIds EXCEPT ![id] = new]
-----------------------------------------------------------------------------
(***************************************************************************)
(* Starting: a scan by the directory thread, the first read of the         *)
(* directory handle, a scan by the handler.                                *)
(***************************************************************************)
Modified(n) == [action |-> "Modify", path |-> n, time |-> clock]

(* InitializeDirectoryChangeEventsQueue. *)
Scan ==
  LET unknown == {n \in Listing : LookUp(n) = None}
      found == {n \in unknown : fromStart \/ CanOpen(n)}
      passed == IF fromStart THEN {} ELSE {dir[n] : n \in found}
  IN  /\ info' = [n \in Name |->
           IF n \in found THEN [offset |-> IF fromStart THEN 0 ELSE lines[dir[n]], lastRead |-> 0]
           ELSE info[n]]
      /\ TrackNames(found, [n \in found |-> FileId(n)])
      /\ fromStart' = FALSE
      /\ queue' = queue \o SetToSeq({Modified(n) : n \in Listing \ (unknown \ found)})
      /\ skipped' = [f \in File |-> IF f \in passed THEN lines[f] ELSE skipped[f]]
      /\ overlooked' = (overlooked \ {dir[n] : n \in found}) \cup {dir[n] : n \in unknown \ found}
      /\ UNCHANGED <<osVars, clock, kernel, task, printed, renamedAway, reinited>>

FirstScan == phase = "new" /\ phase' = "scanned" /\ Scan

Register ==
  /\ phase = "scanned"
  /\ phase' = "registered"
  /\ UNCHANGED <<osVars, clock, kernel, fromStart, queue, task, mapVars, printed, history>>

SecondScan == phase = "registered" /\ phase' = "running" /\ Scan

Start == FirstScan \/ Register \/ SecondScan
-----------------------------------------------------------------------------
(***************************************************************************)
(* The directory thread.                                                   *)
(***************************************************************************)
(* EnqueueDirChangeEvents.  A name that does not match may be a short one: its long form,
   if the file is still there, has a second chance. *)
Accept(r) ==
  LET path == IF r.action = "RenameNew" \/ r.path \in Matching THEN r.path ELSE LongPath(r.path)
  IN  IF r.action = "RenameNew" \/ path \in Matching
      THEN queue' = Append(queue, [action |-> r.action, path |-> path, time |-> clock'])
      ELSE UNCHANGED queue

(* The clock advances here only: an event taken down before a file is read is skipped if
   its time is that of the read, and need not be older. *)
Notice ==
  /\ Registered
  /\ kernel # <<>>
  /\ clock' \in {clock, clock + 1} \cap 1 .. MaxClock
  /\ Accept(Head(kernel))
  /\ kernel' = Tail(kernel)
  /\ UNCHANGED <<osVars, phase, fromStart, task, mapVars, printed, history>>

(* The records are lost and the system says so: ERROR_NOTIFY_ENUM_DIR. *)
Overflow ==
  /\ habit.overflows /\ ~reinited
  /\ kernel # <<>>
  /\ kernel' = <<>>
  /\ queue' = Append(queue, [action |-> "ReInit", path |-> <<>>, time |-> clock])
  /\ reinited' = TRUE
  /\ UNCHANGED <<osVars, clock, phase, fromStart, task, mapVars, printed,
                 skipped, overlooked, renamedAway, unidentified>>

(* A record about the name or the folder of the file n may tell that there is a file n. *)
Announces(r, n) ==
  r.action \in {"Add", "RenameNew"} /\ r.path \in {n, Short[n], <<n[1]>>}

(* The records are lost, and the read completes with no bytes: that is traced, and nothing is
   enqueued.  A file that only these records announced is not tracked from here on. *)
OverflowIsSilent ==
  /\ habit.overflows /\ ~reinited
  /\ kernel # <<>>
  /\ kernel' = <<>>
  /\ reinited' = TRUE
  /\ overlooked' = overlooked \cup
       {dir[n] : n \in {m \in Name : Exists(m) /\ \E i \in DOMAIN kernel : Announces(kernel[i], m)}}
  /\ UNCHANGED <<osVars, clock, phase, fromStart, queue, task, mapVars, printed,
                 skipped, renamedAway, unidentified>>

Loses == Overflow \/ OverflowIsSilent
-----------------------------------------------------------------------------
(***************************************************************************)
(* The handler.  It looks at the directory as it is now, which may be some *)
(* changes ahead of the event in hand.                                     *)
(***************************************************************************)
Resolve(path) == IF KnownShort(path) THEN longPaths[path] ELSE path

(* The event at the head of the queue, under the long name if that is known. *)
Event == [Head(queue) EXCEPT !.path = Resolve(@)]

Takes(action) ==
  /\ phase = "running"
  /\ task = Idle
  /\ queue # <<>>
  /\ Event.action = action
  /\ queue' = Tail(queue)
  /\ UNCHANGED <<osVars, clock, kernel, phase, fromStart>>

HandleModify ==
  /\ Takes("Modify")
  /\ LET n == LookUp(Event.path)
     IN  IF n # None /\ Event.time > info[n].lastRead
         THEN ReadLogFiles({n}, info)
         ELSE UNCHANGED <<info, printed>>
  /\ UNCHANGED <<task, longPaths, fileIds, history>>

HandleRemove ==
  /\ Takes("Remove")
  /\ Forget(Event.path)
  /\ UNCHANGED <<task, printed, history>>

(* The first half of LogFileAddEventHandler: the file is looked up and identified. *)
StartAdd(path) ==
  LET n == LongPath(path)
  IN  task' = IF LookUp(path) = None /\ n \in Name /\ Exists(n)
              THEN [does |-> "add", name |-> n, short |-> ShortPath(n), id |-> FileId(n)]
              ELSE Idle

HandleAdd ==
  /\ Takes("Add")
  /\ StartAdd(Event.path)
  /\ UNCHANGED <<mapVars, printed, history>>

(* The second half: the file of that name is read, and entered in the maps. *)
FinishAdd ==
  /\ task.does = "add"
  /\ ReadLogFiles({task.name}, [info EXCEPT ![task.name] = NeverRead])
  /\ longPaths' = [longPaths EXCEPT ![task.short] = task.name]
  /\ fileIds' = [fileIds EXCEPT ![task.id] = task.name]
  /\ unidentified' = (unidentified \/ task.id = NoId)
  /\ task' = Idle
  /\ UNCHANGED <<osVars, clock, kernel, phase, fromStart, queue, skipped, overlooked, renamedAway,
                 reinited>>

(* LogFileRenameNewEventHandler for a file: it is known by its id. *)
HandleFileRenamed ==
  /\ Takes("RenameNew")
  /\ LET n == LongPath(Event.path)
         id == FileId(n)
     IN  /\ n \in Name /\ Exists(n)
         /\ \/ /\ fileIds[id] # None /\ n \in Matching
               /\ RenameInMaps(n, id)
               /\ UNCHANGED task
            \/ /\ fileIds[id] # None /\ n \notin Matching
               /\ Forget(fileIds[id])
               /\ UNCHANGED task
            \/ /\ fileIds[id] = None /\ n \in Matching
               /\ StartAdd(n)
               /\ UNCHANGED mapVars
            \/ /\ fileIds[id] = None /\ n \notin Matching
               /\ UNCHANGED <<mapVars, task>>
  /\ UNCHANGED <<printed, history>>

(* For a subdirectory: its files are listed, and then renamed in the maps one by one. *)
HandleFolderRenamed ==
  /\ Takes("RenameNew")
  /\ Event.path = <<folder>>
  /\ task' = [does |-> "folder", todo |-> {[name |-> n, id |-> FileId(n)] : n \in Listing}]
  /\ overlooked' = overlooked \cup {dir[n] : n \in {m \in Listing : fileIds[FileId(m)] = None}}
  /\ UNCHANGED <<mapVars, printed, skipped, renamedAway, unidentified, reinited>>

RenameNextInFolder ==
  /\ task.does = "folder"
  /\ \E file \in task.todo :
       /\ task' = [task EXCEPT !.todo = @ \ {file}]
       /\ IF fileIds[file.id] # None THEN RenameInMaps(file.name, file.id)
          ELSE UNCHANGED mapVars
  /\ UNCHANGED <<osVars, clock, kernel, phase, fromStart, queue, printed, history>>

FinishFolder ==
  /\ task.does = "folder" /\ task.todo = {}
  /\ task' = Idle
  /\ UNCHANGED <<osVars, clock, kernel, phase, fromStart, queue, mapVars, printed, history>>

(* What was renamed is not there any more. *)
HandleRenamedAgain ==
  /\ Takes("RenameNew")
  /\ LET n == LongPath(Event.path) IN n # <<folder>> /\ ~(n \in Name /\ Exists(n))
  /\ UNCHANGED <<task, mapVars, printed, history>>

(* LogFileReInitEventHandler: what is new is read from its start, the rest read on.  What
   is gone stays in the maps. *)
HandleReInit ==
  /\ Takes("ReInit")
  /\ LET unknown == {n \in Listing : LookUp(n) = None}
         known == [n \in Name |-> IF n \in unknown THEN NeverRead ELSE info[n]]
     IN  /\ TrackNames(unknown, [n \in unknown |-> FileId(n)])
         /\ ReadLogFiles({n \in Name : known[n] # None}, known)
  /\ UNCHANGED <<task, skipped, overlooked, renamedAway, reinited>>

(* A slip of TimerReadsAll: the timer is set and nothing is read. *)
MutTimerReadsAll ==
  /\ phase = "running"
  /\ task = Idle
  /\ queue = <<>>
  /\ UNCHANGED vars

(* The timer comes due when the handler has had nothing to do for a second. *)
TimerReadsAll ==
  /\ phase = "running"
  /\ task = Idle
  /\ queue = <<>>
  /\ ReadLogFiles({n \in Name : info[n] # None}, info)
  /\ UNCHANGED <<osVars, clock, kernel, phase, fromStart, queue, task, longPaths, fileIds, history>>

Handle ==
  \/ HandleModify \/ HandleRemove
  \/ HandleAdd \/ FinishAdd
  \/ HandleFileRenamed
  \/ HandleFolderRenamed \/ RenameNextInFolder \/ FinishFolder
  \/ HandleRenamedAgain
  \/ HandleReInit

Next == Application \/ Unlock \/ Start \/ Notice \/ Loses \/ Handle \/ TimerReadsAll

(* Every thread that can run does, the timer comes due, and a file is not locked for ever. *)
Fairness ==
  /\ WF_vars(Start) /\ WF_vars(Notice) /\ WF_vars(Handle) /\ WF_vars(TimerReadsAll)
  /\ WF_vars(Unlock)

Spec == Init /\ [][Next]_vars

FairSpec == Spec /\ Fairness
-----------------------------------------------------------------------------
Action == {"Add", "Modify", "Remove", "RenameNew"}
Id == File \cup {NoId}

(* Every variable has its type: no offset is past the end of any file, no path is tracked
   that cannot be, and a task has the form of one. *)
TypeOK ==
  /\ dir \in [Name -> File \cup {None}]
  /\ folder \in Folder
  /\ lines \in [File -> 0 .. MaxLines]
  /\ born \in 0 .. MaxFiles
  /\ locked \subseteq File
  /\ taken \subseteq Name
  /\ habit \in Habits
  /\ ops \in 0 .. MaxOps
  /\ clock \in 1 .. MaxClock
  /\ kernel \in Seq([action : Action, path : FilePath \cup FolderPath])
  /\ phase \in {"new", "scanned", "registered", "running"}
  /\ fromStart \in BOOLEAN
  /\ queue \in Seq([action : Action, path : FilePath \cup FolderPath, time : 1 .. MaxClock]
                   \cup [action : {"ReInit"}, path : {<<>>}, time : 1 .. MaxClock])
  /\ \/ task = Idle
     \/ task \in [does : {"add"}, name : Name, short : FilePath, id : Id]
     \/ task \in [does : {"folder"}, todo : SUBSET [name : Name, id : Id]]
  /\ info \in [Name -> Info \cup {None}]
  /\ longPaths \in [FilePath -> Name \cup {None}]
  /\ fileIds \in [Id -> Name \cup {None}]
  /\ printed \in [File -> Seq(1 .. MaxLines)]
  /\ skipped \in [File -> 0 .. MaxLines]
  /\ overlooked \subseteq File
  /\ renamedAway \subseteq File
  /\ unidentified \in BOOLEAN /\ reinited \in BOOLEAN

Listed(f) == \E n \in Listing : dir[n] = f

(* Applications that never use a name twice, with no notification lost and every file
   identified: the lines printed of a file are the next ones each time, none twice and none
   left out, through any renames and however late the notifications are handled. *)
PrintedInOrder ==
  \A f \in File \ renamedAway :
    habit.reuse = "never" /\ ~reinited /\ ~unidentified =>
      \A i \in DOMAIN printed[f] : printed[f][i] = skipped[f] + i

(* With names never used twice and every file identified, though notifications may be lost:
   an id leads to a name that is tracked, no two ids lead to one name, and the file of that
   name, if there still is one, has this id: a rename carries the offset of the file that was
   renamed.  Where names come back, two ids may lead to one: the notification of a rename,
   handled late, finds the next file under the name. *)
FileIdsConsistent ==
  habit.reuse = "never" /\ ~unidentified =>
    /\ \A i \in Id : fileIds[i] # None => Tracked(fileIds[i])
    /\ \A i, j \in Id : fileIds[i] # None /\ fileIds[i] = fileIds[j] => i = j
    /\ \A f \in File : fileIds[f] # None /\ Exists(fileIds[f]) => dir[fileIds[f]] = f

Printed(f) == 1 .. lines[f] \subseteq ToSet(printed[f]) \cup 1 .. skipped[f]

(* Once the applications are done, every line of every file whose name matches is printed
   in the end, even when notifications were lost, a Modify was dropped as too old, or a name
   was deleted and created again, unless a scan skipped the line on purpose, the monitor
   overlooked the file or one was not identified.  A loss that is reported brings the monitor
   to list the directory, and one that is not (the read that completes with no bytes) only
   takes the files it would have announced from it: those it tracks are read by the timer. *)
EveryLinePrinted ==
  <>[](\A f \in File : Listed(f) => Printed(f) \/ f \in overlooked \/ unidentified)

(* LogFileMonitorTests.cpp:953: "Check that renaming a subdirectory doesn't stop the
   listening to the files on it". *)
FolderRenameKeepsListening ==
  <>[](\A f \in File : Listed(f) => Printed(f) \/ unidentified)
=============================================================================
