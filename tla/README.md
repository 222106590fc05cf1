# LogMonitor in TLA+

LogMonitor (`src/LogMonitor`) is the entry point of a Windows container: it
collects events from log files, from the Windows event log and from ETW
providers, runs one child process, and prints everything to its standard output.
Each collector has threads of its own, which wait for events, timers,
notifications and a stop event of Win32. These modules describe those threads
and what they share, the way from the configuration to the monitors, and the
way from the bytes of a file to lines; they state what the collectors promise,
and prove the parts of it that matter most.

Paths below are relative to `src/LogMonitor/src/LogMonitor/` unless they begin
with `src/`.

## Inventory

### Log file monitor (`LogFileMonitor.cpp`)

One object for each configured directory.

| | |
|---|---|
| State | `m_directoryChangeEvents` with the SRW lock `m_eventQueueLock`; the manual-reset events for stop, overlapped read, worker and "started"; the timer; the overlapped read and the buffer behind the directory handle; the maps `m_logFilesInformation` (offset, encoding and last read time by long name), `m_longPaths` (long by short name), `m_fileIds` (name by file id). |
| Actors | the thread that constructs and destroys the object, the directory thread (`StartLogFileMonitor`), the handler thread (`LogFilesChangeHandler`), the file system and the applications that write the logs. |
| Operations | construct; wait for the directory; scan it; read changes and turn them into events; enqueue; drain the queue; handle add, modify, remove, rename of a file or a folder, re-initialisation; read a file and cut it into lines; read all files when the timer is due; stop; destroy. |
| Hard | a worker event that is set only when the queue grows from empty; maps used without the lock; an overlapped read that must always be pending; an overflow of the kernel's buffer; notifications that are old when they are handled, and looked up by name; names that are used again; chunks that end inside a character or between CR and LF; failures and exceptions between lock and unlock or between two lines; a destructor that gives up after five seconds. |
| Correct if | no wakeup is lost; one thread uses the maps at a time; changes are handled once and in order; every change is handled; stop ends both threads; lines are printed once, in order, whole, and in the end all of them; a file keeps its offset through renames. |

### Wait for the log directory (`FileMonitor/FileMonitorUtilities.cpp`, `Utility.cpp`)

| | |
|---|---|
| State | elapsed time, timer, change notification of the parent directory, status. |
| Operations | `GetLogDirHandle`, `_RetryOpenDirectoryWithInterval`, `GetWaitInterval`; `ParseDirectoryValue`, `IsValidSourceFile`, `CheckIsRootFolder` on names. |
| Hard | time counted both by a clock and by intervals; a directory that is made between an attempt to open it and the next wait; handles on the early ways out. |
| Correct if | it never waits longer than asked, misses no creation, answers stop, opens a directory that is there to stay. |

### Event log monitor (`EventMonitor.cpp`)

| | |
|---|---|
| State | the channels and the time each has been waited for, the subscription with its event, the block of events under way, `m_eventMessageBuffer`, the stop event. |
| Actors | its thread, the destructor, the event log service. |
| Operations | enable the channels, waiting for a service that is not up; subscribe; wait; take events in blocks of ten; print each; reset the signal; stop. |
| Hard | one timer loop for each channel while the service comes and goes; a signal that is reset after the last look; a buffer that outlives its event and has both a size and a capacity; events that cannot be rendered. |
| Correct if | events are printed once, in order and with their own message; stop ends the thread; what has arrived is taken. |

### ETW monitor (`EtwMonitor.cpp`) and log writer (`LogWriter.h`)

| | |
|---|---|
| State | the valid providers, the properties buffer `m_vecStopTracePropsBuffer`, `m_startTraceHandle`, the stop flag, the consumer thread, its buffer of events; the trace session, which belongs to the system; the lock around each write. |
| Actors | the consumer thread, the destructor (in the main thread, or wherever `exit` runs), the handler of catastrophic signals, the system that keeps sessions, other processes of the same program, whoever reads stdout. |
| Operations | filter the providers; start the session, stopping one that is there; enable providers one by one; open and process the trace; filter and print events; stop the session, close the trace, join or terminate the thread. |
| Hard | a session that outlives its process and is stopped by a name that every process uses; a destructor that may run before the thread has filled in what it needs; `TerminateThread` on a thread that may hold the lock; `exit` in the very thread it joins; a write that stands still while nobody reads. |
| Correct if | events of the process's own providers are printed, once and in order; the session that is consumed follows the configuration; none is left behind; the thread is joined, not killed; a signal ends the process. |

### Process monitor (`ProcessMonitor.cpp`)

| | |
|---|---|
| State | the pipe, the child, `partialLine`. |
| Actors | the child, the reader thread, the main thread that waits for the child. |
| Hard | chunks that end anywhere; an end of process that does not wait for the reader; a reader that ends while the child still writes. |
| Correct if | the lines printed are those written; an ended line is printed at once; a full pipe is emptied. |

### Process life and control events (`Main.cpp`)

| | |
|---|---|
| State | `g_hStopEvent`, the stop event, the monitors. |
| Actors | `wmain`, one thread for each control event, the child. |
| Hard | a global handle that the control handler replaces while the main thread is about to wait for it; a handler that sends the control event on to its own process. |
| Correct if | a control event ends a wait. |

### Configuration (`JsonProcessor.cpp`, `Parser/LoggerSettings.h`, `StartMonitors` of `Main.cpp`) and formats (`Utility.cpp`)

| | |
|---|---|
| State | the place in the document, `Config.Sources`, the channels, providers, flags and formats collected for the monitors; for a line, the window that `FormatEventLineLog` moves over the format. |
| Operations | read the document; handle a source of each kind, with its channels or providers; create the monitors; fill a custom format. |
| Hard | bad sources between good ones; exceptions in a handler and in a constructor; several sources that share one monitor; fields that hold percent signs themselves; a window that must reach the end; escapes after the substitution. |
| Correct if | the good sources and no others are started; a line is its format with the fields filled in once; filling it ends. |

### The rest

- **Legacy JSON parser** (`Parser/JsonFileParser.*`): a recursive-descent parser
  that the program no longer calls.
- **Text utilities** (`Utility.cpp`): those that decide something are in the
  modules that use them; conversions of times, GUIDs and strings are not
  modelled.
- **Build, resources, examples**: no behaviour of their own.

### How they interact

`wmain` reads the configuration and constructs the monitors, which start their
threads; a log file monitor's constructor waits for its thread's "started"
event. All of them write through the log writer, whose lock is the only thing
they share. The main thread then waits for the child or for the stop event. At
the end of `wmain`, or of a catastrophic signal, the monitors are destroyed:
each sets its stop event or ends its session, and waits five seconds for its
threads. So each monitor is modelled alone; what is composed is the process with
its child and its control handlers (`LogMonitor`), the configuration with the
format of a line (`Configuration`), and the processes that share a trace session
(`EtwMonitor`, which also has the lock of the log writer, the signal handler and
`exit`, because they bite there).

`PROJECT.json` lists the places where this is hard to test ("hazards") with the
properties that would catch a mistake there.

## The modules

| Module | Models | Uses |
|---|---|---|
| `EventChannel` | what the queue of a log file monitor promises: a first-in first-out channel that discards only after stop | |
| `LogFileMonitor` | threads, queue, lock, events, timer, overlapped read, lifetime of one log file monitor | `EventChannel` (refinement) |
| `FileTail` | the maps, the event handlers, the scans, and when files are read, against the applications | |
| `LineReader` | how a file is read in chunks, decoded and cut into lines while it grows | `Selections` |
| `DirWait` | the wait for the directory | |
| `EventMonitor` | the event log monitor | |
| `EtwMonitor` | the ETW monitor in one process after another or side by side, the session, the signal handler | |
| `ProcessMonitor` | pipe, child and reader; it has no specification of its own | |
| `LogMonitor` | `wmain` and `ControlHandle`, composed with `ProcessMonitor` | `ProcessMonitor` (EXTENDS) |
| `LineFormat` | a custom format, filled in by a loop, and what it should give | |
| `Configuration` | from a document to the monitors and a line of one of them | `LineFormat` (EXTENDS) |
| `Selections` | sequences that a loop puts together, and the elements of a sequence at some positions | |
| `LogFileMonitor_proofs` | theorems on `LogFileMonitor`, and on `DirWait`, the wait in which its directory thread begins | both (EXTENDS) |
| `FileTail_proofs`, `LineReader_proofs`, `EventMonitor_proofs`, `EtwMonitor_proofs`, `LogMonitor_proofs`, `Configuration_proofs` | theorems | `Selections_proofs` |
| `Selections_proofs` | lemmas on joined and selected sequences | |
| `MC...` | values of the constants for TLC | |

Operators called `Mut...` are mistakes that could be made in the definition
after them; each shows that some property would notice. They are used nowhere
in the specifications.

### LogFileMonitor

One action for each call at which the scheduler can interleave something that
matters: acquiring and releasing the lock, a change of the queue, setting and
resetting an event, a wait that returns, a batch of notifications. `pc` gives
each thread's next call; its labels are named for it. `status` is the local
variable of the directory thread, whose value survives an iteration of the loop.
`io`, `records`, `kernel` and `overflowed` are the overlapped read and the
buffer of the directory handle: a change completes a pending read, or is
buffered, or overflows the buffer, which discards its content and completes the
next read with no bytes.

An event is the number of the change it reports, or `Synthetic` for what the
monitor makes up. `Matching` says which changes the filter lets through. With
`ApiMayFail` calls fail: those that open, read and scan the directory, create a
thread or the timer, wait or reset the worker event, and `SetEvent` of the worker
event (`SignalFails`), of the stop event (`DestructorFails`) and of the started event,
whose result the code does not look at, so that the constructor may wait for ever.
Allocations may throw, and a thread that leaves by an exception does not release the
lock. `unsignalled` is a history: a `SetEvent` of the worker
event has failed that the handler needed. The constructor may throw
(`ConstructorThrows`), which frees the object while its thread runs. The destructor
joins the threads whose handles it found at its entry, or gives up, and does not
even wait when it could not set the stop event.

### FileTail

Here the threads are taken for granted: a notification is turned into an event in
one step, and the handler's steps are those between which an application can
interfere. `LogFileAddEventHandler` takes the id of a name and then reads the
name: two steps. The rename of a folder enumerates the folder and then treats
one file at a time: a step each. A read of a file goes to its end at once; what
happens within a read is in `LineReader`.

Applications create, append to, lock, rename and delete files and rename the
folder. A `habit`, fixed at the start of a behaviour, says what they may do:
use names again (never, only after deletion, in any way), have notifications lost,
lock files, begin while the monitor starts, use short names. `clock` is
`GetTickCount64`, which may stand still between a write and a read; a Modify
that is not newer than the last read is dropped.

Notifications are lost in two ways: the call that asks for them says so, and the
directory is listed again (`Overflow`), or the read completes with no bytes, which
is traced and no more (`OverflowIsSilent`).

The histories `skipped`, `overlooked` and `unidentified` record what the code
gives up knowingly, and the properties name them where they except it.

### LineReader

A file has an encoding and a sequence of characters, whose bytes are laid out by
`Layout`; a character keeps its place, so that the properties can tell what was
lost, repeated or moved. A `"wide"` character stands for any that is not ASCII, and
has no ASCII and no zero byte in any encoding; files hold no zeros of their own. An
application appends any number of bytes at a time, and `ReadLogFile` may begin a read
whenever it likes. A BOM is read apart if the file is read from beyond it, which may
fail (`bomFailed`), and then the content decides.

A chunk of at most `ChunkSize` bytes is decoded by the encoding that
`FileTypeFromBuffer` decides on: that of the BOM if it has one, and otherwise what
`IsTextUnicode` and the test for UTF-8 say, where the former may take any content
for UTF-16. A byte or pair that does not fit the encoding becomes `"?"`, and so does
a byte of ANSI text that is not ASCII, since it is widened from a signed char; the
zero beside an ASCII character of UTF-16, taken for a character of its own, becomes
`"nul"`, at which a line is cut when it is printed (`BeforeNul`). The text is cut at
ends of lines, and the rest kept in `currentLineBuffer` until the next chunk or the
end of the file, where it is printed as it is.

An exception may end a read after any line of a chunk (`ChunkThrows`), or is caught
while the chunk is handled, and the read goes on: the line is then printed once more
(`PrintsAgain`), or what should have been kept of the chunk is printed with it
(`PrintsRest`). Two places are outside of the `try`: the allocation of the buffer
(`OpenThrows`) and the print of the last line (`LastThrows`); an exception there ends
the handler's thread, and in the second case the line is lost. The code looks at the
character before the first one of a chunk, which is undefined when there is none,
and a choice in the model. An exception that is thrown while another is handled, in a
`catch` block, is not modelled.

### DirWait

Time is in seconds and passes only while the thread waits. `elapsed` is the
variable of the code, which notifications set from the clock and retries
increase by an interval; `now` is the true time. The timer handle can be closed
twice and the notification handle left open on the early ways out: both are in
the model.

### EventMonitor

A channel is enabled or not; an event is whether it can be rendered and the size
of its message. `buffer` keeps both the size and the capacity of the vector,
and the event it was last written for. An empty buffer whose first element is
printed is undefined behaviour: the program is taken to end. After the
destructor has given up, because its wait was too long or `SetEvent` failed
(`DestructorFails`), the object is freed and the thread is not followed.

### EtwMonitor

Every variable of a process is a function on `Processes`. `thread` is the next
call of the consumer thread, `main` that of the main thread or of the destructor
in `exit`, `signal` the thread in which a catastrophic signal was raised, in
which case `exit` runs in that thread. `session` is the one session of that
name that the system keeps: `StartTrace` fails while there is one, whoever owns
it, and `ControlTrace` stops it by its name whatever handle it is given, so that
one process can end the session of another. A session that is stopped ends the
`ProcessTrace` of every process that consumes it, and so does `CloseTrace`.
Events of the providers that are enabled are kept by the session or go to the
process that consumes it, buffer by buffer; the first event of every trace is
one of the system, with another GUID. `missed` records what the destructor
looked for before the thread had made it.

A line is written in two steps, between which its thread holds the lock of the
log writer; while stdout is not read (`stalled`) the second does not come.
Behaviours have habits again: failures, kills without a destructor, signals,
stalls, two processes at a time, and "mixed" for events that are of other
providers or cannot be decoded.

### ProcessMonitor and LogMonitor

The output of the child is a sequence of symbols: text, an end of line, a zero
byte, a write of nothing. `ReadFromPipe` takes a chunk of at most `BufSize`,
appends it up to its first zero, prints the lines and keeps the rest. In
`LogMonitor` the main thread reads `g_hStopEvent` in one step (`Waits`) and is
waiting in the next; `ControlHandle` is four steps, and may run in several
threads. `INVALID_HANDLE_VALUE` is also the pseudo handle of the process, which
can be waited for.

### LineFormat and Configuration

`FormatEventLineLog` is modelled turn by turn: the window from `i` to `j` moves
until a percent sign stands at each of its ends, and what is between them is
replaced. `Wanted` is what the format asks for, written without the loop: the
format cut at its percent signs, text and names in turn. The suffix that asks
for JSON is cut off first, and the escapes it asks for come last.

A document is what the JSON library makes of the file: records with the values
that a handler looks for, `None` where they are absent or of another type,
`NoObject` where an object is missing; a wait is a number or a string that says one.
Each handler accepts or refuses its source in one step, except that an ETW source
whose providers hold something that is no object throws out of the whole reading.
`StartMonitors` collects channels, providers, flags and formats from the sources in
order, and calls the constructors of the monitors, each of which may throw:
`monitors` are those that were called, `failed` the places of those that threw. Then
any other monitor prints a line in its format. What a constructor that throws leaves
running is in `LogFileMonitor`.

`StartedAsConfigured` says of the monitors that they are exactly `MonitorsAsked`,
which is written from the values of the document, for each source by itself: what
stands between two good sources changes nothing.

## What is checked

Distinct states in parentheses.

| Run | Shows |
|---|---|
| `LogFileMonitor` (743,118) | `NoLostWakeup`, `MapsHaveOneUser`, `NothingLostOrReordered`, `ImplementsChannel`, and under fairness `StopEndsThreads` and `EveryChangeHandled`, with the failures listed above at any time. A wakeup is lost exactly if `SetEvent` failed for it. |
| `FileTail` (422,194) | `PrintedInOrder`, `FileIdsConsistent` and `EveryLinePrinted` for three kinds of applications; notifications are lost with and without a report. |
| `LineReader` (996,078) | `GarbledOnlyIfCut`, `LinesInOrder`, `NothingSkipped` and `EverythingPrinted` for files of four encodings, with and without a BOM, however they are written, taken for what they are or not, and with one exception or a failed read at any place. |
| `DirWait` (40,328) | `WaitIsBounded`, `CreationWakesWait`, `StopAnswered`, `EventuallyOpened`. |
| `EventMonitor` (656,876) | `PrintedInOrder`, `MessagesMatch`, `StopEndsThread`, `ArrivedIsTaken`. |
| `EtwMonitor` (511,074) | `PrintedInOrder`, `SessionFollowsConfig`, `NoSessionLeft`, `JoinedNotKilled`, `SignalEndsProcess`, `EventsPrinted`. |
| `Configuration` (219,494) | `StartedAsConfigured`, `LineFollowsFormat`, `LoopAdvances`, `FormattingEnds`. |
| `LogMonitor` (478,688) | `LinesInOrder`, `LinesArePrinted`, `FullPipeIsRead`, `CtrlEndsWait`. |

`LogFileMonitor`, `FileTail`, `DirWait`, `EventMonitor` and `Configuration` also check
the type invariant of their module; those of the other modules are proved.

Four runs end in a counterexample. Each states what a comment, a document or a
test says and the code does not do:

| Run | Counterexample |
|---|---|
| `LogFileMonitor_overflow` | The comment at `LogFileMonitor.cpp:407` promises a rescan after an overflow. An overflow reaches an overlapped read as a completion of no bytes, which is traced and otherwise ignored. |
| `FileTail_folder` | `src/LogMonitor/LogMonitorTests/LogFileMonitorTests.cpp:953` says that renaming a subdirectory does not stop the listening to its files. A file that is created just before its folder is renamed, and whose creation is handled after it, is never tracked. |
| `LogMonitor_ctrl` | The handler writes that the process will now terminate. A control event handled before the main thread waits leaves it waiting for its own process. |
| `Configuration_documented` | The comment at `JsonProcessor.cpp:443-446` says that invalid entries are skipped so that well-formed sources can still start. A provider that is no object throws (310), and the whole document is refused. The property also asks for the waits that file sources were given: `src/LogMonitor/docs/README.md:252` allows a number or a string, and a string is passed over (`JsonProcessor.cpp:250`). |

What else the models contain, and no run is about:

- Log file monitor: the destructors do not "fail fast" (`LogFileMonitor.cpp:20`,
  `EventMonitor.cpp:20`) but free the object after five seconds, or at once if
  `SetEvent` fails. A first scan that fails ends the monitor once it has registered for
  changes, since its error stays in `status` (359-373, 439, 509-513), although the comment
  at 362-364 says that it is ignored. If `SetEvent` of the worker event fails while the handler sleeps,
  no later change wakes it, since the event is set only when the queue grows to one
  event; tracked files are still read by the timer. A file whose creation was
  reported in a buffer that overflowed is not tracked. The constructor
  does not wait until changes are registered (33), for the started event comes
  earlier (321). A file that is locked during a scan is not read from its start
  later (722-725) but left out. A log rotated between the two looks of the Add
  handler has its offset filed under the wrong id, and lines of the new file may
  never be printed. A UTF-8 or ANSI file may be taken for UTF-16 by its first chunk,
  for good; ANSI text that is not ASCII is garbled (1979-1983). An exception at the
  last print of a read ends the thread that reads all files, and loses the line.
- Wait for the directory: the early ways out of the loop close the timer, which the
  caller closes again, and leave the notification open.
- Event log monitor: a message that exceeds the size of the buffer and not its
  capacity is cut; `MessagesMatch` says when.
- Process: output that is in the pipe when the child ends is lost. A write of no
  bytes ends the reader, and the child then blocks on a full pipe.
- ETW monitor: a signal in the consumer thread makes `exit` join its own thread,
  and terminate it after five seconds, so that nobody ends the process ("stuck";
  not covered by `SignalEndsProcess`). A session is left behind when the
  destructor comes before its start; if it comes before the thread has sized the
  properties buffer, it takes `[0]` of an empty vector, which is undefined
  behaviour and here ends the process. `multiLine` is false unless given, where the documentation says true.
- Configuration: a refused document still runs the child. An empty array of
  providers is accepted, though the message says that it must not be. The flags and the format of the last source
  of a kind hold for all of them (`Main.cpp:118`).
- Formats: with the suffix `|json`, the quotes of the format itself are escaped with
  those of the fields (`Utility.cpp:401`), so that the line is not the valid JSON that
  `src/LogMonitor/docs/README.md:557` promises. Anything after a `|` is cut off, also where it does not ask for JSON;
  a format with an odd number of percent signs never ends, which in a reader of
  the child's output blocks the child.

### Bounds

- `LogFileMonitor`: four changes, two of them filtered out, against a buffer of
  two: a batch of two, an overflow, and changes before and after either. One
  file in each scan brings synthetic events among the others. The lost-wakeup
  and clearing races need two events at most, and the theorems have no bounds.
- `FileTail`: two files, two lines each, three operations of the applications,
  two ticks. Two files are the least for a name or an id to be taken by
  another. The combinations of habits keep the run small: a loss of
  notifications, of which there is at most one, is not combined with reuse of names,
  nor locks with either.
- `LineReader`: chunks of four bytes and one exception; every file of up to three
  characters (up to two beside a BOM or with characters of two bytes), and one of
  two lines. So a chunk ends at each place of a character, of a CR LF and of a
  BOM, a line spans two chunks, and a BOM is there before or comes after the
  start. 4096 bytes are no different: what matters is where a chunk ends. The theorems hold for chunks of any size and any number of exceptions.
- `DirWait`: an interval of three seconds and waits of 0, 2, 3, 5, 7 and without
  end: below, at, between and beyond multiples of the interval. Four changes of
  the directories let one be made, removed, restricted and made again. The
  theorems have no such bounds.
- `EventMonitor`: two channels (one left disabled and one after it), two tries,
  blocks of two and three events of four kinds, so that a block is full and
  another follows, and a message is shorter than, within and beyond what the
  buffer has grown to; one change of the service. The theorems have no such
  bounds.
- `EtwMonitor`: two processes with different providers (by GUID, by name, by a
  name twice in different case, by one that is not found), which is the least
  for one to find the session of another; two events, one where processes
  overlap; one stall. Habits come in three sets (failures and kills; overlap;
  signals and stalls). The theorems have no such bounds.
- `Configuration`: every document of up to three of eighteen sources, so that a
  bad one stands before, between and after good ones and three share a monitor;
  every format of up to five characters, with a field whose text holds a percent
  sign or a quote and one that looks like a field itself.
- `LogMonitor`: chunks of up to three, a pipe of three and five symbols put an
  end of line, a zero and an empty write at every place of a chunk, and lines
  across two boundaries; or one symbol with two control events, so that the
  second handler meets a handle already forgotten. The theorems have no such
  bounds.

### Fairness

Threads that can run are scheduled, locks and waits that can be taken are taken,
and timers that are set come due; all of it is weak fairness, since no wait of
the code competes for more than its turn.

| Module | Fair | Why |
|---|---|---|
| `LogFileMonitor` | both threads, the owner's waits, the timer; the wait for the directory once stop is set | `DirWait` shows that this wait answers stop (`StopAnswered`) |
| `FileTail` | the start, notifications, the handler, the timer; a lock on a file is released | a file that stays locked is never read |
| `LineReader` | `ReadLogFile` | the timer of the monitor reads all files again |
| `DirWait` | the thread, time | |
| `EventMonitor` | the thread | |
| `EtwMonitor` | the thread and the exit of each process, and that stdout is read again | a line waits for its reader |
| `Configuration` | the main thread, the loop of a line | |
| `LogMonitor` | the main thread, the reader, each control handler | |

No failure, change, event, control event, signal or stop has to happen, and the
child owes nothing: it may run for ever. Where a property reads `[]<>P`, the
output and the events of a behaviour are bounded, so that it says what a
leads-to for each of them would.

Deadlock is checked in `FileTail`, where something can always be done. The other
systems are meant to end, on stop, with the child or with the line, and some on a
failure, as `LineReader` does with the thread of the handler.

## What is proved

TLAPS checks the following for every value of the constants, from the named
assumptions on them only: `LogFileMonitorAssumption` (bounds are natural numbers
and `Matching` is a set of changes), `FileTailAssumption` (there are finitely many
names, each with a short form of its own, the filter is a set of paths, and `None` is
none of the names and the files), `LineFormatAssumption` (names and values of fields
are texts), `ConfigurationAssumption` (a value that a handler looks for has the type
it takes or is `None`),
`LineReaderAssumption` (files consist of the named characters in the named encodings,
a chunk has at least one byte), `DirWaitAssumption` (an interval of at least
one second and waits that are natural numbers or `Forever`),
`EventMonitorAssumption` (bounds are natural numbers, there is at least one try
and room for one event, events have a size), `EtwMonitorAssumption` (processes
have numbers, their providers are sequences, `None` is none of the other values, names that fold to one are one,
bounds are natural numbers), `ProcessMonitorAssumption` (buffer and pipe hold
something, the symbols and habits are among those named) and
`LogMonitorAssumption` (so are the control events).

**`LogFileMonitor_proofs`**

- `TypeCorrect`: `Spec => []TypeOK`, action by action.
- `WorkerEventCorrect`: `Spec => []NoLostWakeup`. The property is not inductive:
  between growing the queue and setting the event it relies on the lock being
  held, and between seeing an empty queue and resetting the event likewise. The
  invariant `IInv` is
  - `LockInv`: a thread whose program counter is inside a critical section holds
    the lock;
  - `SignalInv`: a non-empty queue has its event set, or a thread is just about to
    set it (and holds the lock, by `LockInv`), or a `SetEvent` has failed for it;
  - `SleepInv`: the event is unset only while the handler is at certain steps of its
    loop;
  - `FailureInv`: once a `SetEvent` has failed for the handler asleep, the queue is
    never empty again while the directory thread lives, so that nobody sets the event;
  - `ResetInv`: at the point where the handler resets the event the queue is empty;
  - `SpawnInv`: the handler does not exist while the directory thread is at one of
    its steps up to the creation of the handler, its scan among them;
  - `PcTypeOK`: the part of `TypeOK` on program counters.

  With the lock free, `LockInv` rules out the second case of `SignalInv`, and
  `FailureInv` says that the third is for good: the property, in both directions.
- `MapsCorrect`: `Spec => []MapsHaveOneUser`, from `SpawnInv`: the handler is
  created after the directory thread's only scan.
- `ChannelCorrect`: `Spec => ImplementsChannel`. The refinement maps the queue
  to `inFlight` and the stop event to `open`; `Emplace` is a `Post`, `HandlerPops` a
  `Deliver`, the clearing of the queue a `Discard` (allowed because `ClearInv` shows
  that the queue is cleared on stop only), the destructor's first step a `Shut`,
  and every other step stutters.
- `OrderCorrect`: `Spec => []NothingLostOrReordered`. On its way a change is in the
  kernel's buffer, in the records of a read, in the events the directory thread is
  about to enqueue, in the queue, or handled. The property speaks of these five
  places put one behind the other; the invariant `OInv` of each of them:
  - `PartsRise`: each is in order;
  - `PartsFollow`: what is in one comes before what is in those behind it;
  - `PartsComplete`: together they hold what has happened and was not given up;
  - `Places`: at which calls the directory thread may have something left to
    enqueue, and a read be pending or complete. Without it a step could put a new
    batch before the rest of the last one.

  `JoinParts`, `AddLast` and `TakeFirst` say what happens to order and content when
  sequences are joined, grow or shrink; there is one lemma for each kind of step.

**`FileTail_proofs`**

- `TypeCorrect`: `Spec => []TypeOK`, one lemma for each operator that changes the maps
  or reads a file (`ReadTyped`, `TrackTyped`, `ForgetTyped`, `RenameTyped`) and one for
  each action. What a short name or an old id leads to is always a name the filter
  saw or nothing, and no offset is past what a file can hold. The invariant is
  inductive once a task is said to be one of three kinds of record.
- `IdsCorrect`: `Spec => []FileIdsConsistent`, and `OrderCorrect`: `Spec =>
  []PrintedInOrder`, for applications that use no name twice, and while every file
  can be identified. A name `Stands` for a file if the directory, the map of ids or
  the task of the handler says so. The invariants:
  - `NamesOK` relates the directory and the notifications on their way: a name stands
    for one file only; if its removal is still to be reported, that file is gone; if
    its creation is, it is the file's first name;
  - `MapsAgree`: an id leads to a tracked name, and a tracked name that is in the
    directory has the id of its file and its short name;
  - `Order` (until a rescan): the offset under which a file is tracked is what was
    skipped and printed of it, and of a file that is there and not tracked nothing
    was printed.

  Without `habit.reuse = "never"` or with an unidentified file, both properties say
  nothing: the code then files an offset under the wrong name, as described above.

**`LineReader_proofs`**

`GarbledCorrect`: `Spec => []GarbledOnlyIfCut`, and `LinesCorrect`: `Spec =>
[]LinesInOrder`, from one invariant, `Inv`:

- `TypeInv`: offset and size lie in the file, and the monitor started between two
  characters;
- `EncodingInv`: if the BOM decides (`Named`: there is one, it could be read, and it
  was not the only thing there when the monitor started), the encoding is that of the
  file, or none was decided on yet; then nothing was read, and the BOM is looked for
  where it is. Without a chunk cut inside a character the offset is between two
  characters;
- `TextInv`: what is printed and `line` are characters with places between the start
  and the end of the file, and the `Letters` they are made of: the file's own if the
  text is taken for what it is (`Clean`), also `"?"` as long as UTF-16 is not taken for
  something else or the reverse (`Sound`), and zeros otherwise;
- `OrderInv`, while no exception was thrown and the text is sound and readable: up to
  some place `b` the file is `Told` by the lines that are printed, and `line` is all of
  it from there to the offset.

A `Run` is all characters of the file between two places, in order and next to each
other. `DecodeRun` says that a chunk that was read without a `"?"` is a run, whatever
the encoding: each byte gives a character or is inside one. Joined runs are runs
(`RunConcat`), and so is what `WriteToConsole` and the cut at the last end of line
are given (`RunSlice`). `WriteHas`, `WriteRises` and `WriteGood` say what
`WriteToConsole` makes of a run: every character of its text is in a line, once, in
order, and a line begins and ends where it may; `BeforeNulIs` that a line without a
zero is not cut. `ToldNext` puts that behind what was
printed. `SkippedTold` is the step that skips a BOM, which holds no text.
`NamedTypes` is the argument on the encoding: with a BOM `FileTypesFromBuffer` gives
the file's own, where the system's heuristic is not asked; `CleanPlain` and
`SoundType` say what a chunk that is taken for what it is, or for another encoding of
single bytes, is read as.

`NothingSkippedCorrect`: `Spec => []NothingSkipped`, also after exceptions, up to that of
the last print, and where a file is taken for another encoding of single bytes, so that
the text is not in order and may not be readable. `Shown(m)` are the places of the
characters of `m` other than ends of lines. The invariant `ShownInv`: while the text is
`Sound`, each place of text from the start up to the offset is in `Shown(Output)` or
`Shown(line)`. `ShownDecoded` says that a chunk of whole characters shows each letter of
it whatever it is taken for, `ShownWritten` and `ShownParts` that neither
`WriteToConsole`, which meets no zero (`SoundText`), nor the cut at the last end of line
loses one, and `ShownNext` that an action may leave the offset where it is or move it
behind a chunk all of which is shown. `LastThrows` leaves the line as it is: it is what
is lost with the thread. `Inv` gives the types, and that the line is empty when a read
begins and clears it.

**`DirWait`, in `LogFileMonitor_proofs`**

- `WaitTypeCorrect`: `WaitSpec => []WaitTypeOK`, with the range of `GetWaitInterval`:
  no timer is set to more than an interval.
- `WaitCorrect`: `WaitSpec => []WaitIsBounded`. The invariant `Counted` relates the true
  time, the counted time and the time left on the timer in each state of the
  loop.
- `WakeupCorrect`: `WaitSpec => []CreationWakesWait`.

**`EventMonitor_proofs`**

- `TypeCorrect`: `Spec => []TypeOK`. It needs `NothingTaken`: until there is a
  subscription the block is empty and nothing is printed. `BufferGrows` shows that
  the size of the buffer stays within its capacity on every way through the
  preparation of a message.
- `MessagesCorrect`: `Spec => []MessagesMatch`. The invariant adds to the property
  that the block holds the events just before `next` (`BlockIsNext`), and that a
  buffer that was ever used has the size of the message of an event before the
  block (`SizeFromLog`): that event is the witness when a message is cut.
- `OrderCorrect`: `Spec => []PrintedInOrder`, from the invariant of the last
  theorem: the event that is printed next is the first of the block, and larger
  than all that were printed.

**`EtwMonitor_proofs`**

- `SessionStopped`: `Spec => []NoSessionLeft`, and `ThreadJoined`: `Spec =>
  JoinedNotKilled`, an action property. Both follow from `JInv`, which holds of each
  process:
  - `EndSafe`: past its first step, the destructor of a process whose thread had
    begun to start the session leaves none of that process, and the thread cannot
    start one any more;
  - `HandleNew`, `TraceClosed`: the handle that `CloseTrace` is given is that of the
    trace, or the thread had not opened it yet;
  - `InThread`, `DeadIdle`: where a signal was raised, and that a process that has
    ended does nothing;
  - `Alone`: a process that never shared the system is the only one alive, and the
    session its thread consumes is its own.
- `OrderCorrect`: `Spec => []PrintedInOrder`. What is printed, in the buffer, and on
  its way to the thread rises by number through all three (`Ordered`); so does what
  the session keeps for a process to come, and a trace begins with the number 0;
  before a process consumes a session all three are empty.
- `TypeCorrect`: `Spec => []TypeOK`; the constructor makes GUIDs of the names that are
  registered, and drops what is none.
- `ConfigFollowed`: `Spec => []SessionFollowsConfig`. The thread enables the valid
  providers one by one: `Counted` says how many, `Follows` that the session holds
  exactly these, if the process started it and is alone.

**`LogMonitor_proofs`**

- `TypeCorrect`: `Spec => []TypeOK`, in which a printed line holds text only. It
  needs that `partialLine` holds no end of line but while it is split
  (`ReaderShape`), and that the reader begins after the child does (`Fresh`).
- `LinesCorrect`: `Spec => []LinesInOrder`, for an output of any length, chunks and
  a pipe of any size. The property says what is printed; the invariant `LInv` adds
  where the reader is (`PartialIs`): `partialLine` is what was read after the place
  `Handled`, at which a line may begin, and there was no write of no bytes before.
  So the piece up to the first end of line is a line of the output, no line ends
  between that place and the next, and whatever the child writes later can end no
  line before it.

  The definitions choose the first end of line, the first symbol after it and the
  first zero byte; `LeastNumber` shows that such least places exist, from the
  well-foundedness of `<`.

**`Selections_proofs`**

`FilterValidProviders`, the channels and providers of `StartMonitors`, the directory
scan and the format of a line put sequences together in a loop. `Joined(f, n)` is the
first `n` parts one behind the other, `Selected(s, I)` the elements of `s` at the
positions in `I`. The lemmas say how they grow (`JoinedNext`, `CountNext`), where an
element goes and comes from (`TakenAt`, `TakenFrom`), that joining what was selected
is joining over the whole sequence, with nothing for what was left out
(`JoinedThrough`), and that the last of a kind is the same before and after the
selection (`LastTaken`). Induction is on a set of numbers that holds 0 and with each
number the next (`UpTo`), from the well-foundedness of `<`.

**`Configuration_proofs`**

- `ConfiguredCorrect`: `Spec => []StartedAsConfigured`: the monitors are exactly those
  asked for. What the document asks for is
  said of the document; the code has two loops with a list of settings between them.
  The invariant `CInv`:
  - `Taken`: the settings are those of the good sources so far;
  - `Collected`: channels and providers are those of the settings so far;
  - `LastKept`: flags and formats are those of the last one of each kind;
  - `Made`: there is no monitor while the document is read; then there is one for each
    file source so far, in their order (`Files`), at the end with that of the channels
    (`WithEvents`) and that of the providers (`WithEtw`), if there are any.

  `ItemsAsked`, `FilesAsked` and `LastOfKind` then make one loop over the document of
  the two. A document that was parsed is refused at a provider that is no object, which
  `Taken` remembers.
- `LineCorrect`: `Spec => []LineFollowsFormat`. `Scanned` is the invariant of the loop
  of `FormatEventLineLog`: up to some place of the format, outside of a pair, the text
  is filled (`Out`), behind it it is untouched, and the window begins at the latter;
  there is no percent sign inside the window. There is a lemma for each of the three
  kinds of turn (`ScanMovesOn`, `ScanSubstitutes`, `ScanWidens`), and `ScanEnds`: the
  loop ends at the end of the format only, whose percent signs then come in pairs.
  A field's own percent signs are in the filled part, where the window never is.
- `TypeCorrect`: `Spec => []TypeOK`, from both invariants; the window stays within the
  text.
- `LoopCorrect`: `Spec => LoopAdvances`, the safety part of `FormattingEnds`,
  from `TurnsCorrect` (`[][LeadsOn]_vars`) and `StuckCorrect`
  (`[]StuckIfUnpaired`). Each turn leaves less text behind the window's
  beginning, or as much and less behind its end (`SubstitutionShortens`,
  `TurnShortens`), a pair of natural numbers that cannot decrease for ever; and
  a turn that changes nothing is possible only where a percent sign of the
  format has no second one (`ScanStuck`). What is left to TLC is that the turns
  are taken.

So every invariant, the action properties and the refinement that the passing runs
check are theorems. Only model-checked are the liveness properties, for fairness and
ENABLED are out of the provers' reach. Each leaf of a proof takes the provers a
fraction of the time they are given.

## What is not modelled

- Truncation of a log file: the code has no handling of it, and an offset beyond
  the end reads nothing.
- The decoding of ETW properties (`FormatMetadata`, `FormatData`,
  `GetPropertyLength`, `GetArraySize`, `GetMapInfo`) and the rendering of event
  values, which follow structures of the system; an event can be decoded or
  cannot. What of it is control is in the models: which failure ends an event.
- The layout of lines in the XML and JSON forms, conversions of times, GUIDs and
  strings, `_GetParentDir`: functions on text without state.
- The log writer's lock outside `EtwMonitor`: in the other modules a write is atomic,
  also that of the child's output, which goes through `LogWriter::WriteLog`
  (`ProcessMonitor.cpp:271, 296`).
- Exceptions thrown in `catch` blocks.
- The legacy JSON parser, which the program does not call, and the JSON library.
- Build files, resources, examples.

## Plan

Done, in this order: the threads and the queue of the log file monitor with the
channel they implement; the tracking of files; the wait for the directory; the
event log monitor; the process; the ETW monitor with the signal handler; the
reading of a file; formats and configuration; the theorems on all of these.

What could follow:

1. `LineReader` as the reading step of `FileTail`: the two agree on the offset, but
   their composition is too large for TLC; it could be said as a refinement and
   proved.
2. A truncated file, if the program comes to handle one.
