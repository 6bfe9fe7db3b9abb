# File Locksmith: models, checks and proofs

File Locksmith shows which processes keep a file or a directory open, and ends
them. The repository is the tool (`src/modules/FileLocksmith`) with the shared
library it was split off with (`src/common`) and the scripts that register a
portable copy (`tools/FileLocksmithPortable`). Paths below are relative to the
repository.

This directory holds TLA+ modules translated from that code, the TLC
configurations that check them on small instances, and TLAPS proofs about
them. `PROJECT.json` lists every run, mutant, theorem, and the source lines
each definition stands for.

## 1. The system

| part | code | state | operations |
|---|---|---|---|
| handle enumeration | `FileLocksmithLibInterop/NtdllExtensions.cpp` | `i`, `process_handle`, `handle_copy`, `pid_to_handle`, `result`, shared by two threads; our own kernel handles | `handles()`, `processes()`, `NtQuerySystemInformationMemoryLoop` |
| search | `FileLocksmithLibInterop/FileLocksmith.cpp` | none between calls; two snapshots of a live system | `find_processes_recursive`, `pid_to_full_path` |
| command line | `FileLocksmithCLI/CLILogic.cpp`, `main.cpp` | options, the clock | `run_command`, `kill_processes` |
| window | `FileLocksmithUI/ViewModels/MainViewModel.cs` | `Processes`, `IsLoading`, the cancellation source, one watcher per row | `LoadProcessesAsync`, `WatchProcess`, `EndTask`, `RestartElevated` |
| hand-over file `last-run.log` | `FileLocksmithLib/IPC.cpp`, `NativeMethods.cpp`, `ExplorerCommand.cpp`, `dllmain.cpp` (context menu) | one file, one stream per writer | `Writer::start/add_path/finish`, `Invoke`, `ReadPathsFromFile`, `StartAsElevated` |
| matching of names | `FileLocksmith.cpp` | two maps from kernel names to the selected paths | `kernel_paths_contain` |
| settings | `FileLocksmithLib/Settings.cpp`, `SettingsViewModel.cs`, `PowerToysModule.cpp` | `settings` cache and `lastLoadedTime` in each DLL, the JSON file, what the page shows | `Get*`, `Set*`, `Save`, `Load`, `Reload`, `set_config`, the page's load and save |
| shell registration | `common/utils/shell_ext_registration.h`, `package.h`, `PowerToysModule.cpp`, `register.ps1`, `unregister.ps1` | registry keys, a sentinel value, the package of Windows 11 | `EnsureRegistered`, `Unregister`, `enable`, the scripts |
| event trace | `common/Telemetry/EtwTrace/EtwTrace.cpp` | `m_tracing`, a session, a flushing thread | `UpdateState`, `Flush`, the destructor |
| pipe | `common/interop/two_way_pipe_message_ipc.cpp`, `async_message_queue.h` | two queues, four kinds of threads, `closed`, `current_connect_pipe_handle` | `start`, `send`, `end` |
| other threads of `common` | `EventWaiter.h`, `OnThreadExecutor.h`, `KeyboardHook.cpp`, `HotkeyManager.cpp`, `theme_listener.cpp` | a worker and a stop flag or event each | start, stop, submit, dispatch |

The window and the command line call the search, which takes both snapshots of
the enumeration. The shell extensions write `last-run.log` and start the
window, which reads it; they trace around each command. All of them read the
settings.

### What is hard about it, and what makes each part correct

* **Handle enumeration.** The queries about a handle may hang for ever. They
  run in a worker thread that is watched with `Sleep(200)`, asked to be
  terminated, which has no effect, and replaced; everything is shared by
  reference. Correct means: each file handle whose queries return once and only
  once, under its own name, none skipped, nothing closed twice, nothing left
  open, one worker at a time, always back.
* **Search.** `handles()` and `processes()` are two snapshots at different
  times, a failure of either is an empty list, and a handle in the first may be
  closed, or name another file, when it is looked at. Correct means: a process
  that keeps one handle or module in that file or below that directory, and can
  be looked into, is reported; an id that has nothing to do with the path is not,
  nor a sibling whose name merely starts alike.
* **Command line.** It finds, acts on process ids found earlier, and finds
  again, or polls against a timeout. Correct means: exit 0 of `--wait` only
  when nothing was found, timeout only after the time, `--kill` only what was
  found.
* **Window.** Loading, watching and ending tasks are interleaved at every
  `await`. Correct means: the rows are those of the last load, every row is
  watched, an exited process leaves the list.
* **`last-run.log`.** The window is started before the paths are written, and
  two invocations may write at the same time. Correct means: the window gets
  the paths of one selection, all of them.
* **Settings.** A cache in front of a file that others write. Correct means: a
  change of another process is seen, and not overwritten.
* **Shell registration.** A series of registry writes with a sentinel last; a
  crash may come between any two. Correct means: the sentinel can be trusted,
  what is half registered is not seen by Explorer, unregistering leaves
  nothing.
* **Pipe.** Stop flags, events and queues between two processes. Correct means:
  `end()` returns, a message is delivered at most once and in order.
* **Event trace.** The caller takes the session away from a thread that may be
  using it. Correct means: the thread uses the session it was made for, none is
  left running, the process is not ended by it, `Stop` returns.

`PROJECT.json` lists the parts that are left out as well, with the reason: most
of `src/common` was left over when the tool was split off and is not reachable
from it.

## 2. Modules

```
HandleEnumeration  <-- implemented by --  HandleScan  <-- HandleScanProofs
                                               |          MCHandleScan
ProcessTable <-- Search <-- CommandLine <-- CommandLineProofs, MCCommandLine
                   ^------- Window      <-- WindowProofs, MCWindow
                   ^------- SearchProofs, on which those two rest
                   ^------- MCSearch --> PathMatch <-- SearchProofs
LastRunFile <-- WindowProofs, MCLastRunFile
Channel     <-- implemented by -- Pipe <-- PipeProofs, MCPipe
Settings    <-- CommonProofs, MCSettings
EtwTrace    <-- CommonProofs
ShellRegistration <-- ShellRegistrationProofs, MCShellRegistration
NatRecursion <-- CommandLineProofs, WindowProofs, PipeProofs
```

Operators that have the suffix of a mistake (`WorkerTestShort`,
`EndTaskAtOnce`, ...) and the comment "Mutant" are faulty variants of the
definition below them. No specification uses them; `PROJECT.json` says which
property refutes which one.

### HandleScan, HandleEnumeration

`HandleScan` is `NtdllExtensions::handles()` with its two threads. Every access
to something the threads share is a step. The lambda of `offload_function` is
`WorkerTest` ... `WorkerNext` in the order of the code, the outer loop is
`QueryTable`, `LoopTest`, `Spawn`, `Wake`, `Compare`, `Remember`, `Kill`,
`CloseLingering`, `SkipHandle`, `CleanUp`. What the system answers about a
handle is one of eight `Kinds`, chosen at the start and unknown to the program:
among them "hangtype" and "hangname", where the query never returns, and
"nameless", a "File" that goes into the vector with an empty name (no disk file,
or its name cannot be had). `openCopies`, `openProcs` and `badClose` follow the
kernel handles of our own process.

`Kill` has no effect. `detach()` (line 252) empties the `std::thread`; in Visual
C++'s library `native_handle()` (line 267) is null from then on, and
`TerminateThread` fails. The old worker stays in its query, and harms nobody as
long as that does not return.

One constant names what the code relies on and does not ensure: `Prompt`, that a
query that returns at all does so within `Sleep(200)`. It makes `Wake` wait for
the index or for a worker that hangs (`SleepOver`). Without it a worker that is
merely slow runs on beside its successor, which is the finding of
`handlescan_slow`; under it the windows between two steps of the two threads (as
between `CloseHandle` and `handle_copy = NULL`) are closed, so what is shown under
`Prompt` is about workers that hang, on any handle.

Since no thread is terminated, none is stopped while it owns the lock of the
process heap. That lock only delays a thread that allocates; it is left out.

`HandleEnumeration` is the promise: walk the table, report each file that can be
named, return. `ImplementsEnumeration` is the refinement, with liveness, under
`i` mapped to the index that was dealt with and `result` as it is.

### ProcessTable, Search

`ProcessTable` is the world the tool looks at: processes start, take a free id,
open the path, close it, exit. A process may use the path in several ways at once
or one after the other: `Ways` are the handle values it may have it open by and,
if it may load it, `Module`; `uses` are those it does at a time. An id may be given
again (`PidReuse`), but not while somebody has the process open.

`Search` is `find_processes_recursive()`: the handle table in one step, one
`ExamineHandle` per entry, the process list in one step, `ReadModules` per
process, the join by process id. The table has the handle values that name the
path and any of those that name another file then; `ExamineHandle` looks at what
the value is when it is examined, in whatever process has the id. So a process
that opens the path by a second handle and closes the first may be missed, and one
that opens it late may be found. `MayFail` lets either table query fail, which
gives an empty list as in the code. A `Denied` process cannot be opened for its
handles. `Hidden` are the uses whose queries do not answer: the handle cannot be
duplicated, its name is empty or it hangs and is skipped; the modules cannot be
enumerated, or the module has no name. `Visible` is what is left, and `Kept` are the
processes that have kept one visible use since the search began. `opened` holds
the processes `handles()` keeps open: they pin their ids until it returns. (On
error paths `process_modules`, lines 60-64, and `pid_to_user` leak a process
handle. That only holds ids back for longer and is left out.)

### CommandLine

`run_command()` on top of `Search`: `Command` parses (`ParseArguments`, a
recursive function over `argv`, with the options in the code's order and its
errors), `WaitCheck` and `WakeUp` are the
waiting loop with its clock, `ListDone`, `Terminate`, `Recheck`, `Report` the
other way. `TerminateProcess` is asynchronous and fails for `Protected`
processes. `free` notes whether the path was free at some time of the last search,
which is what `UnlockedWasFree` asks of the word "unlocked". Outputs are sequences
of named parts. The clock stops at `Cap`, which
is above every timeout used.

### Window

`MainViewModel` on top of `Search`. Everything that runs on the dispatcher
between two awaits is atomic there; `load = "adding"` marks the loop over what
was found, during which nothing else of the dispatcher runs. `watch` has the
`WatchProcess` tasks that wait, each with the process it really has open;
`Resume` is the part behind their await. `Unwatchable` processes throw.

### LastRunFile

The file `last-run.log`, by units (a path is `Size[p]` of them), and the writers
and readers of it: `Construct` and `StartWriter` truncate (the constructor of
`ipc::Writer` and the call of `start()` both do), `Launch` starts the window,
`Flush` and `Close` write, each stream at its own offset; `ReadChunk` reads as
much as is there when the window asks. A window may restart itself elevated,
which writes first and launches then. Streams have a buffer of `Buffer` units
and are in text mode. A selection is a sequence of `Items`, of which only those
in `Paths` have a path of the file system; `SelectedLines` leaves the others out.
`ReadUnits` is the reading loop, one character (`ReadUnit`) after the other.

### PathMatch

The strings behind "uses the path": `Selected` makes the two maps,
`KernelPathsContain` decides and gives the path that is shown. It has no state;
`MCSearch` checks it by two assumptions over all names of up to six units
against a reference of its own, which goes from a name to the directories above
it. A directory matches what lies below it and nothing else; a file is shown
below the path that was given last for its directory.

### Settings

The JSON file with its time, and who uses it without a lock. A DLL has `cache`,
`stamp` (`lastLoadedTime`) and a program counter `pc`: `Call`, `Query` (the
policy first, then the time of the file), `Load`, `Parse`, `Stamp`, `Answer`;
saving is `SaveOpen`, which truncates, and `SaveWrite`, so that others find the
file in between. `SetConfig` saves twice, as `toggle_extended_only` and
`set_config` both do. The page loads (`PageLoad`, `PageShow`), saves (`PageStart`
... `PageWrite`) and runs the registration; while it is busy, a flip of the
switch changes what is shown and nothing else. .NET opens files so that nobody
writes meanwhile (`PageHolds`); `std::ofstream` shares everything. `Restart`
ends a process anywhere, `Edit` is a text editor, the clock may stand still.

### Channel, Pipe

`Pipe` is `TwoWayPipeMessageIPCImpl` at both ends: the output thread (`PopOut`,
`Open`, `Wait`, `Write`), the server thread (`Create`, `Connect`, `Connected`,
`HandOver`), a detached handler for each client (`Read`, `CloseInstance`), the
input thread (`PopIn`, `Dispatch`) and the owner, who sends and calls `end()`
(`End` ... `Ended`, a step up to each interrupt, join and cancel). `inst` is the
instance of the pipe the server has made and not handed over. If none can be
created the server thread ends (`Create`); if the client cannot set its mode, the
message is lost and the client handle stays open (`SetModeFails`, `Stays`). `Channel` is the
promise of one direction: at most once, nothing invented, nothing that lies
about for ever while both ends are at work. `ImplementsChannel` is the
refinement; a message is pending while it is in a queue, in the hand of a thread
or in the pipe. `Messages` takes what the callback got without the blank text
that a client leaves which wrote nothing.

### EtwTrace

`ETWTrace`, which `InvokeCommand` starts and stops around each command. The
caller's steps are those of `Start`, `Flush`, `Stop` and the destructor in their
order; the thread's are those of `FlushWorker` with the predicate, the moment
before the wait, and the wait of 30 seconds apart. Each call of the system may be
refused, which throws: out of the function in the caller, to the end of the
process in the thread and in the destructor.

### ShellRegistration

`EnsureRegistered`, `Unregister`, `enable()` and the two scripts, as lists of
operations on single registry keys that are done one at a time (`todo`). A key is
absent, empty, or has its value; a value written through a handle whose key was
deleted is lost (`held`). `New-Item -Force` replaces what is there. The package
is one more key, whose value is the folder it came from. `enable()` compares
versions (`SameVersion`; `Version` is Major, Minor and Revision, since the
comparison ignores Build) and so keeps a package of the same version from another
folder; otherwise it deploys its own over any other. `register.ps1` adds it only
if there is none; `unregister.ps1` removes it. Both first ask whether Windows has
the menu of packages (`Win11`) and need the file in their folder (`Msix`; without it
`enable()` fails to deploy and goes on). `AddPackage` is the script's attempt with
its retry, for which VCLibs is added first; if both fail the script stops.
Any process may be ended between two operations (`EndProcess`), a script also
ends on an error, and an operation of the module may be refused, which nobody
looks at (`Refuse`). Folders are installations: `EnsureRegistered` moves the
server to its own.

## 3. Runs

States are distinct states.

| run | shows | bounds | states |
|---|---|---|---|
| `handlescan_prompt` | with `Prompt`: `OneRunner`, `NameIsOwn`, `NothingMissed`, `NoDoubleClose`, `NothingLeaked`, `ImplementsEnumeration`, which has the order and the return | 3 handles of 2 processes, each of all 8 kinds | 56,508 |
| `handlescan_slow` | finding: without `Prompt` `OneRunner` fails | 3 handles of the 6 kinds that do not hang | |
| `search` | `SearchComplete`, `SearchSoundById`; and the assumptions about `PathMatch` | 3 processes, 2 ids, 2 handle values and a module; one process that cannot be opened, one handle without a name | 254,266 |
| `command_line` | `KillsOnlyTheirIds`, `KillComplete`, `UnlockedUnlessHeld`, `TimeoutHonest`, `TimeoutEnds`, `UnlockEnds` | 2 processes, one with a handle and one with a module, 15 command lines, clock up to 2 | 663,031 |
| `command_line_other` | finding: `KillsOnlyHolders` fails | `--kill` only | |
| `command_line_swap` | finding: `UnlockedWasFree` fails | `--wait` only, one process with 2 handle values | |
| `window` | `RowsWatched`, `RowLeavesWithProcess`, `EndsWhatIsWatched`, `ExitedRowsGo`, `StaleWatchersEnd` | 3 processes, 2 ids, 2 loads | 393,043 |
| `last_run_file` | `ReadsAPrefix`, `RestartKeepsPaths`, `NothingOld` | 2 uses of the menu, 5 selections | 2,277,086 |
| `last_run_text` | finding: `ClosedListReadsBack` fails | as above | |
| `settings` | `ChangesSeen`, `FileWhole`, `ChoiceKept` | 2 DLLs, one with `set_config`, the page, 2 changes, 2 times | 3,185,597 |
| `pipe` | `ImplementsChannel`, `InOrder`, `EndReturns` | one sender that may crash, 2 messages or empty ones, both ends may end | 210,897 |
| `shell_registration` | `EnsuredIsRegistered`, `UnregisteredIsGone`, `NoDanglingHandler` | 2 processes of 2 folders with packages of 2 versions, on Windows 11; 4 programs, one refusal | 4,168,460 |

The passing runs also check the type invariants of their modules (that of
`Search` as a part of those of `CommandLine` and `Window`). `EtwTrace.cfg`
checks `EtwTrace` with TLC, the end of `Stop` (`StopReturns`) included: 3
sessions, 1,255 states, no error. It is not in the list of runs, since all of its
safety is proved. `CommandLineFailed.cfg` is not in it either: it shows that
`UnlockedWasFree` fails in a second way (section 4).

Why the bounds are enough. Three handles give a worker that hangs on the
first, the middle and the last one, and a second handle of a process that is
already open. More processes than ids make reuse possible, and three processes
let one hold, one leave and one take over the id. Two handle values and a module
are what it takes to go from one use to the next without a gap. Two loads are what it takes
for a stale watcher. Five units of buffer are less than one selection and more
than the others. Two DLLs can save over each other and two changes are a choice
and what interferes with it; a clock of two values has files that are newer and
files that are of the same time. Two messages can overtake each other; the
direction that sends nothing has its threads waiting from the start. Four
programs are one complete registration, one that is cut short or refused, and
two that come after or overlap.

`CHECK_DEADLOCK FALSE` stands where the system stops: a program that returned, a
list that is loaded and whose
processes have gone, all selections written, all programs run, both ends of the
pipe ended or waiting.

Fairness. `HandleScan`: both threads are scheduled (weak fairness of each); a
query that hangs is never enabled, so fairness does not end it. `Search`,
`CommandLine`: the program goes on; nothing is assumed of other processes, which
may hold the path for ever. `Window`: the dispatcher and the search go on, and
a process that was terminated does exit. `Pipe`: the threads are scheduled, a wait for a
pipe runs out; nobody has to send or to end, and an end may crash. `EtwTrace`:
the thread is scheduled and its 30 seconds run out, the caller goes on in a call.
`LastRunFile`, `Settings` and `ShellRegistration` have safety properties only: a
process may stop at any time.

## 4. Findings

* Nothing is killed (`NtdllExtensions.cpp:267`). "The thread looks like it's hanging
  on some handle. Let's kill it and resume." says line 264, but after `detach()`
  (line 252) there is no handle to kill it by. A worker that is only slow for more
  than 200 ms runs on, and two of them write `i`, `handle_copy` and `result`.
* `--kill` can end a process that never used the path, because it terminates by
  an id that was found earlier (`CLILogic.cpp:106`, `main.cpp:21`). What does
  hold is `KillsOnlyTheirIds`: the id was one of those found.
* `--wait` can say "unlocked" of a path that was never free (`CLILogic.cpp:201`): a
  process opens it by a second handle after the table was copied, and closes the
  first before that one is examined (`NtdllExtensions.cpp:157` and 218). What does
  hold is `UnlockedUnlessHeld`: nobody has kept one visible use, if the tables could
  be read. If they could not, "unlocked" is said as well; `CommandLineFailed.cfg`
  has that trace.
* `last-run.log` is UTF-16 in a text mode stream: a path with a byte 1A in it
  (U+4E1A, 业, is one) ends the list (`NativeMethods.cpp:79`).

Observed with TLC and not kept as runs, each from one condition that was taken
away from a property:

* Without `Prompt` everything the run of `handles()` shows fails: TLC refutes
  `NothingMissed` in 9 states, `NoDoubleClose` in 17, `NameIsOwn` in 23 (a file is
  listed with the name of another one), `NothingLeaked` in 25 and `InTableOrder` in
  29. The proofs have it as their hypothesis.
* A path handed from one process to another during a search may be found with
  neither, and a handle whose queries hang or fail is not found at all.
  `SearchComplete` and `UnlockedUnlessHeld` say under which condition the answer
  is right.
* `Unregister` ended after it deleted a handler key, before the sentinel: each
  later `EnsureRegistered` finds the sentinel and the right server and does
  nothing, while the module logs "File Locksmith context menu registered"
  (`PowerToysModule.cpp:71`). This is why `EnsuredIsRegistered` excludes
  programs that were cut short other than a first `EnsureRegistered`. Without that
  exclusion TLC refutes it in 17 states, without the one of refusals in 14.
* `--wait` ignores `--kill`; `--kill --json` puts text before the JSON.
* A create that is refused (`shell_ext_registration.h:121`) is followed by the
  sentinel all the same, and later calls do nothing; a refused server leaves
  handlers that name a class without one. `disable()` leaves the package, and
  `register.ps1` from a new folder leaves the package of the old one.
  `enable()` from a new folder leaves it, too, if the version is the same but for
  Build, and the menu then runs the DLL of the old folder.
* A change of the settings that falls between the read and the stamp
  (`Settings.cpp:159`), or has the time of the stamp (line 131), is not seen until
  the next one; without `blind`, TLC refutes `ChangesSeen` in 7 states. With a policy
  set, `GetEnabled` does not look at the file, and a setting read after it without a
  `Reload` may be an old one (`Settings.cpp:88-94`); `ChangesSeen` exempts that. Two saves at the same time, or one that is cut short, leave a
  file that is not JSON; a DLL keeps its cache then, and a new one its defaults.
  What the page stores is lost (`ChoiceKept` without `contested`: 3 states) when a DLL saves between its read and its write,
  and a flip while it is busy is shown and not stored (`SettingsPage.xaml.cs:40`).
* A message is lost though nobody stopped: between two instances there is none
  (`two_way_pipe_message_ipc.cpp:108`), and a client that came and went before
  `ConnectNamedPipe` counts as a failure. A client that goes without a word makes
  the callback get 512 zeros. Two handlers may swap their messages (`InOrder` without `overlap`: 27 states). `end()` may
  wait for ever when it comes before `ConnectNamedPipe`, and it returns while
  handlers still use the object (line 439).
* The flushing thread may come to `ControlTrace` after `Stop` has reset the
  session (`EtwTrace.cpp:276-280` against 306 and 149): that throws in the thread
  and ends the process, which is Explorer. A missed notification (line 281) makes
  a command wait for up to 30 seconds.

## 5. Proofs

Everything below holds for every value of the constants that the named ASSUMEs
allow: any number of handles, processes, ids, DLLs, hosts, folders, sessions.
TLC evaluates those ASSUMEs in the runs, and has checked each inductive invariant
on the instance of the run before it was proved.

| module | obligations | theorems about properties the runs check | hypothesis |
|---|---|---|---|
| `HandleScanProofs` | 1515 | `TypeCorrect` | none |
| | | `OneRunnerAlways`, `NameIsOwnAlways`, `NothingMissedAlways`, `NoDoubleCloseAlways`, `NothingLeakedAlways`, `EnumerationImplemented` | `Prompt` |
| `SearchProofs` | 360 | `SearchTypesCorrect`, `SearchCompleteAlways`, `SearchSoundAlways` | none |
| | | `SiblingsDoNotMatch`, `OneFileOnePath` of `PathMatch` | `Nested` for the second |
| `CommandLineProofs` | 515 | `CommandTypesCorrect`, `KillsOnlyTheirIdsAlways`, `KillCompleteAlways`, `UnlockedUnlessHeldAlways`, `TimeoutHonestAlways` | none |
| | | `KillsOnlyHoldersWithoutReuse` | `~PidReuse` |
| `WindowProofs` | 3051 | `WindowTypesCorrect`, `RowsWatchedAlways`, `RowsLeaveWithTheirProcess`, `EndTaskEndsTheWatched` | none |
| | | `FileTypesCorrect`, `NothingOldAlways`, `RestartKeepsPathsAlways`, `ReadsAPrefixAlways` of `LastRunFile` | none |
| `CommonProofs` | 918 | `SettingsTypesCorrect`, `ChangesSeenAlways`, `FileWholeAlways`, `ChoiceKeptAlways` | none |
| | | `OneThreadAlways`, `FlushHasSessionAlways`, `NoSessionLeftAlways`, `EndsInStopAlways` of `EtwTrace` | none |
| `ShellRegistrationProofs` | 2721 | `RegistrationTypesCorrect`, `EnsuredIsRegisteredAlways`, `UnregisteredIsGoneAlways`, `NoDanglingHandlerAlways` | none |
| `PipeProofs` | 2860 | `PipeTypesCorrect`, `InOrderAlways`, `ImplementsChannelSafety` | none |
| `NatRecursion` | 22 | lemmas only | none |

Every invariant and every action property of the runs that pass is the
statement of one of these, and both refinements are proved but for their
liveness. What the ASSUMEs say beyond the types of the constants:

* `WaysAssumption`: `Module` is no handle value.
* `FileAssumption`: a path has at least one unit (`add_path` gets no empty name),
  a buffer too.
* `PipeAssumption`: there are two ends, one of them sends, and the markers for
  "nothing", "no client" and the blank text are no messages.
* `CommandAssumption`: an argument is a string, and `Cap` is above the numbers.
* `RegistrationAssumption`: no folder has the name of a state of a key. Nothing is
  assumed of `Version`, `Msix` and `Win11`.

The hypothesis of `HandleScan` is what the code relies on and does not ensure
(section 2); without it TLC refutes the properties (section 4).

### The enumeration

`TypeInv` adds to the types that `nw`, the number of workers
started, is at most `i` while one is about to be started; that is why a worker
has a number in `1..N`. `SafeInv` strengthens it by four parts: `RunnerInv` (only
the newest worker can take a step), `IndexInv` (the worker's `handle_info` is
the entry of the shared `i` as long as it works on it; this fails as soon as two
run), `OrderInv` (what is in `result` was read from entries before `i`, or at `i`
by a worker that is already past `push_back`), and `CopyInv` (the shared
`handle_copy` is the worker's own between its publication and its end). None of
them is inductive alone: the order rests on the index, the index on there being
one worker. `RunnerInv` rests on `Prompt` alone: whoever is given up hangs, and
that it is not terminated makes no difference. `CompleteInv` adds that the last
worker is in its loop, on entry `i`, or behind the table, as long as the supervisor
watches it (`WatchedInv`), and that every file whose queries return, before `i`, has been
reported, an entry that is about to be skipped not being one (`MissedInv`).

`ClosedInv` adds who has what open. `DuplicateInv`: there is at most one
duplicate, that of the worker which is watched or, from when it is given up to
`CloseLingering`, the one `handle_copy` names; so the supervisor closes what the
worker could not, and nothing twice. `ProcessInv`: a process is open once, as
long as it is in `pid_to_handle` or on its way there. Both need `EndInv`, that
nobody is behind the table before the supervisor cleans up.

`EnumerationImplemented` is the refinement without its fairness: the only step
of a worker the enumeration sees is `push_back`, which is its `Report` because
the entries between the one dealt with and `i` are no such files or have been
reported, and the end of the supervisor is its `Return`.

### The search and those who use it

`SearchInv` is about what the search will have found when it is over, in terms of
where it is. `SoundInv`: an id in `pid_files` is that of a process which has used
the path since the search began. `CoveredInv` follows each visible use that has
lasted since then: a handle is in the table until it is examined, and its id in
`pid_files` from then on; the process of a module is in the list until its modules
are read. Of a process that goes from use to use it says nothing, and cannot. That
an id still leads to its process when the two snapshots are joined rests on
`PidsDiffer` (no id names two processes that are alive) and on `ListedInv`, and
these on `opened`, which keeps the ids.

`CommandInv` extends it over more than one search. `BeforeInv` (nothing is to be
terminated before a search is over) and `VictimsInv` carry what `users` was
when the first search ended to the moment `TerminateProcess` is called; `DealtInv`
says of each process that kept one visible use throughout that it was terminated, has
gone, or is still among the victims. `KillsOnlyHoldersWithoutReuse` says what
is behind the second finding: where no id is given twice, `KillsOnlyHolders`
holds. `CommandTypesCorrect` rests on the parser: the function of its loop is
shown to exist, and its values to be options, argument by argument.

`WindowInv` adds `LoadInv` (a search runs only while it is awaited) and `PinInv`:
the process a watcher waits for has the id of the row, nobody else has it, and
if it is not the process that was found, that one has gone. From this follow
the two action properties, that a row leaves only with its process and that End
task ends what is watched.

### The list that is handed over

A text is described by where its lines end. `Shape` says of a list, its text and
these positions that they fit, and every list has such positions
(`OutputShape`). A reader is then described by a position in the text
(`Reading`): it has taken so many whole lines and a part of the next one, or it
has finished. That the reading loop keeps this, chunk by chunk, is shown by
induction over the units of the chunk.

`FileInv` is what is said of one use at a time: `OwnOK` (a window reads only what
was launched, nothing is left to write after the close), `HandedOK` (a restart
means what its window has read, and that window has finished) and `AloneOK`: as
long as nobody else has changed the file since a writer opened it, what is on the
disk and what the writer has left are together the text of its list, and its
window is reading that text. `NothingOld` and `RestartKeepsPaths` follow.

`ReadsAPrefix` is about writers that disturb each other. If none has, it follows
from `AloneOK`. Otherwise it requires that every list fits into one buffer, and
rests on `ShortInv`: then each writer writes once and from the start of the file,
so the file is empty or begins with the whole text of one of them (what is behind it may
be the tail of a longer one, and is not read, since the text ends in an empty
line), and a window reads it in one go.

### Pipe

`PipeInv` follows a message through its direction. `Numbered`: what lies in the
output queue is later than what the thread has in its hand, and that is later than
anything that has come to the other end, in the pipe, with a handler or in the
queue behind it. `NeverTwice`: a message is with a handler, in the input queue,
with the input thread or given to the callback, in one of these and there once.
`Ordered`: while no two handlers have had something to queue at one time, it is
also in order there. `InOrder` is the part of it about the callback.

`ImplementsChannelSafety` is `ImplementsChannel` without its liveness. Every action
of either end either leaves the direction alone, sends one message, gives one to the
callback, or loses some of those under way (`AsChannel`); each is a step of
`Channel` or a stutter. Two lemmas connect the two sides: a text that is given
to the callback is appended to `Messages` iff it is a message
(`MessagesAppend`), and `Pending` is where `PipeInv` says messages are.

### Recursive functions

The loops of the parser, of the reader, of the selection and of `Messages`, and
`FlattenSeq` of the library, which makes the text of a list, are functions defined by recursion over a position. TLAPS knows nothing of the value
of `f[n \in S] == ...` until a function is shown to exist that has it.
`NatRecursion` derives induction over the natural numbers from the well-foundedness
the library proves, in a form that names a set; each loop then has a lemma that
its function exists (`ReadsExist` and the like), by induction over its length.

### Settings

`FreshInv`: the cache of a DLL that nobody has blinded agrees with the file, or
the file is newer than the time it noted; a blinded one is one for which the
file changed where it cannot see it. `HoldInv` and `AloneInv` are about the
lock .NET takes and about who writes alone; with them `FileWhole` is inductive.
`ChoiceInv`: a choice that nothing contests is on its way with the one who
stores it (`OnItsWay`, step by step of the save) or is in the file (`Arrived`).

### Shell registration

Every program is a list of operations, so the proof is about lists: `Plan` says
in which order what is left has to be (`EnsureShape`, `RemoveShape`,
`ScriptShape`). Each of the five programs begins with such a list (`FirstTimePlan`
... `RegisterScriptPlan`), and what is left of a plan is a plan (`PlanLeft`).
`Kinds` reads the operations off the head of the list. `RegistrationInv` then has:

* `HeldInv`, `AloneInv`: a key is open from its creation to the next operation;
  one that runs alone is the only one that runs.
* `DoneInv`: whoever runs alone has done what it is no longer going to do. At the
  end of the list nothing is left to be done, which is `EnsuredIsRegistered` and
  `UnregisteredIsGone`.
* `WholeInv`: if all run to their ends and nothing was refused, a handler is set,
  or there is no server, or somebody is going to see to one of these, however
  they overlap. It is what `EnsureRegistered` relies on when it finds the
  sentinel and the right server and does nothing.
* `SentinelInv`: the same of the sentinel when a first `EnsureRegistered` is cut
  short, which is why the sentinel is written last.

### Event trace, matching of names

The invariant of `EtwTrace` says who may touch the
session when: `ThreadInv` (a thread runs only while `m_tracing` is set, or `Stop`
is about to join it), `SessionInv` (there is a session while `m_tracing` is set,
but for the steps that take it away) and `LeftInv` (the system runs no other
one). `ThrowStep` covers all calls that are refused.

For names of any length it is proved that of two
selected directories that lie in each other either gives a file the same path
(`OneFileOnePath`), which is why the code may take the first that matches, and
that a sibling whose name begins alike does not match (`SiblingsDoNotMatch`).
`OneFileOnePath` assumes that the selected paths are nested as their kernel names
are (`Nested`); a directory under two drives is one name and one path.

### Only model-checked

All liveness, which is out of the prover's reach: `TimeoutEnds`, `UnlockEnds`,
`ExitedRowsGo`, `StaleWatchersEnd`, `EndReturns`, `StopReturns`, and the fairness
of the two refinements: that `handles()` returns (`ImplementsEnumeration`) and
that no message lies about for ever (`ImplementsChannel`). The reference that
`MCSearch` compares `PathMatch` with is evaluated for names of up to six units;
what is proved of it for all names are the two theorems above.

## 6. Plan

All of it is done, in this order.

1. `HandleScan` with `HandleEnumeration` and its first proofs.
2. `ProcessTable` and `Search`.
3. `CommandLine`, which composes the search with the clock.
4. `Window`, which composes the search with the dispatcher.
5. `LastRunFile`.
6. `ShellRegistration`, then with the package and what the system refuses.
7. `Settings`.
8. `Pipe`, with `Channel` as what it promises.
9. `PathMatch` with its proofs, as what `Search` abstracts from.
10. `EtwTrace` with its proofs.
11. Proofs of the safety of `HandleScan`, `Search`, `CommandLine`, `Window`,
    `Settings` and `ShellRegistration`, and of the refinement of
    `HandleEnumeration`.
12. Proofs of the safety of `LastRunFile` and `Pipe`, of the refinement of
    `Channel`, and of the types of the command line without a hypothesis.

What would come next is in the code rather than here: the parts of `src/common`
that nothing uses yet (section 7), once something does.

## 7. Not modelled

Formatting, logging and text of messages; the letters of names beyond the
separator; write errors of `last-run.log`, which the code does not look at; the
security descriptor of the pipe; the reference counts and the icons of the COM
objects, each one interlocked operation or a query, and the data object that
`Initialize` keeps without a reference (`ExplorerCommand.h`); a second caller of
one `ETWTrace`; the return of `handles()` while a worker that is not over still has
its frame (`NtdllExtensions.cpp:256`), which is undefined; the lock of the process
heap; the process handles that `process_modules` and `pid_to_user` leak when a call
fails (`NtdllExtensions.cpp:60-64`).

`EventWaiter`, `OnThreadExecutor`, `ProcessWaiter`, the keyboard hook, the hot
keys and the listeners of `common`: File Locksmith does not use them. The same is
true of most of `src/common`, which was left over when the tool was split off:
the calculator (46,000 of the 64,000 lines of code are the vendored
`exprtk.hpp`), the previews, the language models, the policies, the user
interface tests. They are in `PROJECT.json` with their reasons. This is why the
lines the map covers are a small share of all lines, although every part of File
Locksmith itself that keeps state is modelled.
