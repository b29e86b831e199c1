# pyghidra-lite: specifications, model checks and proofs

TLA+ modules for the parts of pyghidra-lite (`src/src/pyghidra_lite/`) whose
correctness depends on the order of things: background analyses, programs in memory,
writes to a binary under an audit journal, the files and locks that servers share,
the proxies in front of them, and the algorithms that compute the answers. TLC checks
the modules on small instances; TLAPS proves the main safety results for every value
of the constants. `PROJECT.json` maps every definition to its source lines and
lists the runs, the mutants that show each property can fail, the hazards and the
theorems.

## The system

pyghidra-lite is an MCP server around Ghidra. One process holds one JVM and one
asyncio event loop. It uses four kinds of concurrency.

* **The event loop** runs coroutines: the bodies of tools, the tasks of background
  analyses and scans, the eviction and stale-job monitors, `call_later` callbacks.
  Between two awaits a coroutine is not interrupted by another one.
* **Tool threads** (`asyncio.to_thread`) run the blocking part of a tool under
  `_backend_lock`, a reentrant lock for the JVM. A tool that exceeds its budget is
  abandoned: its thread goes on.
* **`_import_executor`** has two threads, for analyses, hot-loads and scans. An
  analysis takes `_backend_lock` for its import and not for `analyzeAll`; a scan
  holds it throughout.
* **Other processes**: servers and headless Ghidra scripts on the same project
  directory, and stdio proxies in front of one server.

| Component | State | Operations | Hard behaviour | What makes it correct |
|---|---|---|---|---|
| Background jobs (`server.py`) | `_active_jobs`, semaphore, executor, `.analysis_status` | `load`, `delete`, `search(bg=True)`, `_run_import_inprocess`, `_run_scan_task`, recovery | delete on a thread against tasks on the loop; directory removed under a task; refused writes; crash | each kind of work keeps its cap; a second analysis of an id only beside one deprived of its record; nothing "analyzing" without somebody to end it; finished records expire; queued work runs |
| Status files (`server.py`) | one `.analysis_status` per project | write, recover, watch, look up | other servers write and die; events while a hot-load is pending | a dead analysis is marked; no completion is overwritten by the monitor; completions are loaded; a lookup does not depend on directory order |
| Backend (`backend.py`) | `programs`, `_projects`, handles | import, analyze, evict, purge, delete, save, transfer | program closed under its analysis; crash between save and analysis | "analyzed" only after an analysis; names go to the one function with the same bytes |
| Residency (`server.py`) | `_last_access`, `_evicted_ids` | lookup and reload, hot-load, eviction, autopurge | reads before the lock, action after it | no program closed under a call; `min_loaded` kept; an evicted program with a completed analysis is reloadable |
| annotate (`server.py`, `tools.py`) | program in memory and on disk, name index, calls in flight | preview, confirm, record, commit | commit lands after a timeout; save fails; target moves; eviction, restart | no unrecorded change; undo value recorded; applied means saved |
| Audit journal (`server.py`) | `annotate_audit.jsonl` and backups | append, rotate | death between renames; two servers | no hole, in order, bounded |
| Bounded calls (`server.py`, `proxy.py`) | tool threads, `_backend_lock`, messages in flight | `_run_bounded`, `_locked_tools`, `post_writer` | calls that never return; the loop itself waits for the lock; bursts | every message posted once, notes in order; every bounded call answered; service resumes |
| Project locks (`project_locks.py`) | `.lock`, `.lock~` | probe, clear, sweep | probe then unlink; descriptors of one process | one writer; its directory stays |
| Proxy (`proxy.py`) | pid and lock files, port | autostart, stop | start-lock timeout; busy backend; stale pid | one server starts; a failed start leaves nothing; stop means dead |
| Queries (`tools.py`) | none beyond name index and lists | call graph, memory scans, byte patterns, p-code slices | order of callees, chunk ends, loops, limits | the answer is the reference definition's |
| Configuration (`server.py`) | frozen `ServerConfig` | configure, `go_live` | none | no change after `go_live` |
| Readers (`formats.py`, `lang.py`, `hermes.py`, `analyzer.py`, `models.py`) | none | parse, detect, format | none | not modelled: stateless functions of one file |
| CLI, HTTP, doctor | none beyond the pid file | serve, import, list, stop | none | not modelled: sequential glue |

Components interact through `_active_jobs` (load, delete, the monitors, the tasks),
`backend.programs` (everything that holds `_backend_lock`), the status files (the
tasks write; load, recovery and the watcher read) and the project directory (other
servers).

## Modules

| Module | Role |
|---|---|
| `AnalysisJobs` | one server's background work, with crashes |
| `MCAnalysisJobs` | its TLC symmetry and view |
| `AnalysisJobsProofs` | its theorems |
| `Annotate` | the write tool, against program, project and journal |
| `MCAnnotate` | its TLC instance |
| `AuditLog` | what the journal promises its readers |
| `AuditJournal` | rotation and appends on files, implementing `AuditLog` |
| `AnnotateProofs` | the theorems of both, the refinement among them |
| `Residency` | programs in memory: lookups, reloads, imports, deletions, the eviction monitor |
| `MCResidency` | its TLC view |
| `SharedStatus` | one status file between servers: recovery, the stale-job monitor, the watcher |
| `ProjectLocks`, `MCProjectLocks` | one project's lock files between servers, and its TLC instance |
| `Autostart` | proxies, the servers they spawn, port, pid file and `stop` |
| `Calls` | messages through the proxy into tool threads, loop and lock |
| `ResidencyProofs`, `SharedStatusProofs`, `ProjectLocksProofs`, `AutostartProofs`, `CallsProofs` | their theorems |
| `CallGraph`, `MemoryScan`, `Pcode`, `Transfer`, `DiskLookup` | algorithms and their reference definitions |
| `Queries`, `MCQueries` | a query and its answer; every small input for TLC |
| `QueriesProofs` | its theorems: the algorithms compute their references for every input |

The modules share the code, not variables: each has the state that its hazards need and
replaces the rest by what may happen at any time. `AnalysisJobs` and `Residency` meet in
the import of a large binary (`work`, `records` and `pops` in `Residency`
are the tasks of one id of `AnalysisJobs` reduced to a phase, a record and a count of timers), `Residency` and `SharedStatus` in the hot-load, `ProjectLocks` in
what opens, evicts and deletes a project. `Transfer` uses the byte search of
`MemoryScan`, and `Queries` composes all algorithms.

### AnalysisJobs

A *task* stands for one admitted job: its job dict (`job`), its coroutine (`coro`)
and its executor future (`fut`). `active_jobs` is the table from id to the task
whose dict it holds, so that a dict can outlive its place in the table, as it does
in the code. `timers` are the tasks whose `call_later(300, pop, id)` is armed;
they fire at any later time. `project` says how far a directory has come (`empty`:
made but without a program; `imported`: program saved, not analyzed; `analyzed`), and
`programs` whether a handle is open and flagged analyzed. `status_file` tells three kinds
of "analyzing" apart, which the file does not: one of this process, one that belongs to a
process which recovery found alive (`foreign`, with a record that stands for it), and one
that recovery passed over because the program was open already (`left`).

An action of the loop goes from one await to the next and is enabled only when the
loop is not inside `load()` (`loop`). `load()` is two actions, because `delete()` on
its thread can come between its locked parts. `delete()` is two actions,
because status writes of the loop can come between `_kill_job` and `rmtree`.

| Action | Code |
|---|---|
| `LoadPurge`, `LoadLookup`, `LoadEnqueue`, `LoadFromDisk` | `load()` with `fresh`, without, its locked section, its hot-load |
| `TaskStart`, `TaskStartFails`, `TaskPoll`, `TaskFinish` | `_run_import_inprocess` |
| `TaskRefused` | a refused write becomes an error of the job, which `listener.error` records while the import goes on |
| `TaskDies` | `listener.error` raises too: the directory has gone, or its write is refused |
| `TimerFires` | the deferred pop |
| `ThreadImport`, `ThreadAnalyze` | `_do_import_blocking` on the executor |
| `ScanSpawn`, `ScanStart`, `ThreadScan`, `ScanFinish` | `search(bg=True)`, `type="extract"`, `_run_scan_task` |
| `DeleteBegin`, `DeleteEnd` | `delete()` |
| `Evict` | one eviction by `_eviction_monitor` |
| `StaleRecord` | `_stale_job_monitor` finds the process of a recovered record dead |
| `OtherFinishes` | another server ends the analysis it had under way |
| `CrashRestart` | the process dies; the next one opens programs (`--eager-load`, command line), then runs `_recover_in_progress_jobs` |

What Ghidra does with a program that is closed under its analysis is external
(`Closed`): the analysis raises, or reading its function count raises or not.

A restart has two parts. `RestartTables` gives the new process empty tables, but for the
records that recovery makes of a live pid, another server's or a reused number; they are
inserted without a count. `RestartFiles` says what it finds: a program that was opened
before recovery keeps its file as it is, a recorded one keeps its "analyzing", every other
"analyzing" becomes an error.

Properties: `JobCaps` (each kind of work keeps within the cap; records of other processes
may exceed it, and then nothing is admitted beside them), `AnalyzingHasWriter`,
`TerminalRecordExpires`, `OneAnalysis` (two analyses of one id are under way at once only
when `_kill_job` or an earlier job's pop took the record of one of them: `cancelled`,
`lost`), and under fairness `QueuedTasksRun` and `AnalyzingEnds`. Four of them
(`AnalyzingHasWriter`, `TerminalRecordExpires`, `OneAnalysis`, `AnalyzingEnds`) carry "no
write was refused" as a condition (`faults = 0`): a disk that refuses the status or result
file really does leave a job without a verdict, without a timer or with an import nobody
waits for. `MaxFaults = 1` in `jobs_liveness` keeps those branches reachable there, and
`QueuedTasksRun` holds through them; `jobs_safety` has no refused write, but other servers
and a restart.

Fairness: `asyncio` serves its ready queue and the semaphore its waiters first in,
first out, and the executor its queue, so a step that is enabled again and again is
taken (strong fairness of `Resume`, `ThreadStep` and `TimerFires`; weak fairness of
the two actions that end a `load()` or `delete()` in progress). Ghidra's analysis is
assumed to end. Nothing is assumed of callers: no `load()` or `delete()` ever has to
come.

### Annotate

One binary, several calls. A call goes `idle`, `previewed`, `committing`,
`committed`, `applied`; a timeout or a cancelled request makes it `abandoned`, and
its thread may still commit (`late`). `mem` is the program in the JVM, `saved` the one
in the project; they differ after a transaction whose save raised. `index` is the name
index that `_tools_for` keeps with the handle: it survives every call but a successful
commit and an eviction, so `Found` may answer from old names. `Found` has the code's
order: address, indexed name (the last function that took the name), then substring.
Comparison without case and case-sensitive comparison are one here: a value stands
for a name up to case.

Properties: `WriteAhead` (no change without a record that names its place and
value), `OriginalRecorded` (some record has the original value, so the journal can undo
any chain of changes), `AppliedSurvives` (what was reported applied is in the project,
unless a recorded call wrote over it).

### AuditLog and AuditJournal

`AuditLog` is what a reader of the journal relies on: records in the order of
writing, oldest ones dropped, never the newest. `AuditJournal` has the files, each a
set of record numbers, and one action per `os.replace`; a rename may be refused and a
server may die between two of them, after which the next append starts another
rotation. `LogSpec` is the refinement, with `log <- Retained`, the union of the
files. With one server it holds; with two it does not (see "Where code and comments part"). In `Annotate` the
journal is the set of all records: that the oldest are dropped at the size limit is
`AuditJournal`'s subject.

### Residency

Which programs one server has in memory. A tool call (`call`) runs on its thread: all
tools but `search` hold `_backend_lock` from the lookup to the end (`_with_handle`,
`_locked_tools`), `search` looks its handle up without it. `monitor` is the pass of the
eviction monitor, with its locals: the ids it read, the access times it sorted by, the
candidate it has chosen. The pass never awaits, so it keeps every other step of the
loop out, but not the threads. `work` is the import of a binary. A binary of 10 MB and
more that is to be analyzed gets a background job with a record (`records`), a status and, at
its end, a deferred pop (`pops`); every other import is part of the call of `load()` itself
(`inline`) and leaves neither record nor status. `lost` has the jobs whose record an
earlier job's pop removed, `unlisted` the programs that came or stayed without a completed
status. A server may start with programs in memory (`Preloaded`), beside any status.

| Action | Code |
|---|---|
| `Call`, `TakeLock`, `Lookup`, `Reload`, `LookupAgain`, `Finish` | `_get_handle`, `_with_handle`, `search` |
| `LoadJob`, `BeginJob`, `Import`, `Analyze`, `EndJob` | `load()` of a large binary, `_run_import_inprocess`, `_do_import_blocking`, the listener's writes |
| `LoadInline`, `Import`, `Analyze` | `load()` of a small binary, or with `analyze=False` |
| `PopRecord` | the deferred pop, which goes by id |
| `HotLoad`, `ForeignComplete` | `_hot_load_blocking`; an analysis that another server completes |
| `Delete` | `delete()` |
| `Snapshot`, `Score`, `NextCandidate`, `Evict`, `Sleep` | `_eviction_monitor`, one access to shared state each |

Properties: `CallsKeepTheirProgram` (a call under the lock never works on a closed
program), `EvictionKeepsMin`, `RecentlyResolvedStays`, `AnalysisKeepsProgram` (a job's program is
closed during its analysis only when the record is lost) and `ListedEvictedReloads` (an
evicted program has a completed status beside it, unless it is `unlisted`). `resolved`,
`touched`, `removed`, `lost` and `unlisted` are history: the exceptions these properties make
(a deletion during the pass, a call after the sort, an earlier job's pop, an import
without a status, a failed job) are the windows that the code leaves open, and no more.
TLC's view (`MCResidency`) leaves out what neither a step nor a property reads.

### SharedStatus

One `.analysis_status` between processes. A worker is another server, or the import
command, that analyzes the binary; the status names its pid. `server`, `seen` and `record`
are this server's recovery and its stale-job monitor, each split into what it reads and
what it writes: recovery reads the file, then the pid, then writes; the monitor looks at
the pid, then reads the file, then writes (`Phases`). `event`, `adding`, `pending` and `hot`
are the watcher: an event that the observer has to handle, an id between the check under
the lock and the pending set, the set, and hot-loads by stage (given to the loop, a task,
loaded, done). `tried` is history: a hot-load has come to the status since its last event.

| Action | Code |
|---|---|
| `Queue`, `QueueFresh`, `WriteAnalyzing`, `EndAnalysis`, `EndSilently`, `Die` | a load on another server, with `fresh` or without, or the import command, and its listener |
| `DeleteElsewhere` | `delete()` on another server |
| `EagerLoad`, `Recover`, `CheckPid` | what is opened before recovery; `_recover_in_progress_jobs` |
| `FindDead`, `ReadStatus` | `_stale_job_monitor` |
| `Mark` | the error that either of them writes |
| `Delete` | `delete()` with `_kill_job`, at any moment of the monitor |
| `SeenAgain`, `CheckEvent`, `AddPending` | `ProjectWatcher` on the observer's thread |
| `Schedule`, `HotLoad`, `EndTask`, `DoneCallback` | `_schedule_hot_load`, `_async_hot_load`, its `finally` and its done callback |
| `LoadElsewhere`, `UnloadElsewhere`, `CloseLoop` | reloads, evictions, the shutdown |

Properties: `CompletionKept` (the monitor's error never replaces the completion of the
worker it is about; of recovery, and of the status of a worker that has taken over, this
does not hold, see below), and under fairness `DeadAnalysisMarked`, `PendingDrains` and
`CompletionIsLoaded`. Fairness: every thread of the server goes on. Handling an event has
strong fairness, because the observer waits while it is between the check and the set.
Workers, clients and the shutdown owe nothing. `CompletionIsLoaded` promises an attempt
that finds the completed analysis: when the project is missing or does not open, nothing
is loaded, when only the program does not open its project stays open, and in neither case does the
code try again by itself.

### ProjectLocks

One Ghidra project and its two lock files, one file access to a step. `hold_file` is the
inode of `.lock~` and `held` the inode that a process has locked, because an fcntl lock
belongs to a process and an inode: it does not conflict within its process, survives
neither the process nor the close of any other descriptor of the file, and says nothing
of a file made anew under the name. `at` is `<<operation, step>>`; the operations are
those of `backend.py` and `server.py` that open, close or delete a project. What Ghidra
does to the files is external. A purge of a project that is open closes it first, one that is not open
is only probed. One project is enough: projects share no lock.

`SingleWriter` has two exceptions, kept in `excused`: a removal that hits a lock taken
after the remover's last probe (no probe excludes it), and a process that probes its own
project. The property is that two writers, or a directory removed under its owner, come
from nothing else.

### Autostart

Proxies that find no backend, the servers they spawn (each has the name of its proxy),
and `pyghidra-lite stop`. They meet in the flock on `backend-<port>.lock`, the port, the
pid file and signals. A health check may fail although a server listens (its loop is
busy) and never succeeds without one; deadlines may pass at any moment.

| Action | Code |
|---|---|
| `Start` to `GiveUp` | `run_proxy`, `_autostart_backend`, step by step |
| `ProxyDies` | the client ends the proxy while it starts the backend |
| `Boot`, `Bind`, `Retire`, `Drained`, `Leave`, `ServerDies` | `serve_cmd` and uvicorn's exits (external) |
| `StopRead` to `StopRemove` | `stop_backend` |

Properties: `OneStart`, `FailedStartLeavesNothing`, `StopHolds`; under fairness
`ProxiesSettle` and `ServersSettle`. `OneStart` has the condition `~lapsed`: no waiter's
deadline passed and no proxy left a booting server behind. Fairness: processes are
scheduled and deadlines pass. A draining server's connections need not end, a bound
server need not retire, and nobody has to call `stop`.

### Calls

A client's messages through `stdio_to_http` and the patched `post_writer`, into the
server's event loop, its worker threads and `_backend_lock`. Three kinds of request:
`tool` (under a budget, `_run_bounded`), `search` (plain `asyncio.to_thread`, no budget, two
trips to a thread) and `load` (takes the lock on the loop itself); `note` stands for what
is no request. `loop` is what the loop stands still for: a `load()`, or the eviction
monitor, which waits for the lock on the loop too (`MonitorWakes`, `MonitorReads`).

Fairness: the proxy, the threads and the loop, whenever it runs, go on. Each of their
steps happens at most twice for a message, so fairness of their disjunctions starves no
message. `Return`, the end of what a call does in Ghidra, has no fairness: it is the
condition of `ServiceResumes` and no part of `BoundedAnswered`, which instead has the
condition that the loop keeps running. `PostedOnce` and `NotesInOrder` are the proxy's.

### Queries and the algorithms

The algorithms are functions of an abstract program, memory or disk, with a reference
definition in the same module. A loop of the code is a function from the number of its
turns to the state after them, and the turn is an operator of its own:

* `CallGraph`: `Step` is one turn of `traverse_callees` or `traverse_callers`, with the
  recursion as a stack of frames; `Turns` bounds the turns there can be, and `Traverse` is
  the state after the last. `Graph` goes callees first, then callers, under one budget.
* `MemoryScan`: `Data` reads a block by chunk, `ScanTurn` is a turn of the scanner (past a
  byte or a printable run), `BatchSearch` the pass over the blocks for many queries,
  `SearchDeep` the same for one, `ExtractStrings` for a region; `FindTurn` is a turn of
  the loop around `findBytes`, and `FindBytes` goes over the blocks.
* `Pcode`: `Look` is a turn of the inner loop of `_forward_slice`, `PassAgain` of the
  outer one; `PrintOp` and `PrintBlock` are the printing loops with their limit.
* `Transfer`: `Verdict` is the loop over the source functions, `Rename` the one over the
  collected renames. `DiskLookup` is `_find_on_disk`.

`Queries` has a query, its answer, one action for each kind, and a property for each
that compares answer and reference. Two of the properties say less than "the answer is
the reference": a call graph holds all functions up to two calls away and nothing more
than one level beyond the depth (see below); a lookup by name may choose among projects
opened at the same moment.

What a query may be is named in the `ASSUME`s of `Queries`: finitely many functions, whose
callees are functions of the program; depth, budget, limits and chunk size of at least
one; one status file for an analysis; lines of p-code that tell ops apart. The last is a
fact about Ghidra's output that the code relies on (`keep` is a set of lines): a line
begins with its address, and an output is defined once.

## Runs

| Run | Bounds | Shows |
|---|---|---|
| `jobs_safety` | 2 analyses, 2 scans, 2 tasks, 1 permit, 1 thread, queue of 1, other servers in the directory, 1 restart that may open projects | the safety properties of the jobs |
| `jobs_liveness` | 1 analysis, 1 scan, 2 tasks, 1 permit, 1 thread, queue of 2, 1 refused write | the liveness properties; a second analysis only beside one deprived of its record |
| `jobs_crash` | 1 analysis, 2 tasks, 1 restart | after a crash an unanalyzed program is taken to be analyzed |
| `annotate_safety` | 2 calls, 2 functions, 2 attributes, 3 values, one name a part of another | the safety properties of annotate |
| `journal` | 1 server, 3 backups, 2 records to a file, 12 records, 2 refused renames | order, completeness and size of the journal; the refinement |
| `autostart` | 2 proxies with their servers, 2 runs of `stop` | one server, clean failures, an effective stop; nobody hangs |
| `residency` | 1 small and 1 large binary, the large one possibly loaded at the start, 1 tool thread, `min_loaded` 1, `evict_after` 1, 2 ticks, 2 pops armed | no program is closed under a call, nor under a job that has its record; eviction's limits; what can be reloaded |
| `shared_status` | 2 workers, 3 writes | dead analyses are marked, the monitor overwrites no completion, the watcher loads completions |
| `locks` | 3 processes, each of which starts once | one writer |
| `locks_sweep` | the same | the sweep at start-up removes the server's own lock |
| `calls` | 3 messages of any kind, 2 threads | delivery by the proxy; answers with calls that never return |
| `queries` | every input of the sets in `MCQueries` | the algorithms agree with their references |

Why the bounds are enough. Contention needs a resource of size one and two that want
it: with one permit, one executor thread and a queue of one, every cap is met, and the
second task is there for the successor of a killed or finished job. Two calls and two
functions are what a stale target, a lost save or an overlap of previews needs; the
substring pair makes a moved target resolve to the other function. Twelve records
fill four files of two once over, with rotations cut short at every rename. Two proxies
are a holder of the start lock and a waiter; the second `stop` meets what the first
left. Two binaries and `min_loaded` 1 make the pass spare one program and take the other,
and two ticks make one of them idle; a search without the lock and the call with it are
the same thread's choice, as two calls meet only in the lock. Two armed
pops are that of a failed job and that of its retry. Three writes are a worker's
start, its progress or its successor's start, and a repeated event; the second worker is the
one that takes over between this server's look at the first and its write. A third process
in `locks` is the one that takes the lock between another's probe and removal while a
third one looks; symmetry makes the processes interchangeable, and states after the
excused event are not explored, since the invariant holds there by definition. Three
messages are a call that keeps the lock, one that keeps the second thread and one that
queues. The inputs of `MCQueries` are small but complete: five functions are the least
with a detour and two levels behind it, chunks of two bytes end inside every run, and
three p-code ops include a use before a definition.

`jobs_crash` and `locks_sweep` check one property each, which the code does not have.
Deadlock is not checked where the system may rightly stop: every bound used up, all
processes gone, all queries answered.

## Where code and comments part

Two runs show a difference:

* **Crash in mid-analysis** (`jobs_crash`). The comment says the analysis is skipped
  when the program "was already analyzed"; `import_binary` only knows that it exists.
* **The sweep at start-up** (`locks_sweep`). `--eager-load` opens projects before
  `server_lifespan` sweeps "only locks that no live process holds": the probe of a lock
  of its own process reports it free, its close gives the lock up, and both files go.

The following definitions are stated in the modules and TLC refutes them too; adding the
name to the cfg given shows the trace.

* `PopsOwnRecord` (`AnalysisJobs`, an action property, `jobs_crash.cfg`). "keep terminal
  status available for 5 min so callers can poll": the pop is by id, so the pop of a
  failed job removes the record of its retry; another `load()` may then start a second
  analysis next to it.
* `OneCeiling` (`AnalysisJobs`, an invariant, `jobs_liveness.cfg` with `MaxQueuedJobs = 1`). `_reject_if_jobs_full`
  mirrors the guard of `load()` "so all background work shares one ceiling" (230-232), but
  `load()` counts only queued and analyzing jobs (2678-2681): with a scan running it still
  admits an analysis, and the two kinds together reach twice the cap. The trace is
  `ScanSpawn`, `ScanStart`, a `load()`. `JobCaps` is the weaker claim that holds.
* `CancelledNeverStarts` (`AnalysisJobs`, an action property, `jobs_crash.cfg`).
  `_kill_job` "kill[s] any active worker", but the work has been in-process since `pid`
  became `None`: the queued task still imports.
* `CommitsWhatWasShown` (`Annotate`, an action property, `annotate_safety.cfg`). The
  preview keeps the old value "so commit can detect drift"; the commit compares the
  address only.
* `NoHole` with `Servers = {s1, s2}`, `MaxBackups = 2`, `MaxRecords = 6`
  (`journal.cfg`). Rotation is guarded inside one process, and servers of one directory
  share the journal: two rotations at once lose a file of records.
* `EvictedReloads` (`Residency`, an invariant, `residency.cfg`). "the next tool call
  referencing an evicted binary transparently reloads it" (2325) needs a completed status.
  A small binary, one loaded with `analyze=False` and one named on the command line are
  imported without a status file, and a failed job leaves "error", which `_find_on_disk`
  passes over: evicted, all of these are "Binary not found" until they are loaded again.
  `ListedEvictedReloads` says that these are all.
* `JobKeepsProgram` (`Residency`, an action property, `residency.cfg`). "Don't evict
  binaries with active analysis jobs" (2366): the record of a retry may have gone with the
  pop of the job before it (`PopsOwnRecord`), and the program is then closed during its
  analysis. `AnalysisKeepsProgram` says that this is the only way. A program that `load()`
  analyzes in its own call has no record, and no such protection at all.
* `LiveStatusKept` (`SharedStatus`, an action property, `shared_status.cfg`). "Worker
  process died unexpectedly" may be written over the status of a worker that lives: the
  monitor does not look whose "analyzing" it replaces, and another server may have removed
  the directory and begun again (`delete()`, `load(fresh=True)`), or the import command,
  which looks nothing up, have begun beside the dead one.
* `RecoveryKeepsCompletion` (`SharedStatus`, an action property, `shared_status.cfg`).
  "Worker died -- mark failed": recovery reads the file before it looks at the pid. A worker
  that completes and exits in between has its completion replaced by an error.
* `KillsOnlyWorkers` (`SharedStatus`, an action property, `shared_status.cfg`). `_kill_job`
  sends SIGTERM to the process of a recovered record, which is the whole other server, and
  the record stays when that server's analysis is over: a later `delete()` ends a server
  that is no longer working on the binary.
* `NoDuplicate` (`Autostart`, an invariant, `autostart.cfg`). A proxy whose wait for the
  start lock timed out goes on, as "the port-availability gate below prevents a
  duplicate"; the port of a server that still boots is free, so a second one is spawned.
  It ends when it cannot bind (`ServersSettle`).
* `OthersTimeOut` (`Calls`, `calls.cfg`). While an abandoned thread holds the lock, "other
  calls time out too rather than hang"; not once a `load()` waits for the lock on the
  event loop, which also runs the timers.

Also seen, and modelled as the code has it: a `failed` entry may be followed by the
commit it reports failed (the abandoned thread, or a failed save that a later call
saves); a cancelled request leaves no note at all; a task whose binary has gone before
it starts stays "analyzing" in the table and counts against the cap; a progress write
that the disk refuses makes the job an error while its import goes on (`TaskRefused`); a
program opened by `--eager-load` although its file says "analyzing" keeps that file
(2229-2233), and once it is evicted later loads are refused as in progress until a load
with `fresh` (`left` in `AnalysisJobs`); a recovered record lasts as long as its pid is in
use, by whomever, counts against the cap, and is never popped once it is set to complete
(2396); the import command on a program that its project already holds writes "analyzing",
even over a completed status, and no verdict (`EndSilently`); a call graph of depth three or more can miss
functions within its depth, when a detour reached them first at a level too deep to
expand; two source functions with the same bytes count twice in `transferred`.

## Proofs

All theorems are checked by TLAPS without assumptions beyond the named `ASSUME`s on
constants, which TLC evaluates in the runs. They hold for any number of ids, tasks,
permits, threads, calls, functions, values, backups, faults, binaries, servers, proxies and
messages, and for queries of any size.

* `AnalysisJobsProofs`. `TypeCorrect`, then each property from an inductive invariant
  of its own. `QueueCaps`: the cap needs that a waiting task is still "queued"
  (`WaitingQueued`), so that starting it adds no counted record; no other step turns a
  terminal record into an active one, and both insertions count first. The work is in the
  cardinality of the two sets. Records of other processes are inserted only by a restart
  (`RestartQueue`). `RecordsExpire`: the strengthening `RecordsOwnId` (the
  task in the table under an id is one for that id) makes the timer a finishing task
  arms the timer of the record in the table; the pop of a foreign timer, which does
  happen, can then only remove the record. `AnalyzingAttended` joins two invariants. `WriterInv`:
  this server's "analyzing" has a coroutine; `FilesNeedDirs` (no status file without its
  directory) covers the task that dies because its directory has gone, as its status file
  went with it. `ForeignInv`: another process's "analyzing" is watched through a
  recovered record, which has no coroutine, future or timer of its own (`ForeignIdle`).
  `AtMostOneAnalysis`, from `WorkInv`: work under way is in the job table unless it was
  deprived of its record (`WorkIsRecorded`), and a coroutine that ended with a verdict
  leaves no import behind (`DoneIsOver`), so that its pop, which may hit a successor's
  record, never frees the id for a second analysis beside its own.
* `AnnotateProofs`, the journal, for one server. `Numbered` and `RoomToShift`: the files hold
  numbers below the next one, and while a rotation runs the slot that the next rename
  overwrites is empty, unless it is the oldest backup. With these `NoHole` and
  `FilesInOrder` are inductive (`JournalWhole`, `JournalInOrder`), and a rename is a stutter
  or drops the oldest file, an append a `Write`: `JournalImplementsLog`. `DiskBounded` has
  an invariant of its own, that until a rename is refused the server that is about to
  append has room (`RoomToAppend`). `Servers = {s}` is the assumption of these theorems:
  with two servers TLC refutes `NoHole` (see above).
* `AnnotateProofs`, the tool. `CallsOK` says that a call keeps its preview, that a commit starts
  only after its record, and that only previewed calls have one. Every step is shown to
  stay within `Frame`: records stay, the project becomes the program in memory or stays,
  and an attribute in memory changes only to what is on disk or to what a pending, hence
  recorded, call writes to the address it was previewed for. `ChangesRecorded`,
  `OriginalsRecorded` (with `OldKnown`: a call's old value is the original one or the
  original is recorded) and `AppliedStays` (with `MemoryAhead`: what memory has over the
  disk was recorded) follow from the frame.

* `ResidencyProofs`. `Good` says of calls that whoever is past its lookup under the lock
  holds it (`CallsHold`), and programs are closed only while the lock is free; of the pass
  that what it chose was idle when it sorted and under no job (`PassOK`), that at least
  `MinLoaded` programs are none of its candidates unless a deletion intervened
  (`EnoughSpared`, the hard part: a set of spared programs is carried from the sort to the
  last eviction), and that its access times are current but for the ids a call has touched
  since (`AccessOK`); of jobs that the record of one under way is there or `lost`
  (`Recorded`, which makes `AnalysisKeepsProgram` a fact about the monitor's test of the
  table); of what is saved and not `unlisted` that its status is complete whenever no job is
  at it (`Published`). All five properties of the run follow from it.
* `AutostartProofs`. `ChildFollows` ties a server and the pid file to the steps of its
  proxy, `StopOnTarget` the steps of `stop` to its target. `OneAtATime` says that, until a
  wait lapsed or a booting server was left, who is between the second health check and
  the end of the start holds the start lock, only its server boots, and none is up when
  it is about to spawn. `OneStart` is its last conjunct counted.
* `SharedStatusProofs`. From its look at the pid to its error the monitor has a dead worker
  before it, and once it has read the file, the file is not that worker's completion
  (`MonitorOK`): the dead write nothing more, whoever else writes, deletes or purges.
* `ProjectLocksProofs`. Until a removal or a probe is excused, who has the project open is
  alone and holds the lock on the very inode that the directory has (`OwnersLock`,
  `Alone`), and who is about to unlink or remove looked before that (`LookedBefore`). A
  probe that finds no lock then finds no owner, so does the attempt to lock, and a
  removal without the excuse removes nobody's files. `Removals` is what makes a deletion
  safe that does not probe: it had the write handle, hence was alone. `Fresh` shows that
  there is an inode nobody has, by counting.
* `CallsProofs`. `TypeCorrect` has the executor's bound in it: a thread starts only where
  `Busy` is below `PoolSize`, and a load on the loop is none of them. `Delivery` is the
  invariant for the proxy: messages are read in the order of sending, one that is posted
  inline is the last that was read, and what is no request is always posted inline.
  `PostedOnce` is a conjunct of it, `NotesInOrder` follows.

* `QueriesProofs`. The inductive invariant of `Spec` is a lemma by the shape of the actions
  (`Computed`: the answer is what the algorithm computes from the query); the work is in the lemmas that compare each
  algorithm with its reference. They share a foundation. `SetInduction` derives
  induction, over a set of numbers, from the well-foundedness of `<` (the induction theorems
  of the library take an operator, which the provers cannot instantiate);
  `IterationOverNat` and `Iteration` show that a function defined by a first value and a
  step exists, so that a loop of the model has its turns. Every loop is then handled
  alike: name what holds after n turns, show that a turn keeps it, conclude.
  * `SearchesAreExact`. `Gathered(found, all, limit, here)` says that `found` is the first
    `limit` of those results that lie before the address `here`. Both scanners keep it:
    `TurnGathers` (a maximal printable run is exactly a stretch, `RunEndIs` and
    `StretchAtRun`; between runs there is none) and `FindGathers` (between one place and
    the next that `findBytes` returns there is none). `DataIsAll` shows that reading by
    chunk loses nothing; `BatchExact`, `ExtractExact` and `FindBytesExact` are the ends of it.
  * `SlicesAreExact`. What is kept is in every closed set (`SliceOK`, kept by
    `LookKeeps` and `PassKeeps`), and a pass that keeps nothing more leaves a closed set.
    Every other pass keeps a line more, and there are no more lines than ops (`FewLines`), so
    the passes end. For the listing, `PrintOK` relates what is printed to a place in the
    blocks.
  * `GraphsAreExact`. `TraversalOK` ties the stack to the visited functions (a frame at place i
    is i - 1 steps away from the root, and no function has two), bounds nodes and
    edges (`Sound`) and says that of a visited function nothing is left out but what is still
    to come in its loop (`Complete`, unless the budget cut it). `Left` is the set of turns
    still to be taken, and every step takes one out (`ReturnTakesTurn`,
    `VisitTakesTurn`): after `Turns` steps the stack is empty. Two steps away is as far as
    `Complete` reaches: only the root's callees are known to be visited themselves.
  * `TransfersAreUnique`. With a limit of two, one result of `FindBytes` is the only place
    (`TargetUnique`, from `FindBytesExact`); the renames so far touched only targets
    (`RenamedSoFar`).
  * `LookupsAreOrderFree`. Another order is a bijection of places; a set of matches has as
    many elements, and the same files, in both (`SamePlaces`).

Only model-checked: the liveness properties (`QueuedTasksRun`, `AnalyzingEnds`,
`ProxiesSettle`, `ServersSettle`, `DeadAnalysisMarked`, `PendingDrains`,
`CompletionIsLoaded`, `BoundedAnswered`, `ServiceResumes`), as fairness and `ENABLED` are
out of the prover's reach. The two runs that find a violation have no theorem.

## Plan

Done: every module listed above with its runs, and proofs of all invariants, action
properties and the refinement that the passing runs check. What remains to be proved are
facts no run has as a property yet: what `Stats` of `Transfer` counts, that a call graph
without detours is exact at every depth, and, as safety, the measures behind the liveness
properties (that each fair step brings a proxy or a queued task nearer to its end).

## Not modelled

* The readers of binary formats and languages (`formats.py`, `lang.py`, `hermes.py`,
  `analyzer.py`): stateless functions of one file. The printed diagnostics, argument
  handling and HTTP middleware hold no state that two actors share. What Ghidra
  computes is external; so are the JVM's own failures other than exceptions from the
  calls the code makes.
* All modules: the server lifespan, with recovery, monitors and watcher, is taken to run once
  per process; some versions of the SDK run it once per session.
* Jobs: a bootstrap transfer at the end of a job is an algorithm (`Transfer`), not a step
  of the job; on a read-only view it renames in memory and then its save raises. `load()`
  iterates over `_active_jobs` while `delete()` on a thread may pop from it, and reads a
  program off the lock after it has copied the table; the modules take each such reading
  as one step.
* Residency: `load(fresh=True)` is a deletion and a load; a search whose handle was
  closed fails inside Ghidra and is only marked; programs without an access time are
  evicted first, as the code does; which projects the autopurge picks from
  `history.jsonl` is left out (any may be picked, in `ProjectLocks`). The run has one
  tool thread: a second one multiplies the states and meets the first only in the lock.
* Status files: reuse of process ids; two projects of one analysis id, an old name and a
  new one, of which the first in directory order decides; an event that arrives while a
  hot-load of the id is pending is dropped by the code, and `CompletionIsLoaded` excepts
  it; a hot-load that opens no program is not repeated, and the property asks for the attempt.
* Locks: Windows's mandatory locks.
* Proxy: `http_to_stdio`, the end of the bridge, and a cancellation that overtakes its
  request; that a server which exits removes a pid file another one wrote is in
  `Autostart`, without a property against it.
* Journal: a record that is written to a file another server has just renamed lands in
  the backup.
* Queries: the timed list of functions (a cached list may lack metadata that a later
  caller wants), entropy, data types, decompiler output; `rank_sources` enumerates
  projects without the lock.
* `Server configuration and go_live`: a record written once, in one thread, before
  serving starts.
