---------------------------- MODULE AnalysisJobs ----------------------------
(***************************************************************************)
(* Background work of one pyghidra-lite server: the job table              *)
(* (_active_jobs), the asyncio tasks that run large analyses and scans,    *)
(* the two-thread import executor, the .analysis_status files, and the     *)
(* handlers load() and delete() that change them from two different        *)
(* threads.  A crash loses everything but the project directories, and the *)
(* server that follows may open some of them before it recovers the rest.  *)
(*                                                                         *)
(* The event loop runs one callback at a time: an action of the loop is    *)
(* atomic up to its next await, so it needs LoopIdle.  Tool bodies such    *)
(* as delete() run on other threads and interleave with the loop at every  *)
(* step; they exclude each other, and the loop's locked sections, by       *)
(* _backend_lock.                                                          *)
(***************************************************************************)
EXTENDS Integers, FiniteSets

CONSTANTS
    AnalysisIds,    \* profile-scoped ids of binaries above _LARGE_BINARY_MB
    ScanIds,        \* ids _new_job_id() may draw for background scans
    Tasks,          \* bound: tasks alive at once, each with its job dict and future
    Nil,            \* no task, no id
    WorkerSlots,    \* permits of _worker_semaphore (4)
    ImportThreads,  \* workers of _import_executor (2)
    MaxQueuedJobs,  \* _MAX_QUEUED_JOBS (32)
    Preload,        \* started with --eager-load, or with binaries on its command line
    SharedDir,      \* other servers use the project directory while this one is down
    MaxFaults,      \* bound: writes below a project directory that the disk refuses
    MaxRestarts     \* bound: crashes followed by a restart

JobIds == AnalysisIds \union ScanIds

ASSUME JobsAssumption ==
    /\ IsFiniteSet(JobIds)
    /\ AnalysisIds \intersect ScanIds = {}
    /\ Nil \notin Tasks \union JobIds
    /\ {WorkerSlots, ImportThreads, MaxQueuedJobs} \subseteq Nat \ {0}
    /\ {MaxFaults, MaxRestarts} \subseteq Nat
    /\ {Preload, SharedDir} \subseteq BOOLEAN

VARIABLES
    active_jobs,  \* _active_jobs: id -> the task whose job dict it holds
    job,          \* job dict of a task: its id and its "status" field
    coro,         \* where the task's coroutine stands
    fut,          \* its future on _import_executor
    timers,       \* tasks whose call_later(300, _active_jobs.pop, id) is armed
    status_file,  \* "status" in <project>/.analysis_status; none: no file.  An
                  \* "analyzing" is this process's, of a process that recovery found
                  \* alive (foreign), or of one whose file recovery skipped (left)
    project,      \* the directory: none, empty, program imported, analyzed
    programs,     \* backend.programs: absent, handle.analyzed F (raw) or T (ready)
    loop,         \* the load() the event loop is inside, between two locked parts
    deleting,     \* the id whose directory the delete() thread is removing
    cancelled,    \* history: tasks whose record _kill_job removed
    lost,         \* history: tasks whose record the timer of another one removed
    faults,       \* history: writes refused so far
    restarts      \* history: restarts so far

volatile == <<active_jobs, job, coro, fut, timers, programs, loop, deleting, cancelled,
              lost>>
history == <<faults, restarts>>
vars == <<volatile, status_file, project, history>>

JobStatus == {"none", "queued", "analyzing", "running", "complete", "error"}
Terminal == {"complete", "error"}
NoJob == [id |-> Nil, status |-> "none"]
Idle == [id |-> Nil, fresh |-> FALSE]

\* The statuses for which the file says "analyzing".
UnderWay == {"analyzing", "foreign", "left"}

TypeOK ==
    /\ active_jobs \in [JobIds -> Tasks \union {Nil}]
    /\ job \in [Tasks -> [id : JobIds \union {Nil}, status : JobStatus]]
    /\ coro \in [Tasks -> {"none", "waiting", "polling", "done", "dead", "foreign"}]
    /\ fut \in [Tasks -> {"none", "submitted", "analyzing", "orphaned",
                          "scanning", "succeeded", "closed", "failed"}]
    /\ timers \subseteq Tasks
    /\ status_file \in [AnalysisIds -> {"none", "complete", "error"} \union UnderWay]
    /\ project \in [AnalysisIds -> {"none", "empty", "imported", "analyzed"}]
    /\ programs \in [AnalysisIds -> {"absent", "raw", "ready"}]
    /\ loop \in [id : AnalysisIds \union {Nil}, fresh : BOOLEAN]
    /\ deleting \in AnalysisIds \union {Nil}
    /\ cancelled \subseteq Tasks
    /\ lost \subseteq Tasks
    /\ faults \in 0..MaxFaults
    /\ restarts \in 0..MaxRestarts

-----------------------------------------------------------------------------
(* The tables.                                                             *)

\* Ids whose record in the job table has one of the given statuses.
Records(statuses) ==
    {i \in JobIds : active_jobs[i] # Nil /\ job[active_jobs[i]].status \in statuses}

\* What load() counts, and what _reject_if_jobs_full() counts.
QueuedAnalyses(table) ==
    {i \in JobIds : table[i] # Nil /\ job[table[i]].status \in {"queued", "analyzing"}}
AllActive == Records({"queued", "analyzing", "running"})

\* Mutant: the cap admits one job too many.
QueueFullOffByOne(table) == Cardinality(QueuedAnalyses(table)) > MaxQueuedJobs

QueueFull(table) == Cardinality(QueuedAnalyses(table)) >= MaxQueuedJobs

\* Mutant: a queued job does not count as in progress.
InProgressIfAnalyzing(table, a) ==
    table[a] # Nil /\ job[table[a]].status = "analyzing"

InProgress(table, a) == table[a] # Nil /\ job[table[a]].status \notin Terminal

\* Mutant: the deferred pop drops the record only of a job that succeeded.
PoppedIfComplete(i) ==
    [active_jobs EXCEPT ![i] = IF @ # Nil /\ job[@].status = "error" THEN @ ELSE Nil]

\* _active_jobs.pop(id, None).
Popped(i) == [active_jobs EXCEPT ![i] = Nil]

LoopIdle == loop = Idle

\* _backend_lock is held over the whole of delete() and over a scan.
LockFree == deleting = Nil /\ \A t \in Tasks : fut[t] # "scanning"

\* Mutant: a coroutine that an exception ends keeps its permit.
SlotHoldersLeaked ==
    {t \in Tasks : coro[t] \in {"polling", "dead"} /\ job[t].id \in AnalysisIds}

\* Permits and executor threads in use.
SlotHolders == {t \in Tasks : coro[t] = "polling" /\ job[t].id \in AnalysisIds}
BusyThreads == {t \in Tasks : fut[t] \in {"analyzing", "orphaned", "scanning"}}

\* A task nothing refers to any more, given the job table: garbage, free to stand
\* for a new one.
Unused(t, table) ==
    /\ coro[t] \in {"none", "done", "dead", "foreign"}
    /\ fut[t] \notin {"submitted", "analyzing", "orphaned", "scanning"}
    /\ t \notin timers
    /\ \A i \in JobIds : table[i] # t

\* The bound: a load() is admitted only while a task is left for it.
TaskLeft(table) == \E t \in Tasks : Unused(t, table)

\* project.close(program): the threads still working on the handle lose it.
Closed(a) ==
    [t \in Tasks |->
        IF job[t].id # a THEN fut[t]
        ELSE CASE fut[t] = "analyzing" -> "orphaned"
               [] fut[t] = "succeeded" -> "closed"
               [] OTHER -> fut[t]]

\* Mutant: a missing record counts as a job that was cancelled.
KilledUnchecked(a) == {active_jobs[a]}

\* _kill_job pops the record; a pid is None for in-process work, so the task
\* itself goes on.  The process a recovered record names gets SIGTERM.
Killed(a) == IF active_jobs[a] = Nil THEN {} ELSE {active_jobs[a]}

\* A new job dict in the table and asyncio.create_task for its coroutine.
Spawn(t, i, table) ==
    /\ Unused(t, table)
    /\ active_jobs' = [table EXCEPT ![i] = t]
    /\ job' = [job EXCEPT ![t] = [id |-> i, status |-> "queued"]]
    /\ coro' = [coro EXCEPT ![t] = "waiting"]
    /\ fut' = [fut EXCEPT ![t] = "none"]
    /\ lost' = lost \ {t}

Init ==
    /\ active_jobs = [i \in JobIds |-> Nil]
    /\ job = [t \in Tasks |-> NoJob]
    /\ coro = [t \in Tasks |-> "none"]
    /\ fut = [t \in Tasks |-> "none"]
    /\ timers = {}
    /\ status_file = [a \in AnalysisIds |-> "none"]
    /\ project = [a \in AnalysisIds |-> "none"]
    /\ programs = [a \in AnalysisIds |-> "absent"]
    /\ loop = Idle
    /\ deleting = Nil
    /\ cancelled = {}
    /\ lost = {}
    /\ faults = 0
    /\ restarts = 0

-----------------------------------------------------------------------------
(* load(path, analyze=True) of a large binary, on the event loop.          *)

\* fresh=True: _purge_analysis closes the program and removes the directory.
LoadPurge(a) ==
    /\ LoopIdle /\ LockFree /\ TaskLeft(Popped(a))
    /\ programs' = [programs EXCEPT ![a] = "absent"]
    /\ fut' = Closed(a)
    /\ project' = [project EXCEPT ![a] = "none"]
    /\ status_file' = [status_file EXCEPT ![a] = "none"]
    /\ loop' = [id |-> a, fresh |-> TRUE]
    /\ UNCHANGED <<active_jobs, job, coro, timers, deleting, cancelled, lost, history>>

\* fresh=False: neither loaded and analyzed, nor analyzing or complete on disk.
LoadLookup(a) ==
    /\ LoopIdle /\ LockFree /\ TaskLeft(active_jobs)
    /\ programs[a] # "ready"
    /\ status_file[a] \in {"none", "error"}
    /\ loop' = [id |-> a, fresh |-> FALSE]
    /\ UNCHANGED <<active_jobs, job, coro, fut, timers, status_file, project,
                   programs, deleting, cancelled, lost, history>>

\* fresh=False and complete on disk: load() awaits a hot-load, which runs on the
\* executor, and returns.  Without a program in the project it changes nothing.
LoadFromDisk(a) ==
    /\ Cardinality(BusyThreads) < ImportThreads
    /\ LockFree
    /\ programs[a] = "absent"
    /\ status_file[a] = "complete"
    /\ project[a] \in {"imported", "analyzed"}
    /\ programs' = [programs EXCEPT ![a] = "ready"]
    /\ UNCHANGED <<active_jobs, job, coro, fut, timers, status_file, project,
                   loop, deleting, cancelled, lost, history>>

\* The section under _active_jobs_lock; it has no await.
LoadEnqueue ==
    LET a == loop.id
        table == IF loop.fresh THEN Popped(a) ELSE active_jobs
        killed == IF loop.fresh THEN Killed(a) ELSE {}
        refused == InProgress(table, a) \/ QueueFull(table)
    IN  /\ a # Nil
        /\ loop' = Idle
        /\ \/ /\ refused
              /\ active_jobs' = table
              /\ cancelled' = cancelled \union killed
              /\ UNCHANGED <<job, coro, fut, lost>>
           \/ /\ ~refused
              /\ \E t \in Tasks :
                    /\ Spawn(t, a, table)
                    /\ cancelled' = (cancelled \union killed) \ {t}
        /\ UNCHANGED <<timers, status_file, project, programs, deleting, history>>

-----------------------------------------------------------------------------
(* _run_import_inprocess, on the event loop.                               *)

\* Permit acquired: mkdir, the listener writes "analyzing", the import is
\* submitted to the executor.
TaskStart(t) ==
    LET a == job[t].id
    IN  /\ LoopIdle
        /\ coro[t] = "waiting" /\ a \in AnalysisIds
        /\ Cardinality(SlotHolders) < WorkerSlots
        /\ job' = [job EXCEPT ![t].status = "analyzing"]
        /\ coro' = [coro EXCEPT ![t] = "polling"]
        /\ fut' = [fut EXCEPT ![t] = "submitted"]
        /\ project' = [project EXCEPT ![a] = IF @ = "none" THEN "empty" ELSE @]
        /\ status_file' = [status_file EXCEPT ![a] = "analyzing"]
        /\ UNCHANGED <<active_jobs, timers, programs, loop, deleting, cancelled, lost, history>>

\* path.stat() raises because the binary has gone since load(): the directory
\* is made, the job says "analyzing", and the coroutine ends there.
TaskStartFails(t) ==
    LET a == job[t].id
    IN  /\ LoopIdle
        /\ coro[t] = "waiting" /\ a \in AnalysisIds
        /\ Cardinality(SlotHolders) < WorkerSlots
        /\ job' = [job EXCEPT ![t].status = "analyzing"]
        /\ coro' = [coro EXCEPT ![t] = "dead"]
        /\ project' = [project EXCEPT ![a] = IF @ = "none" THEN "empty" ELSE @]
        /\ UNCHANGED <<active_jobs, fut, timers, status_file, programs, loop,
                       deleting, cancelled, lost, history>>

\* The disk refuses a write.
WriteFails == faults < MaxFaults /\ faults' = faults + 1

Polling(t) == LoopIdle /\ coro[t] = "polling" /\ job[t].id \in AnalysisIds

\* Mutant: a failed import is not taken for a finished one.
OutcomesOfSuccess(f) == IF f \in {"succeeded", "closed"} THEN {"complete"} ELSE {}

\* The statuses a finished future can lead to.  Reading the function count of a
\* program closed in the meantime raises or not.
Outcomes(f) ==
    CASE f = "succeeded" -> {"complete"}
      [] f = "failed" -> {"error"}
      [] f = "closed" -> {"complete", "error"}
      [] OTHER -> {}

\* The two-second loop: set_phase rewrites the status file.
TaskPoll(t) ==
    LET a == job[t].id
    IN  /\ Polling(t)
        /\ Outcomes(fut[t]) = {}
        /\ project[a] # "none"
        /\ status_file' = [status_file EXCEPT ![a] = "analyzing"]
        /\ UNCHANGED <<volatile, project, history>>

\* The future is done: listener.complete or listener.error, the job dict,
\* and the deferred pop, with no await between them.
TaskFinish(t, outcome) ==
    LET a == job[t].id
    IN  /\ Polling(t)
        /\ outcome \in Outcomes(fut[t])
        /\ project[a] # "none"
        /\ status_file' = [status_file EXCEPT ![a] = outcome]
        /\ job' = [job EXCEPT ![t].status = outcome]
        /\ coro' = [coro EXCEPT ![t] = "done"]
        /\ timers' = timers \union {t}
        /\ UNCHANGED <<active_jobs, fut, project, programs, loop, deleting,
                       cancelled, lost, history>>

\* A refused progress write, or one of listener.complete, is an error of the
\* job: listener.error replaces the status and the pop is armed, while the
\* import goes on without its coroutine.
TaskRefused(t) ==
    LET a == job[t].id
    IN  /\ Polling(t)
        /\ fut[t] # "failed"
        /\ project[a] # "none"
        /\ WriteFails
        /\ status_file' = [status_file EXCEPT ![a] = "error"]
        /\ job' = [job EXCEPT ![t].status = "error"]
        /\ coro' = [coro EXCEPT ![t] = "done"]
        /\ timers' = timers \union {t}
        /\ UNCHANGED <<active_jobs, fut, project, programs, loop, deleting,
                       cancelled, lost, restarts>>

\* listener.error raises too, because the directory was removed or the disk
\* refuses it: the coroutine ends, with neither a terminal status nor a timer.
TaskDies(t) ==
    /\ Polling(t)
    /\ \/ project[job[t].id] = "none" /\ UNCHANGED faults
       \/ project[job[t].id] # "none" /\ WriteFails
    /\ coro' = [coro EXCEPT ![t] = "dead"]
    /\ UNCHANGED <<active_jobs, job, fut, timers, status_file, project, programs,
                   loop, deleting, cancelled, lost, restarts>>

\* call_later(300, _active_jobs.pop, id): pops whatever the id maps to by then.
TimerFires(t) ==
    /\ LoopIdle
    /\ t \in timers
    /\ timers' = timers \ {t}
    /\ active_jobs' = Popped(job[t].id)
    /\ lost' = lost \union {u \in Tasks \ {t} : active_jobs[job[t].id] = u}
    /\ UNCHANGED <<job, coro, fut, status_file, project, programs, loop,
                   deleting, cancelled, history>>

-----------------------------------------------------------------------------
(* _do_import_blocking, on an executor thread.                             *)

\* import_binary under _backend_lock.  A program found in memory keeps its
\* analyzed flag; one found in the project is taken to be analyzed.
ThreadImport(t) ==
    LET a == job[t].id
        existed == programs[a] = "absent" /\ project[a] \in {"imported", "analyzed"}
        ready == existed \/ programs[a] = "ready"
    IN  /\ fut[t] = "submitted" /\ a \in AnalysisIds
        /\ Cardinality(BusyThreads) < ImportThreads
        /\ LockFree
        /\ \/ /\ programs' = [programs EXCEPT ![a] = IF ready THEN "ready" ELSE "raw"]
              /\ project' = [project EXCEPT ![a] = IF @ \in {"none", "empty"}
                                                   THEN "imported" ELSE @]
              /\ fut' = [fut EXCEPT ![t] = IF ready THEN "succeeded" ELSE "analyzing"]
           \/ /\ fut' = [fut EXCEPT ![t] = "failed"]
              /\ UNCHANGED <<programs, project>>
        /\ UNCHANGED <<active_jobs, job, coro, timers, status_file, loop,
                       deleting, cancelled, lost, history>>

\* analyze_program, off the lock: saved and flagged, or an exception.
ThreadAnalyze(t) ==
    LET a == job[t].id
    IN  /\ \/ /\ fut[t] = "analyzing"
              /\ fut' = [fut EXCEPT ![t] = "succeeded"]
              /\ programs' = [programs EXCEPT ![a] = "ready"]
              /\ project' = [project EXCEPT ![a] = "analyzed"]
           \/ /\ fut[t] \in {"analyzing", "orphaned"}
              /\ fut' = [fut EXCEPT ![t] = "failed"]
              /\ UNCHANGED <<programs, project>>
        /\ UNCHANGED <<active_jobs, job, coro, timers, status_file, loop,
                       deleting, cancelled, lost, history>>

-----------------------------------------------------------------------------
(* search(bg=True) and type="extract": background scans.                   *)

\* _reject_if_jobs_full, then insert and create_task, with no await between.
ScanSpawn(i) ==
    /\ LoopIdle
    /\ active_jobs[i] = Nil
    /\ Cardinality(AllActive) < MaxQueuedJobs
    /\ \E t \in Tasks : Spawn(t, i, active_jobs) /\ cancelled' = cancelled \ {t}
    /\ UNCHANGED <<timers, status_file, project, programs, loop, deleting, history>>

\* _run_scan_task up to its await.
ScanStart(t) ==
    /\ LoopIdle
    /\ coro[t] = "waiting" /\ job[t].id \in ScanIds
    /\ job' = [job EXCEPT ![t].status = "running"]
    /\ coro' = [coro EXCEPT ![t] = "polling"]
    /\ fut' = [fut EXCEPT ![t] = "submitted"]
    /\ UNCHANGED <<active_jobs, timers, status_file, project, programs, loop,
                   deleting, cancelled, lost, history>>

\* The scan holds _backend_lock (_locked_tools) from first to last match.
ThreadScan(t) ==
    /\ \/ /\ fut[t] = "submitted" /\ job[t].id \in ScanIds
          /\ Cardinality(BusyThreads) < ImportThreads
          /\ LockFree
          /\ fut' = [fut EXCEPT ![t] = "scanning"]
       \/ /\ fut[t] = "scanning"
          /\ \E end \in {"succeeded", "failed"} : fut' = [fut EXCEPT ![t] = end]
    /\ UNCHANGED <<active_jobs, job, coro, timers, status_file, project, programs,
                   loop, deleting, cancelled, lost, history>>

\* The result is written, then the job is terminal and its pop is armed.  When
\* not even the error can be written (a full disk) the coroutine ends after
\* setting the status, and no pop is armed.
ScanFinish(t) ==
    /\ LoopIdle
    /\ coro[t] = "polling" /\ job[t].id \in ScanIds
    /\ \/ /\ fut[t] \in {"succeeded", "failed"}
          /\ job' = [job EXCEPT ![t].status =
                        IF fut[t] = "succeeded" THEN "complete" ELSE "error"]
          /\ coro' = [coro EXCEPT ![t] = "done"]
          /\ timers' = timers \union {t}
          /\ UNCHANGED faults
       \/ /\ fut[t] \in {"succeeded", "failed"} /\ WriteFails
          /\ job' = [job EXCEPT ![t].status = "error"]
          /\ coro' = [coro EXCEPT ![t] = "dead"]
          /\ UNCHANGED timers
    /\ UNCHANGED <<active_jobs, fut, status_file, project, programs, loop,
                   deleting, cancelled, lost, restarts>>

-----------------------------------------------------------------------------
(* delete(name), on a thread that holds _backend_lock throughout.          *)

\* A loaded program is closed and deleted from its project; an unloaded one is
\* found only when its status is complete.  Then _kill_job.
DeleteBegin(a) ==
    /\ LockFree
    /\ programs[a] # "absent" \/ status_file[a] = "complete"
    /\ project' = [project EXCEPT ![a] =
                      IF programs[a] # "absent" /\ @ # "none" THEN "empty" ELSE @]
    /\ programs' = [programs EXCEPT ![a] = "absent"]
    /\ fut' = Closed(a)
    /\ active_jobs' = Popped(a)
    /\ cancelled' = cancelled \union Killed(a)
    /\ deleting' = a
    /\ UNCHANGED <<job, coro, timers, status_file, loop, lost, history>>

\* shutil.rmtree of the project directory, and the lock is released.
DeleteEnd ==
    /\ deleting # Nil
    /\ project' = [project EXCEPT ![deleting] = "none"]
    /\ status_file' = [status_file EXCEPT ![deleting] = "none"]
    /\ deleting' = Nil
    /\ UNCHANGED <<active_jobs, job, coro, fut, timers, programs, loop, cancelled, lost,
                   history>>

-----------------------------------------------------------------------------
(* The monitors: one pass of _eviction_monitor over an id that has been    *)
(* idle long enough, and of _stale_job_monitor over a recovered record.    *)

Evict(a) ==
    /\ LoopIdle /\ LockFree
    /\ programs[a] # "absent"
    /\ a \notin AllActive
    /\ programs' = [programs EXCEPT ![a] = "absent"]
    /\ fut' = Closed(a)
    /\ UNCHANGED <<active_jobs, job, coro, timers, status_file, project, loop,
                   deleting, cancelled, lost, history>>

\* The process that a recovered record names is found dead: its analysis was
\* completed, or it becomes an error and the record goes.  A record set to
\* complete here has no pop armed.
StaleRecord(t) ==
    LET a == job[t].id
    IN  /\ LoopIdle
        /\ coro[t] = "foreign" /\ active_jobs[a] = t /\ job[t].status = "analyzing"
        /\ \/ /\ status_file[a] = "complete"
              /\ job' = [job EXCEPT ![t].status = "complete"]
              /\ UNCHANGED <<active_jobs, status_file, project>>
           \/ /\ status_file[a] # "complete"
              /\ status_file' = [status_file EXCEPT ![a] = "error"]
              /\ project' = [project EXCEPT ![a] = IF @ = "none" THEN "empty" ELSE @]
              /\ active_jobs' = Popped(a)
              /\ UNCHANGED job
        /\ UNCHANGED <<coro, fut, timers, programs, loop, deleting, cancelled, lost,
                       history>>

\* Another server ends the analysis it had under way when this one started.
OtherFinishes(a) ==
    /\ SharedDir
    /\ status_file[a] \in {"foreign", "left"}
    /\ \/ /\ status_file' = [status_file EXCEPT ![a] = "complete"]
          /\ project' = [project EXCEPT ![a] = "analyzed"]
       \/ /\ status_file' = [status_file EXCEPT ![a] = "error"]
          /\ UNCHANGED project
    /\ UNCHANGED <<volatile, history>>

-----------------------------------------------------------------------------
(* A crash followed by a restart.                                          *)

\* Mutant: recovery leaves the status file as it found it.
NotRecovered(status) == status

\* _recover_in_progress_jobs, for a file whose pid is dead.
Recovered(status) == IF status \in UnderWay THEN "error" ELSE status

\* The new process has empty tables, but for a job dict of each id in `held': an
\* "analyzing" whose pid some process has.  They are inserted without a count.
RestartTables(held) ==
    /\ \A t, u \in Tasks : held[t] = held[u] /\ t # u => held[t] = Nil
    /\ active_jobs' = [i \in JobIds |->
          IF \E t \in Tasks : held[t] = i
          THEN CHOOSE t \in Tasks : held[t] = i ELSE Nil]
    /\ job' = [t \in Tasks |->
          IF held[t] = Nil THEN NoJob ELSE [id |-> held[t], status |-> "analyzing"]]
    /\ coro' = [t \in Tasks |-> IF held[t] = Nil THEN "none" ELSE "foreign"]
    /\ fut' = [t \in Tasks |-> "none"]
    /\ timers' = {} /\ cancelled' = {} /\ lost' = {}
    /\ loop' = Idle /\ deleting' = Nil

\* Before recovery the server opens every project that holds a program
\* (--eager-load) or imports what its command line names; recovery skips the
\* files of these.  It leaves the recorded ones as they are and marks the rest.
RestartFiles(opened, recovered) ==
    /\ programs' = [a \in AnalysisIds |-> IF a \in opened THEN "ready" ELSE "absent"]
    /\ project' = [a \in AnalysisIds |->
          IF a \in opened /\ project[a] # "imported" THEN "analyzed"
          ELSE IF a \in recovered /\ project[a] = "none" THEN "empty" ELSE project[a]]
    /\ status_file' = [a \in AnalysisIds |->
          IF a \in opened THEN IF status_file[a] \in UnderWay THEN "left" ELSE status_file[a]
          ELSE IF a \in recovered THEN "foreign" ELSE Recovered(status_file[a])]

\* The process dies at any point.  A pid that recovery finds alive is another
\* server's, which has begun the analysis meanwhile, or a dead server's number
\* given to a new process.
CrashRestart ==
    /\ restarts < MaxRestarts
    /\ restarts' = restarts + 1
    /\ UNCHANGED faults
    /\ \E opened \in SUBSET AnalysisIds, held \in [Tasks -> AnalysisIds \union {Nil}] :
          LET recovered == {a \in AnalysisIds : \E t \in Tasks : held[t] = a}
          IN  /\ Preload \/ opened = {}
              /\ \A a \in recovered :
                    a \notin opened /\ (SharedDir \/ status_file[a] \in UnderWay)
              /\ RestartTables(held)
              /\ RestartFiles(opened, recovered)

-----------------------------------------------------------------------------
\* A coroutine resumes and gets to its next await, or to its end.
Resume(t) ==
    \/ TaskStart(t) \/ TaskStartFails(t)
    \/ TaskFinish(t, "complete") \/ TaskFinish(t, "error")
    \/ TaskRefused(t) \/ TaskDies(t)
    \/ ScanStart(t) \/ ScanFinish(t)

ThreadStep(t) == ThreadImport(t) \/ ThreadAnalyze(t) \/ ThreadScan(t)

Next ==
    \/ \E a \in AnalysisIds :
          \/ LoadPurge(a) \/ LoadLookup(a) \/ LoadFromDisk(a) \/ DeleteBegin(a)
          \/ Evict(a) \/ OtherFinishes(a)
    \/ LoadEnqueue \/ DeleteEnd \/ CrashRestart
    \/ \E i \in ScanIds : ScanSpawn(i)
    \/ \E t \in Tasks :
          Resume(t) \/ TaskPoll(t) \/ ThreadStep(t) \/ TimerFires(t) \/ StaleRecord(t)

Spec == Init /\ [][Next]_vars

\* asyncio runs its ready queue, and the semaphore its waiters, first in first
\* out; so does the executor its queue.  Ghidra's analysis is taken to end.
\* Nothing is assumed of the callers of load(), delete() and search(), and a
\* refused write is never what a fair step asks for.
Fairness ==
    /\ WF_vars(LoadEnqueue) /\ WF_vars(DeleteEnd)
    /\ \A t \in Tasks : /\ SF_vars(Resume(t) /\ UNCHANGED faults)
                         /\ SF_vars(ThreadStep(t)) /\ SF_vars(TimerFires(t))

FairSpec == Spec /\ Fairness

-----------------------------------------------------------------------------
(* Safety.                                                                 *)

\* Each kind of background work keeps within the queue cap: the count and the
\* insertion are not separated by an await, and no other step turns a terminal
\* record into an active one (load, _reject_if_jobs_full).  Only the records that
\* recovery inserts may exceed it, and then nothing is admitted beside them.  The
\* two kinds together reach twice the cap: see OneCeiling.
JobCaps ==
    /\ \/ Cardinality(QueuedAnalyses(active_jobs)) <= MaxQueuedJobs
       \/ \A i \in QueuedAnalyses(active_jobs) : coro[active_jobs[i]] = "foreign"
    /\ Cardinality(AllActive \intersect ScanIds) <= MaxQueuedJobs

\* A status file says "analyzing" only while somebody is there to replace it: a
\* coroutine of this server, or the stale monitor, which has a record of the
\* process that wrote it.  Through deletes, purges, restarts and tasks that die for
\* want of their directory, no other analysis is left that every later load()
\* refuses as in progress (_find_on_disk), but that of a program which was open
\* before recovery came to its file (left).  A refused write breaks this.
AnalyzingHasWriter ==
    faults = 0 => \A a \in AnalysisIds :
        /\ status_file[a] = "analyzing" => \E t \in Tasks : coro[t] = "polling" /\ job[t].id = a
        /\ status_file[a] = "foreign" => active_jobs[a] # Nil /\ coro[active_jobs[a]] = "foreign"
                                             /\ job[active_jobs[a]].status = "analyzing"

\* Finished work never stays in the job table for good: while its record is there
\* its own deferred pop is armed (both coroutines).  Two kinds of record do stay: a
\* scan whose result the disk refuses ends before arming it, and a recovered
\* record that _stale_job_monitor sets to complete has nobody to arm it.
TerminalRecordExpires ==
    faults = 0 => \A i \in Records(Terminal) :
        active_jobs[i] \in timers \/ coro[active_jobs[i]] = "foreign"

\* A task of _run_import_inprocess that has its import before it or under way.
Working(t) ==
    /\ job[t].id \in AnalysisIds
    /\ coro[t] \in {"waiting", "polling"} \/ fut[t] \in {"submitted", "analyzing", "orphaned"}

\* Two analyses of one id are under way at once only when one of them was deprived
\* of its record, by _kill_job or by the deferred pop of an earlier job: however
\* load(), delete(), the timers and dying coroutines interleave, a load() finds
\* every other analysis in the job table.  A refused write breaks this: the job
\* becomes an error while its import goes on.
OneAnalysis ==
    faults = 0 => \A t, u \in Tasks :
        t # u /\ Working(t) /\ Working(u) /\ job[t].id = job[u].id
            => {t, u} \intersect (cancelled \union lost) # {}

(* Liveness, under Fairness.                                               *)

\* A queued coroutine is never starved of its permit: every way out of the
\* semaphore's block, the exceptional ones included, gives the permit back.
QueuedTasksRun == \A t \in Tasks : coro[t] = "waiting" ~> coro[t] # "waiting"

\* This server's "analyzing" on disk is always followed by a verdict or by a
\* removal, unless the disk refuses a write.
AnalyzingEnds ==
    [](faults = 0) => \A a \in AnalysisIds : []<>(status_file[a] # "analyzing")

-----------------------------------------------------------------------------
(* What the repository says of this code, and what it does not do.         *)

\* "Mirror the load() guard so all background work shares one ceiling"
\* (_reject_if_jobs_full): load() does not count running scans.
OneCeiling == Cardinality(AllActive) <= MaxQueuedJobs

\* "keep terminal status available for 5 min so callers can poll": the deferred
\* pop of a job removes that job's record, not that of a later job.
PopsOwnRecord ==
    [][\A t \in timers \ timers' :
          restarts' = restarts => active_jobs[job[t].id] \in {t, Nil}]_vars

\* "Kill any active worker for analysis_id" (_kill_job): a cancelled job that was
\* still waiting for its permit never submits its import.
CancelledNeverStarts ==
    [][\A t \in cancelled : coro[t] = "waiting" => fut'[t] # "submitted"]_vars

\* "Skip if program was already analyzed (preexisting on disk or in memory)": a
\* handle is flagged analyzed only when its project holds a finished analysis.
ReadyIsAnalyzed ==
    \A a \in AnalysisIds : programs[a] = "ready" => project[a] = "analyzed"
=============================================================================
