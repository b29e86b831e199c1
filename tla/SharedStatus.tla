---------------------------- MODULE SharedStatus ----------------------------
(***************************************************************************)
(* The status file of one project, as one server sees it: other processes  *)
(* ("workers": servers, or the import command, named by the pid in the     *)
(* file) analyze the binary, delete it and may die; the server recovers    *)
(* their jobs when it starts, watches for dead ones, hot-loads what they   *)
(* complete, and deletes.  Its own analyses are in AnalysisJobs.           *)
(*                                                                         *)
(* The observer's thread of ProjectWatcher checks an event under           *)
(* _backend_lock, then adds the id to the pending set without it; the      *)
(* event loop makes a task of it, the executor loads, the loop ends the    *)
(* task and runs its done callback.  Each step is one of another thread.   *)
(* Process ids are not reused.                                             *)
(***************************************************************************)
EXTENDS Integers

CONSTANTS
    Workers,    \* other processes that may analyze the binary
    Nobody,
    MaxWrites   \* bound: events from workers' starts and progress, and repeated ones

ASSUME StatusAssumption == Nobody \notin Workers /\ MaxWrites \in Nat

VARIABLES
    status,     \* .analysis_status: what it says and whose pid it holds; none: no
                \* directory
    worker,     \* what a worker does
    server,     \* where the server is: see Phases
    seen,       \* the pid that recovery or the monitor is looking at
    record,     \* the recovered job in _active_jobs: its pid, and if it is active
    loaded,     \* the program is in backend.programs
    project,    \* backend._projects has an entry of it
    event,      \* an event that the observer has not handled
    adding,     \* the id is between the check and the pending set
    pending,    \* the id is in _pending_hot_loads
    hot,        \* hot-loads by stage
    closed,     \* the event loop is closed
    writes,     \* bound: events so far
    tried       \* history: a hot-load has come to the status since its last event

job == <<server, seen, record>>
watch == <<event, adding, pending, hot, closed, tried>>
memory == <<loaded, project>>
vars == <<status, worker, server, seen, record, loaded, project, event, adding, pending, hot,
          closed, writes, tried>>

\* recover: about to read the file; check: it says "analyzing", the pid comes next;
\* fail: recovery writes an error; up: serving; read: the monitor found a recorded
\* pid dead, the file comes next; mark: it writes an error.
Phases == {"recover", "check", "fail", "up", "read", "mark"}

\* callback: given to call_soon_threadsafe; task: made; loaded: the executor is
\* through with it; done: past its finally, the done callback still to run.
Stages == {"callback", "task", "loaded", "done"}

\* Types; a loaded program has its project; a pid is looked at in some phases only.
TypeOK ==
    /\ status \in [is : {"none", "analyzing", "complete", "error"}, by : Workers \union {Nobody}]
    /\ worker \in [Workers -> {"idle", "queued", "analyzing", "importing", "dead"}]
    /\ server \in Phases
    /\ seen \in Workers \union {Nobody} /\ (server \in {"recover", "up"}) = (seen = Nobody)
    /\ record \in [pid : Workers \union {Nobody}, active : BOOLEAN]
    /\ loaded \in BOOLEAN /\ project \in BOOLEAN /\ (loaded => project)
    /\ event \in BOOLEAN /\ adding \in BOOLEAN /\ pending \in BOOLEAN /\ closed \in BOOLEAN
    /\ hot \in [Stages -> Nat]
    /\ writes \in 0..MaxWrites
    /\ tried \in BOOLEAN

NoRecord == [pid |-> Nobody, active |-> FALSE]

Init ==
    /\ status = [is |-> "none", by |-> Nobody]
    /\ worker = [w \in Workers |-> "idle"]
    /\ server = "recover" /\ seen = Nobody /\ record = NoRecord
    /\ loaded = FALSE /\ project = FALSE
    /\ event = FALSE /\ adding = FALSE /\ pending = FALSE
    /\ hot = [s \in Stages |-> 0]
    /\ closed = FALSE
    /\ writes = 0
    /\ tried = FALSE

\* An atomic replace of the file, which the observer will see.
WriteStatus(is, by) ==
    /\ status' = [is |-> is, by |-> by]
    /\ event' = TRUE /\ tried' = FALSE

-----------------------------------------------------------------------------
(* Workers.                                                                *)

\* load() on another server: _find_on_disk refuses an analysis in progress, and a
\* complete one is only loaded.
Queue(w) ==
    /\ worker[w] = "idle" /\ status.is \in {"none", "error"}
    /\ worker' = [worker EXCEPT ![w] = "queued"]
    /\ UNCHANGED <<status, job, memory, watch, writes>>

\* With fresh=True it removes the directory and looks nothing up.
QueueFresh(w) ==
    /\ worker[w] = "idle"
    /\ worker' = [worker EXCEPT ![w] = "queued"]
    /\ status' = [is |-> "none", by |-> Nobody]
    /\ UNCHANGED <<job, memory, watch, writes>>

\* The listener's first write, which makes the directory, and those of the
\* progress.  The import command looks nothing up before it.
WriteAnalyzing(w) ==
    /\ writes < MaxWrites
    /\ \E now \in {"analyzing", "importing"} :
        /\ worker[w] \in IF now = "analyzing" THEN {"queued", now} ELSE {"idle", now}
        /\ worker' = [worker EXCEPT ![w] = now]
    /\ WriteStatus("analyzing", w)
    /\ writes' = writes + 1
    /\ UNCHANGED <<job, memory, adding, pending, hot, closed>>

Working(w) == worker[w] \in {"analyzing", "importing"}

\* The import command's process ends with its import.
AfterWork(w) == IF worker[w] = "importing" THEN "dead" ELSE "idle"

EndAnalysis(w) ==
    /\ Working(w)
    /\ worker' = [worker EXCEPT ![w] = AfterWork(w)]
    /\ \E end \in {"complete", "error"} : WriteStatus(end, w)
    /\ UNCHANGED <<job, memory, adding, pending, hot, closed, writes>>

\* Nothing is written at the end: the directory was removed and not made again, or
\* the import command found the program in its project.
EndSilently(w) ==
    /\ Working(w)
    /\ status.is = "none" \/ worker[w] = "importing"
    /\ worker' = [worker EXCEPT ![w] = AfterWork(w)]
    /\ UNCHANGED <<status, job, memory, watch, writes>>

Alive(w) == worker[w] # "dead"

Die(w) ==
    /\ Alive(w)
    /\ worker' = [worker EXCEPT ![w] = "dead"]
    /\ UNCHANGED <<status, job, memory, watch, writes>>

\* delete() on another server.
DeleteElsewhere ==
    /\ status.is # "none"
    /\ status' = [is |-> "none", by |-> Nobody]
    /\ UNCHANGED <<worker, job, memory, watch, writes>>

-----------------------------------------------------------------------------
(* Recovery and the stale-job monitor of the server.                       *)

\* --eager-load, or a binary named on the command line, before recovery.
EagerLoad ==
    /\ server = "recover" /\ ~loaded
    /\ loaded' = TRUE /\ project' = TRUE
    /\ UNCHANGED <<status, worker, job, watch, writes>>

\* _recover_in_progress_jobs reads the file, unless the program is loaded.
Recover ==
    /\ server = "recover"
    /\ IF status.is = "analyzing" /\ ~loaded
       THEN server' = "check" /\ seen' = status.by
       ELSE server' = "up" /\ UNCHANGED seen
    /\ UNCHANGED <<status, worker, record, memory, watch, writes>>

\* Only then it looks at the pid.
CheckPid ==
    /\ server = "check"
    /\ IF Alive(seen)
       THEN record' = [pid |-> seen, active |-> TRUE] /\ server' = "up" /\ seen' = Nobody
       ELSE server' = "fail" /\ UNCHANGED <<record, seen>>
    /\ UNCHANGED <<status, worker, memory, watch, writes>>

\* Mutant: the monitor only looks at jobs of its own server, which have no pid.
OnlyOwnJobs == FALSE

\* _pid_alive says that the process of a recovered job is gone.
WorkerIsDead == record.active /\ ~Alive(record.pid)

\* _stale_job_monitor looks at the pid first.
FindDead ==
    /\ server = "up" /\ ~closed /\ WorkerIsDead
    /\ server' = "read" /\ seen' = record.pid
    /\ UNCHANGED <<status, worker, record, memory, watch, writes>>

\* Mutant: the monitor does not look whether the analysis was completed.
NeverCompleted == FALSE

\* "Check if it actually completed".
Completed == status.is = "complete"

\* Then it reads the file; the record may be out of the table by now.
ReadStatus ==
    /\ server = "read"
    /\ IF Completed
       THEN /\ server' = "up" /\ seen' = Nobody
            /\ record' = [record EXCEPT !.active = FALSE]
       ELSE server' = "mark" /\ UNCHANGED <<seen, record>>
    /\ UNCHANGED <<status, worker, memory, watch, writes>>

\* The error that either writes for the dead worker; the monitor pops its record.
Mark ==
    /\ server \in {"fail", "mark"}
    /\ WriteStatus("error", Nobody)
    /\ server' = "up" /\ seen' = Nobody /\ record' = NoRecord
    /\ UNCHANGED <<worker, memory, adding, pending, hot, closed, writes>>

\* delete() on a thread of a server that serves, when no process holds the
\* project's lock: _kill_job sends SIGTERM to the pid of the record, active or not.
Delete ==
    /\ server \in {"up", "read", "mark"} /\ ~closed
    /\ loaded \/ status.is = "complete"
    /\ worker' = [w \in Workers |-> IF w = record.pid THEN "dead" ELSE worker[w]]
    /\ record' = NoRecord
    /\ status' = [is |-> "none", by |-> Nobody]
    /\ loaded' = FALSE /\ project' = (project /\ ~loaded)
    /\ UNCHANGED <<server, seen, watch, writes>>

-----------------------------------------------------------------------------
(* The observer's thread of the watcher.                                   *)

\* The observer may see one write more than once.
SeenAgain ==
    /\ ~event /\ writes < MaxWrites
    /\ event' = TRUE /\ tried' = FALSE
    /\ writes' = writes + 1
    /\ UNCHANGED <<status, worker, job, memory, adding, pending, hot, closed>>

\* _check_and_load up to the end of the lock.
CheckEvent ==
    /\ event /\ ~adding
    /\ event' = FALSE
    /\ adding' = (status.is = "complete" /\ ~loaded)
    /\ UNCHANGED <<status, worker, job, memory, pending, hot, closed, writes, tried>>

\* Mutant: the id is added before the check, which then finds it.
NeverFresh == FALSE

\* The test of the pending set.
NotPending == ~pending

\* The rest of _check_and_load; the loop refuses the callback once it is closed.
AddPending ==
    /\ adding
    /\ adding' = FALSE
    /\ IF NotPending /\ ~closed
       THEN pending' = TRUE /\ hot' = [hot EXCEPT !["callback"] = @ + 1]
       ELSE UNCHANGED <<pending, hot>>
    /\ UNCHANGED <<status, worker, job, memory, event, closed, writes, tried>>

-----------------------------------------------------------------------------
(* The event loop and the executor.                                        *)

\* Mutant: the ids of finished hot-loads stay in the set.
Keep == pending

\* _pending_hot_loads.discard.
Discard == FALSE

Advance(from, to) ==
    /\ hot[from] > 0
    /\ hot' = [hot EXCEPT ![from] = @ - 1, ![to] = @ + 1]

\* _schedule_hot_load.
Schedule ==
    /\ ~closed
    /\ Advance("callback", "task")
    /\ UNCHANGED <<status, worker, job, memory, event, adding, pending, closed, writes, tried>>

\* _hot_load_blocking: loaded already, or opened; nothing without a completed
\* analysis.  A project that is missing or does not open leaves nothing behind, and
\* one whose program does not open stays in _projects.
HotLoadBlocking ==
    IF status.is = "complete" /\ ~loaded
    THEN loaded' \in BOOLEAN /\ project' \in BOOLEAN /\ (loaded' \/ project => project')
    ELSE UNCHANGED memory

HotLoad ==
    /\ Advance("task", "loaded")
    /\ HotLoadBlocking
    /\ tried' = TRUE
    /\ UNCHANGED <<status, worker, job, event, adding, pending, closed, writes>>

\* The finally of _async_hot_load.
EndTask ==
    /\ ~closed
    /\ Advance("loaded", "done")
    /\ pending' = Discard
    /\ UNCHANGED <<status, worker, job, memory, event, adding, closed, writes, tried>>

\* The done callback: it discards once more, whoever added the id since.
DoneCallback ==
    /\ ~closed
    /\ hot["done"] > 0
    /\ hot' = [hot EXCEPT !["done"] = @ - 1]
    /\ pending' = Discard
    /\ UNCHANGED <<status, worker, job, memory, event, adding, closed, writes, tried>>

\* A tool call reloads the program, or the eviction monitor unloads it.
LoadElsewhere ==
    /\ server = "up" /\ status.is = "complete" /\ ~loaded
    /\ loaded' = TRUE /\ project' = TRUE
    /\ UNCHANGED <<status, worker, job, watch, writes>>

UnloadElsewhere ==
    /\ loaded
    /\ loaded' = FALSE /\ project' = FALSE
    /\ UNCHANGED <<status, worker, job, watch, writes>>

\* The server shuts down.
CloseLoop ==
    /\ server = "up" /\ ~closed
    /\ closed' = TRUE
    /\ UNCHANGED <<status, worker, job, memory, event, adding, pending, hot, writes, tried>>

Next ==
    \/ \E w \in Workers :
        \/ Queue(w) \/ QueueFresh(w) \/ WriteAnalyzing(w) \/ EndAnalysis(w) \/ EndSilently(w)
        \/ Die(w)
    \/ DeleteElsewhere \/ EagerLoad
    \/ Recover \/ CheckPid \/ FindDead \/ ReadStatus \/ Mark \/ Delete
    \/ SeenAgain \/ CheckEvent \/ AddPending
    \/ Schedule \/ HotLoad \/ EndTask \/ DoneCallback
    \/ LoadElsewhere \/ UnloadElsewhere \/ CloseLoop

Spec == Init /\ [][Next]_vars

\* Each thread of the server goes on; workers, clients and the shutdown owe nothing.
Fairness ==
    /\ WF_vars(Recover) /\ WF_vars(CheckPid) /\ WF_vars(FindDead) /\ WF_vars(ReadStatus)
    /\ WF_vars(Mark)
    /\ SF_vars(CheckEvent) /\ WF_vars(AddPending)
    /\ WF_vars(Schedule) /\ WF_vars(HotLoad) /\ WF_vars(EndTask) /\ WF_vars(DoneCallback)

FairSpec == Spec /\ Fairness

-----------------------------------------------------------------------------
(* Properties.                                                             *)

\* A server that starts, or that has recovered the job, ends the status of a
\* worker that died: it does not block later loads for ever.
DeadAnalysisMarked ==
    \A w \in Workers :
        (/\ status = [is |-> "analyzing", by |-> w] /\ ~Alive(w) /\ ~closed
         /\ (server = "recover" /\ ~loaded) \/ record = [pid |-> w, active |-> TRUE])
        ~> (status # [is |-> "analyzing", by |-> w] \/ loaded \/ closed)

\* The monitor's error never replaces the completion of the worker it is about, even
\* one that finished and exited at once: it looks at the pid before the file, and a
\* process that is gone writes nothing more.
CompletionKept ==
    [][server = "mark" /\ Mark => status # [is |-> "complete", by |-> seen]]_vars

\* The id does not stay pending, where it would hide every later completion of
\* the binary, for as long as the server runs.
PendingDrains == pending ~> (~pending \/ closed)

\* An event of a completed analysis that finds no hot-load of the id pending is
\* followed by a hot-load that has it to load, unless the program is loaded, the
\* analysis withdrawn or the server ended first.  A hot-load that fails is not
\* repeated.
CompletionIsLoaded ==
    (event /\ status.is = "complete" /\ ~pending)
        ~> (tried \/ loaded \/ status.is # "complete" \/ closed)

\* What _kill_job's docstring says: it kills the active worker of the binary.
KillsOnlyWorkers ==
    [][\A w \in Workers : Delete /\ Alive(w) /\ worker'[w] = "dead" => Working(w)]_vars

\* "Worker died -- mark failed" (_recover_in_progress_jobs): recovery reads the file
\* before it looks at the pid, and a worker may complete and exit in between.
RecoveryKeepsCompletion ==
    [][server = "fail" /\ Mark => status # [is |-> "complete", by |-> seen]]_vars

\* "Worker process died unexpectedly" (_stale_job_monitor): what the error replaces
\* may be the status of a live worker that has taken over.
LiveStatusKept ==
    [][Mark => status.is = "none" \/ status.by = Nobody \/ ~Alive(status.by)]_vars

=============================================================================
