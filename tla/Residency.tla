----------------------------- MODULE Residency -----------------------------
(***************************************************************************)
(* Which programs one server holds in memory: tool calls that find, reload *)
(* and use them, loads that import them, hot-loads of what was completed   *)
(* on disk, and the monitor that evicts the idle ones.                     *)
(*                                                                         *)
(* The actors are tool threads, the import executor and the event loop.  A *)
(* step that runs under _backend_lock needs the lock free or its own; a    *)
(* step of the loop needs the loop out of the monitor's pass, which never  *)
(* awaits.  load() and delete() of one binary do not overlap its import    *)
(* here: AnalysisJobs is about that, and about jobs that die without a     *)
(* verdict; SharedStatus is about who asks for the hot-loads.              *)
(***************************************************************************)
EXTENDS Integers, FiniteSets

CONSTANTS
    Binaries,
    Large,       \* those of 10 MB and more: analyzed by a background job
    Preloaded,   \* those the server may have in memory when it starts
    Threads,     \* tool calls in flight
    Free,        \* nobody holds _backend_lock
    MinLoaded,   \* --min-loaded
    EvictAfter,  \* --evict-after, in ticks of the clock
    MaxClock,    \* bound: ticks
    MaxPops      \* bound: deferred pops of one id armed at once

ASSUME ResidencyAssumption ==
    /\ IsFiniteSet(Binaries) /\ Binaries # {} /\ Large \subseteq Binaries
    /\ Preloaded \subseteq Binaries
    /\ Free \notin Threads
    /\ MinLoaded \in Nat /\ EvictAfter \in Nat /\ {MaxClock, MaxPops} \subseteq Nat \ {0}

VARIABLES
    programs,      \* backend.programs, by analysis id
    projects,      \* backend._projects
    ready,         \* loaded programs whose handle is flagged analyzed
    unlisted,      \* history: programs that came or stayed without a completed status
    last_access,   \* _last_access; 0 when the binary is not tracked
    evicted_ids,   \* _evicted_ids
    status,        \* "status" of .analysis_status, "none" without the file
    saved,         \* binaries whose project on disk holds the program
    work,          \* the import of a binary; inline: load()'s own call makes it
    records,       \* its record in _active_jobs: none, active or ended (terminal)
    pops,          \* deferred pops of its record that are armed
    lost,          \* history: jobs under way whose record an earlier job's pop removed
    lock,          \* _backend_lock
    call,          \* tool calls
    monitor,       \* the pass of _eviction_monitor
    clock,         \* time.monotonic
    resolved       \* history: when a tool call last resolved the loaded program

memory == <<programs, projects, ready, unlisted>>
jobs == <<work, records, pops, lost>>
access == <<last_access, evicted_ids, resolved>>
disk == <<status, saved>>
vars == <<memory, access, disk, jobs, lock, call, monitor, clock>>

\* Types; evict() can close what is loaded; only a tool thread keeps the lock.
TypeOK ==
    /\ programs \subseteq projects /\ projects \subseteq Binaries
    /\ ready \subseteq programs /\ unlisted \subseteq Binaries
    /\ last_access \in [Binaries -> 0..MaxClock]
    /\ evicted_ids \subseteq Binaries /\ saved \subseteq Binaries
    /\ status \in [Binaries -> {"none", "analyzing", "complete", "error"}]
    /\ work \in [Binaries -> {"none", "inline", "queued", "starting", "analyzing",
                              "analyzed", "failed"}]
    /\ records \in [Binaries -> {"none", "active", "ended"}]
    /\ pops \in [Binaries -> 0..MaxPops]
    /\ lost \subseteq Binaries
    /\ lock \in Threads \union {Free}
    /\ call \in [Threads -> [at : {"idle", "want", "lookup", "load", "again", "wait", "op"},
                             binary : Binaries, search : BOOLEAN, closed : BOOLEAN]]
    /\ monitor \in [at : {"sleep", "score", "next", "evict"}, ids : SUBSET Binaries,
                     score : [Binaries -> 0..MaxClock], now : 0..MaxClock,
                     chosen : SUBSET Binaries, touched : SUBSET Binaries, removed : BOOLEAN]
    /\ clock \in 1..MaxClock
    /\ resolved \in [Binaries -> 0..MaxClock]

\* The locals of a pass: ids are the candidates left, score their access times;
\* touched and removed are history: calls that resolved since the sort, deletions.
AtSleep == [at |-> "sleep", ids |-> {}, score |-> [b \in Binaries |-> 0], now |-> 0,
            chosen |-> {}, touched |-> {}, removed |-> FALSE]

NoCall == [at |-> "idle", binary |-> CHOOSE b \in Binaries : TRUE,
           search |-> FALSE, closed |-> FALSE]

\* A server may begin with programs in memory: those its command line names,
\* imported without a status, and with --eager-load those of any project.
Init ==
    /\ programs \in SUBSET Preloaded
    /\ projects = programs /\ ready = programs /\ saved = programs
    /\ status \in [Binaries -> {"none", "analyzing", "complete", "error"}]
    /\ \A b \in Binaries \ programs : status[b] = "none"
    /\ unlisted = {b \in programs : status[b] # "complete"}
    /\ evicted_ids = {}
    /\ last_access = [b \in Binaries |-> 0]
    /\ work = [b \in Binaries |-> "none"]
    /\ records = [b \in Binaries |-> "none"]
    /\ pops = [b \in Binaries |-> 0]
    /\ lost = {}
    /\ lock = Free
    /\ call = [t \in Threads |-> NoCall]
    /\ monitor = AtSleep
    /\ clock = 1
    /\ resolved = [b \in Binaries |-> 0]

-----------------------------------------------------------------------------
(* The memory of the server.                                               *)

LoopFree == monitor.at = "sleep"
LockFree == lock = Free

\* Mutant: the monitor takes no notice of the job table.
NoActiveJob(b) == FALSE

\* _active_jobs has a record of b that is queued, analyzing or running.
ActiveJob(b) == records[b] = "active"

\* Mutant: a call that finds the program in memory does not stamp it.
ForgetAccess(b) == UNCHANGED <<last_access, evicted_ids>>

\* _touch_access.
Touch(b) ==
    /\ last_access' = [last_access EXCEPT ![b] = clock]
    /\ evicted_ids' = evicted_ids \ {b}

\* The call has its handle; the history that RecentlyResolvedStays reads.
Resolve(b) ==
    /\ Touch(b)
    /\ resolved' = [resolved EXCEPT ![b] = clock]
    /\ monitor' = IF LoopFree THEN monitor ELSE [monitor EXCEPT !.touched = @ \union {b}]

\* Handles of b that a search keeps while it waits for the lock are closed.
CloseHandles(b) ==
    call' = [t \in Threads |->
        IF call[t].binary = b /\ call[t].at \in {"wait", "op"}
        THEN [call[t] EXCEPT !.closed = TRUE] ELSE call[t]]

\* _load_project_into_backend of an id that is not loaded: it needs a completed
\* analysis.  When the project is missing or does not open, nothing has changed;
\* when only the program does not open, the project stays in _projects.
LoadFromDisk(b) ==
    \/ /\ status[b] = "complete" /\ b \in saved
       /\ programs' = programs \union {b} /\ projects' = projects \union {b}
       /\ ready' = ready \union {b} /\ unlisted' = unlisted \ {b}
    \/ /\ status[b] = "complete" /\ b \in saved
       /\ projects' = projects \union {b} /\ UNCHANGED <<programs, ready, unlisted>>
    \/ UNCHANGED memory

\* _hot_load_blocking.
HotLoadBlocking(b) ==
    IF b \in programs THEN UNCHANGED memory ELSE LoadFromDisk(b)

Tick ==
    /\ clock < MaxClock
    /\ clock' = clock + 1
    /\ UNCHANGED <<memory, access, disk, jobs, lock, call, monitor>>

-----------------------------------------------------------------------------
(* load(): the analysis of a large binary is a background job; any other   *)
(* import is part of the caller's own call.  The import is under the lock, *)
(* the analysis is not.                                                    *)

\* analyze=True of a large binary: neither loaded and analyzed, nor analyzing or
\* complete on disk.
LoadJob(b) ==
    /\ LoopFree
    /\ b \in Large /\ work[b] = "none" /\ pops[b] < MaxPops
    /\ b \notin ready /\ status[b] \in {"none", "error"}
    /\ work' = [work EXCEPT ![b] = "queued"]
    /\ records' = [records EXCEPT ![b] = "active"]
    /\ UNCHANGED <<memory, access, disk, pops, lost, lock, call, monitor, clock>>

\* A small binary, or analyze=False: no record, no status, nothing looked up.
LoadInline(b) ==
    /\ LoopFree
    /\ work[b] = "none"
    /\ work' = [work EXCEPT ![b] = "inline"]
    /\ UNCHANGED <<memory, access, disk, records, pops, lost, lock, call, monitor, clock>>

\* A hot-load of a complete analysis: load()'s, or one the watcher asked for.
HotLoad(b) ==
    /\ LockFree
    /\ status[b] = "complete" /\ b \notin programs
    /\ HotLoadBlocking(b)
    /\ UNCHANGED <<access, disk, jobs, lock, call, monitor, clock>>

\* The job gets its permit and writes its first status.
BeginJob(b) ==
    /\ LoopFree
    /\ work[b] = "queued"
    /\ work' = [work EXCEPT ![b] = "starting"]
    /\ status' = [status EXCEPT ![b] = "analyzing"]
    /\ UNCHANGED <<memory, access, saved, records, pops, lost, lock, call, monitor, clock>>

\* Where an import goes on, with the flag its handle has: a job analyzes and
\* reports; load() analyzes a small binary, unless told not to, and returns.
AfterImport(b, analyzed) ==
    IF work[b] = "starting" THEN {IF analyzed THEN "analyzed" ELSE "analyzing"}
    ELSE IF analyzed \/ b \in Large THEN {"none"} ELSE {"none", "analyzing"}

\* import_binary: a program in memory is taken as it is, and one that only the
\* project holds counts as analyzed.  An import that fails leaves its project open.
Import(b) ==
    /\ LockFree
    /\ work[b] \in {"inline", "starting"}
    /\ projects' = projects \union {b}
    /\ \/ /\ programs' = programs \union {b} /\ saved' = saved \union {b}
          /\ ready' = IF b \in saved THEN ready \union ({b} \ programs) ELSE ready
          /\ unlisted' = IF work[b] = "inline" /\ status[b] # "complete"
                         THEN unlisted \union {b} ELSE unlisted
          /\ \E next \in AfterImport(b, b \in ready') : work' = [work EXCEPT ![b] = next]
       \/ /\ b \notin programs /\ UNCHANGED <<programs, saved, ready, unlisted>>
          /\ work' = [work EXCEPT ![b] = IF @ = "inline" THEN "none" ELSE "failed"]
    /\ UNCHANGED <<access, status, records, pops, lost, lock, call, monitor, clock>>

\* analyzeAll ends, off the lock; it cannot on a program that was closed.
Analyze(b) ==
    /\ work[b] = "analyzing"
    /\ \/ /\ b \in programs
          /\ ready' = ready \union {b}
          /\ work' = [work EXCEPT ![b] = IF b \in Large THEN "analyzed" ELSE "none"]
       \/ /\ UNCHANGED ready
          /\ work' = [work EXCEPT ![b] = IF b \in Large THEN "failed" ELSE "none"]
    /\ UNCHANGED <<programs, projects, unlisted, access, disk, records, pops, lost, lock, call,
                   monitor, clock>>

\* listener.complete or listener.error; reading the function count of a program
\* that was closed meanwhile raises or not.
Verdicts(b) ==
    IF work[b] = "failed" THEN {"error"}
    ELSE IF b \in programs THEN {"complete"} ELSE {"complete", "error"}

\* Mutant: the job is closed and its status left to a later write.
PublishLater(b, verdict) == UNCHANGED status

PublishStatus(b, verdict) == status' = [status EXCEPT ![b] = verdict]

\* The result of a job reaches the loop: the status, the record if it is still
\* there, and the deferred pop.
EndJob(b) ==
    /\ LoopFree
    /\ work[b] \in {"analyzed", "failed"} /\ pops[b] < MaxPops
    /\ \E verdict \in Verdicts(b) :
        /\ PublishStatus(b, verdict)
        /\ unlisted' = IF verdict = "error" THEN unlisted \union {b} ELSE unlisted \ {b}
    /\ work' = [work EXCEPT ![b] = "none"]
    /\ records' = [records EXCEPT ![b] = IF @ = "active" THEN "ended" ELSE @]
    /\ pops' = [pops EXCEPT ![b] = @ + 1]
    /\ lost' = lost \ {b}
    /\ UNCHANGED <<programs, projects, ready, access, saved, lock, call, monitor, clock>>

\* call_later(300, _active_jobs.pop, id): whatever record the id has by then.
PopRecord(b) ==
    /\ LoopFree
    /\ pops[b] > 0
    /\ pops' = [pops EXCEPT ![b] = @ - 1]
    /\ records' = [records EXCEPT ![b] = "none"]
    /\ lost' = IF records[b] = "active" THEN lost \union {b} ELSE lost
    /\ UNCHANGED <<memory, access, disk, work, lock, call, monitor, clock>>

\* delete() of a loaded binary, or of a completed one on disk, with its record; the
\* access time and the mark of an eviction stay.
Delete(b) ==
    /\ LockFree
    /\ work[b] = "none"
    /\ b \in programs \/ (status[b] = "complete" /\ b \in saved)
    /\ programs' = programs \ {b} /\ ready' = ready \ {b}
    /\ projects' = IF b \in programs THEN projects \ {b} ELSE projects
    /\ saved' = saved \ {b} /\ unlisted' = unlisted \ {b}
    /\ status' = [status EXCEPT ![b] = "none"]
    /\ records' = [records EXCEPT ![b] = "none"]
    /\ CloseHandles(b)
    /\ monitor' = IF LoopFree THEN monitor ELSE [monitor EXCEPT !.removed = TRUE]
    /\ UNCHANGED <<access, work, pops, lost, lock, clock>>

-----------------------------------------------------------------------------
(* Tool calls.  All but search hold the lock from the lookup to the end;   *)
(* search looks its handle up without it and takes it for the work.        *)

HasLock(t) == lock = IF call[t].search THEN Free ELSE t

Call(t) ==
    /\ call[t].at = "idle"
    /\ \E b \in Binaries, s \in BOOLEAN :
        call' = [call EXCEPT ![t] = [at |-> IF s THEN "lookup" ELSE "want",
                                     binary |-> b, search |-> s, closed |-> FALSE]]
    /\ UNCHANGED <<memory, access, disk, jobs, lock, monitor, clock>>

\* "with _backend_lock" of _with_handle and of _locked_tools.
TakeLock(t) ==
    /\ LockFree
    /\ call[t].at \in {"want", "wait"}
    /\ lock' = t
    /\ call' = [call EXCEPT ![t].at = IF @ = "want" THEN "lookup" ELSE "op"]
    /\ UNCHANGED <<memory, access, disk, jobs, monitor, clock>>

\* The call ends with an error.
Fail(t) ==
    /\ call' = [call EXCEPT ![t] = NoCall]
    /\ lock' = IF lock = t THEN Free ELSE lock

\* _get_handle up to the reload: in memory, else completed on disk, else an error.
Lookup(t) ==
    LET b == call[t].binary IN
    /\ call[t].at = "lookup"
    /\ \/ /\ b \in programs
          /\ Resolve(b)
          /\ call' = [call EXCEPT ![t].at = IF call[t].search THEN "wait" ELSE "op"]
          /\ UNCHANGED lock
       \/ /\ b \notin programs
          /\ IF status[b] = "complete"
             THEN call' = [call EXCEPT ![t].at = "load"] /\ UNCHANGED lock
             ELSE Fail(t)
          /\ UNCHANGED <<access, monitor>>
    /\ UNCHANGED <<memory, disk, jobs, clock>>

\* The reload, in the lock that the call has or takes for it.
Reload(t) ==
    /\ call[t].at = "load" /\ HasLock(t)
    /\ HotLoadBlocking(call[t].binary)
    /\ call' = [call EXCEPT ![t].at = "again"]
    /\ UNCHANGED <<access, disk, jobs, lock, monitor, clock>>

\* The handle is looked up again after the reload.
LookupAgain(t) ==
    LET b == call[t].binary IN
    /\ call[t].at = "again"
    /\ \/ /\ b \in programs
          /\ Resolve(b)
          /\ call' = [call EXCEPT ![t].at = IF call[t].search THEN "wait" ELSE "op"]
          /\ UNCHANGED lock
       \/ /\ b \notin programs
          /\ Fail(t)
          /\ UNCHANGED <<access, monitor>>
    /\ UNCHANGED <<memory, disk, jobs, clock>>

\* The work on the program ends.
Finish(t) ==
    /\ call[t].at = "op"
    /\ Fail(t)
    /\ UNCHANGED <<memory, access, disk, jobs, monitor, clock>>

\* Another server, or import_cmd, completes an analysis in the shared directory.
ForeignComplete(b) ==
    /\ work[b] = "none" /\ b \notin saved /\ status[b] = "none"
    /\ saved' = saved \union {b}
    /\ status' = [status EXCEPT ![b] = "complete"]
    /\ UNCHANGED <<memory, access, jobs, lock, call, monitor, clock>>

-----------------------------------------------------------------------------
(* The eviction monitor: a pass on the loop, between two sleeps.           *)

\* The ids loaded, under the lock; a pass goes on only with more than MinLoaded.
Snapshot ==
    /\ monitor.at = "sleep" /\ LockFree
    /\ Cardinality(programs) > MinLoaded
    /\ monitor' = [monitor EXCEPT !.at = "score", !.ids = programs]
    /\ UNCHANGED <<memory, access, disk, jobs, lock, call, clock>>

\* Mutant: one binary too few is protected.
KeptTooFew == IF MinLoaded = 0 THEN 0 ELSE MinLoaded - 1

\* The size of the prefix that scored[min_loaded:] leaves out.
Protected == MinLoaded

\* Sorted by last access; the most recent ones are left out.
Score ==
    /\ monitor.at = "score"
    /\ \E keep \in SUBSET monitor.ids :
        /\ Cardinality(keep) = Protected
        /\ \A k \in keep, c \in monitor.ids \ keep : last_access[k] >= last_access[c]
        /\ monitor' = [monitor EXCEPT !.at = "next", !.ids = @ \ keep, !.now = clock,
                                      !.score = [b \in Binaries |-> IF b \in monitor.ids
                                                                    THEN last_access[b] ELSE 0],
                                      !.touched = {}]
    /\ UNCHANGED <<memory, access, disk, jobs, lock, call, clock>>

Idle(b) == monitor.now - monitor.score[b] >= EvictAfter

\* The next candidate, most recent first: skipped when used lately or under a job.
NextCandidate(b) ==
    /\ monitor.at = "next" /\ b \in monitor.ids
    /\ \A c \in monitor.ids : monitor.score[b] >= monitor.score[c]
    /\ monitor' = IF Idle(b) /\ ~ActiveJob(b)
                  THEN [monitor EXCEPT !.at = "evict", !.chosen = {b}]
                  ELSE [monitor EXCEPT !.ids = @ \ {b}]
    /\ UNCHANGED <<memory, access, disk, jobs, lock, call, clock>>

\* Mutant: the monitor evicts without the lock.
NoLock == TRUE

\* The monitor's "with _backend_lock" around evict().
EvictLock == LockFree

\* evict() of it, under the lock, and its marks.
Evict(b) ==
    /\ monitor.at = "evict" /\ b \in monitor.chosen /\ EvictLock
    /\ monitor' = [monitor EXCEPT !.at = "next", !.ids = @ \ {b}, !.chosen = {}]
    /\ IF b \in programs
       THEN /\ programs' = programs \ {b} /\ projects' = projects \ {b}
            /\ ready' = ready \ {b} /\ UNCHANGED unlisted
            /\ CloseHandles(b)
            /\ last_access' = [last_access EXCEPT ![b] = 0]
            /\ resolved' = [resolved EXCEPT ![b] = 0]
            /\ evicted_ids' = evicted_ids \union {b}
       ELSE UNCHANGED <<memory, call, access>>
    /\ UNCHANGED <<disk, jobs, lock, clock>>

Sleep ==
    /\ monitor.at = "next" /\ monitor.ids = {}
    /\ monitor' = AtSleep
    /\ UNCHANGED <<memory, access, disk, jobs, lock, call, clock>>

-----------------------------------------------------------------------------
Pass == Snapshot \/ Score \/ (\E b \in Binaries : NextCandidate(b) \/ Evict(b)) \/ Sleep

\* What a tool thread does once its call has begun.
Proceed(t) == TakeLock(t) \/ Lookup(t) \/ Reload(t) \/ LookupAgain(t) \/ Finish(t)

Next ==
    \/ Tick
    \/ \E b \in Binaries :
        \/ LoadJob(b) \/ LoadInline(b) \/ HotLoad(b) \/ BeginJob(b) \/ Import(b)
        \/ Analyze(b) \/ EndJob(b) \/ PopRecord(b) \/ Delete(b) \/ ForeignComplete(b)
    \/ \E t \in Threads : Call(t) \/ Proceed(t)
    \/ Pass

Spec == Init /\ [][Next]_vars

-----------------------------------------------------------------------------
(* Properties.                                                             *)

\* A call that holds the lock works on an open program from its lookup to its
\* end: neither the monitor nor a deletion can close it, and a reload in the
\* call is found by its second lookup.
CallsKeepTheirProgram ==
    \A t \in Threads : call[t].at = "op" /\ ~call[t].search =>
                         ~call[t].closed /\ call[t].binary \in programs

\* The monitor closes b.
Evicts(b) == monitor.at = "evict" /\ monitor'.at = "next" /\ b \in programs \ programs'

\* An eviction leaves MinLoaded programs, although the pass works on a list read
\* earlier, unless a deletion intervened.
EvictionKeepsMin ==
    [][\A b \in Binaries : Evicts(b) =>
            Cardinality(programs') >= MinLoaded \/ monitor.removed]_vars

\* A program that a call resolved less than EvictAfter ago is closed only when
\* the call came after the pass had sorted the binaries.
RecentlyResolvedStays ==
    [][\A b \in Binaries : Evicts(b) =>
            resolved[b] + EvictAfter <= clock \/ b \in monitor.touched]_vars

\* The monitor trusts the job table: it closes the program of a job while its
\* analysis runs off the lock only when the deferred pop of an earlier job has
\* removed the record of this one, although the table and the program are under two
\* locks.  A small binary has no record, and its analysis no such protection.
AnalysisKeepsProgram ==
    [][\A b \in Large : Evicts(b) /\ work[b] = "analyzing" => b \in lost]_vars

\* What "Don't evict binaries with active analysis jobs" says (_eviction_monitor); it
\* does not hold once the record is lost.
JobKeepsProgram ==
    [][\A b \in Large : Evicts(b) => work[b] # "analyzing"]_vars

\* The next call can reload b: _find_on_disk passes over a status that is missing
\* or an error, and _get_handle then knows no such binary.
Reloads(b) == b \in saved /\ work[b] = "none" => status[b] = "complete"

\* What the docstring of _eviction_monitor says of every binary.
EvictedReloads == \A b \in evicted_ids \ programs : Reloads(b)

\* It holds of a program that a job has analyzed, or that was loaded from a
\* complete analysis: no eviction, failure or delete comes between it and its
\* status.  Left out are those imported by load() itself or at the start without a
\* complete status beside them, and those whose last job failed.
ListedEvictedReloads == \A b \in evicted_ids \ (programs \union unlisted) : Reloads(b)

=============================================================================
