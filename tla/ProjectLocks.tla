---------------------------- MODULE ProjectLocks ----------------------------
(***************************************************************************)
(* One Ghidra project shared by several servers: its two lock files, the   *)
(* probes and removals of project_locks.py, and every operation that opens *)
(* the project, closes it or deletes its directory.                        *)
(*                                                                         *)
(* Ghidra writes <key>.lock, then locks a channel on <key>.lock~; a close  *)
(* removes the first, then gives up the second.  The channel lock is an    *)
(* fcntl record lock: it belongs to a process and an inode, never          *)
(* conflicts within its process, goes when the process ends, and also when *)
(* the process closes any other descriptor of the file.                    *)
(*                                                                         *)
(* A process runs one operation at a time, <<operation, step>>; every step *)
(* is one access to the file system, so processes meet between any two.    *)
(***************************************************************************)
EXTENDS Integers, FiniteSets

CONSTANTS Procs    \* server processes, each of which starts once

ASSUME LocksAssumption == IsFiniteSet(Procs)

VARIABLES
    dir,        \* the project is on disk
    lock_file,  \* .lock: none, or its type, channel or plain
    hold_file,  \* the inode of .lock~; 0 when it is not there
    held,       \* the inode that a process has locked; 0 for none
    project,    \* what a process has in _projects: closed, view or write
    jvm,        \* processes whose JVM has the project open for writing
    loaded,     \* processes that have the program in memory
    at,         \* the operation and the step of a process
    since,      \* history: who took the lock since the process last looked
    excused     \* history: a removal hit a lock taken since, or a process probed its own

vars == <<dir, lock_file, hold_file, held, project, jvm, loaded, at, since, excused>>

\* open and eager: _get_or_create_project_for_key, retry and again: their second
\* attempts;
\* load and reload: _load_project_into_backend with --allow-write, before and
\* after its attempt; delete, purge and drop: the removals of a project that is
\* loaded, to be imported afresh, or only on disk.
Operations == {"eager", "again", "sweep", "open", "retry", "load", "reload", "close",
               "delete", "purge", "drop"}
Steps == {"probe", "clear", "hold", "lock", "file", "channel", "release", "unlock", "rmtree"}

New == <<"new", "">>
Idle == <<"idle", "">>
Dead == <<"dead", "">>

Inodes == 0..(Cardinality(Procs) + 1)

\* Types; only a JVM that has the project open keeps the channel lock.
TypeOK ==
    /\ dir \in BOOLEAN
    /\ lock_file \in {"none", "channel", "plain"}
    /\ hold_file \in Inodes
    /\ held \in [Procs -> Inodes]
    /\ project \in [Procs -> {"closed", "view", "write"}]
    /\ \A p \in Procs : held[p] # 0 \/ project[p] = "write" => p \in jvm
    /\ jvm \subseteq Procs
    /\ loaded \subseteq {p \in Procs : project[p] # "closed"}
    /\ at \in [Procs -> {New, Idle, Dead} \union (Operations \X Steps)]
    /\ since \in [Procs -> SUBSET Procs]
    /\ excused \in BOOLEAN

\* An earlier process may have left lock files; one of another host, or from a
\* file system without channel locks, is plain.
Init ==
    /\ dir = TRUE
    /\ lock_file \in {"none", "channel", "plain"}
    /\ hold_file \in {0, 1}
    /\ held = [p \in Procs |-> 0]
    /\ project = [p \in Procs |-> "closed"]
    /\ jvm = {}
    /\ loaded = {}
    /\ at = [p \in Procs |-> New]
    /\ since = [p \in Procs |-> {}]
    /\ excused = FALSE

-----------------------------------------------------------------------------
(* Probes.                                                                 *)

\* Processes other than p that hold the lock on the inode.
Holders(p, inode) == {q \in Procs \ {p} : inode # 0 /\ held[q] = inode}

\* _channel_lock_held: the trial lock conflicts with another process only.
ChannelHeld(p) == Holders(p, hold_file) # {}

\* Mutant: without .lock there is no lock.
IgnoresLoneHold(p) == lock_file = "plain" \/ (lock_file = "channel" /\ ChannelHeld(p))

\* is_project_lock_held.
LockHeld(p) == lock_file = "plain" \/ ChannelHeld(p)

\* After the trial the descriptor is closed, which gives up a lock of its own.
LooksAt(p) ==
    /\ since' = [since EXCEPT ![p] = {}]
    /\ held' = IF held[p] = hold_file THEN [held EXCEPT ![p] = 0] ELSE held
    /\ excused' = (excused \/ (held[p] # 0 /\ held[p] = hold_file))

\* The process looked before these took the lock; what it removes now is theirs.
Hits(p) == Holders(p, hold_file) \intersect since[p] # {}

Goto(p, step) == at' = [at EXCEPT ![p] = <<@[1], step>>]
Become(p, op, step) == at' = [at EXCEPT ![p] = <<op, step>>]

\* A server that starts goes from an eager open to the sweep.
Done(p) == at' = [at EXCEPT ![p] = IF @[1] \in {"eager", "again"}
                                      THEN <<"sweep", "probe">> ELSE Idle]

Retry(p) == Become(p, IF at[p][1] = "eager" THEN "again" ELSE "retry", "file")

AtStep(p, step) == at[p] \in Operations \X {step}

\* open_project_read_only: no lock is taken.
View(p) ==
    /\ project' = [project EXCEPT ![p] = "view"]
    /\ loaded' = loaded \union {p}

-----------------------------------------------------------------------------
(* Operations begin.                                                       *)

\* serve_cmd, with or without --eager-load, then the sweep of server_lifespan,
\* which looks only at projects with a lock file.
Boot(p) ==
    /\ at[p] = New
    /\ \/ dir /\ Become(p, "eager", "file")
       \/ IF lock_file = "none" /\ hold_file = 0
          THEN at' = [at EXCEPT ![p] = Idle] ELSE Become(p, "sweep", "probe")
    /\ UNCHANGED <<dir, lock_file, hold_file, held, project, jvm, loaded, since, excused>>

\* import_binary, and a reload of the completed project under --allow-write.
BeginOpen(p) ==
    /\ at[p] = Idle /\ p \notin loaded
    /\ \/ project[p] = "closed" /\ Become(p, "open", "file")
       \/ dir /\ Become(p, "load", "probe")
    /\ UNCHANGED <<dir, lock_file, hold_file, held, project, jvm, loaded, since, excused>>

\* A reload without --allow-write.
OpenView(p) ==
    /\ at[p] = Idle /\ project[p] = "closed" /\ dir
    /\ View(p)
    /\ UNCHANGED <<dir, lock_file, hold_file, held, jvm, at, since, excused>>

\* evict, delete of a loaded program, load(fresh=True): the project is closed
\* first, but a deletion through a view probes before that.  A purge needs only the
\* project, not the program.
BeginClose(p) ==
    /\ at[p] = Idle
    /\ \E op \in {"close", "delete", "purge"} :
        /\ p \in loaded \/ (op = "purge" /\ project[p] # "closed")
        /\ Become(p, op, IF op = "delete" /\ project[p] = "view" THEN "probe" ELSE "release")
    /\ UNCHANGED <<dir, lock_file, hold_file, held, project, jvm, loaded, since, excused>>

\* delete of a program that is not loaded, and the autopurge; a purge of a project
\* that is not open.
BeginDrop(p) ==
    /\ at[p] = Idle /\ p \notin loaded /\ dir
    /\ Become(p, "drop", "probe")
    /\ UNCHANGED <<dir, lock_file, hold_file, held, project, jvm, loaded, since, excused>>

-----------------------------------------------------------------------------
(* Steps.                                                                  *)

\* Where a probe leads when the lock is held.
Refused(p) ==
    IF at[p][1] \in {"load", "reload", "eager"}
    THEN View(p) /\ Done(p)
    ELSE Done(p) /\ UNCHANGED <<project, loaded>>

\* And when it is not.
Admitted(p) ==
    /\ CASE at[p][1] \in {"sweep", "open", "eager"} -> Goto(p, "clear")
         [] at[p][1] = "load" -> Goto(p, "file")
         [] at[p][1] = "reload" -> Done(p)
         [] OTHER -> Goto(p, "rmtree")
    /\ UNCHANGED <<project, loaded>>

Probe(p) ==
    /\ AtStep(p, "probe")
    /\ IF LockHeld(p) THEN Refused(p) ELSE Admitted(p)
    /\ LooksAt(p)
    /\ UNCHANGED <<dir, lock_file, hold_file, jvm>>

\* clear_stale_lock probes again; its answer is not used by the open, which
\* retries either way.
ClearProbe(p) ==
    /\ AtStep(p, "clear")
    /\ IF LockHeld(p)
       THEN IF at[p][1] = "sweep" THEN Done(p) ELSE Retry(p)
       ELSE Goto(p, "hold")
    /\ LooksAt(p)
    /\ UNCHANGED <<dir, lock_file, hold_file, project, jvm, loaded>>

UnlinkHold(p) ==
    /\ AtStep(p, "hold")
    /\ hold_file' = 0
    /\ excused' = (excused \/ Hits(p))
    /\ Goto(p, "lock")
    /\ UNCHANGED <<dir, lock_file, held, project, jvm, loaded, since>>

UnlinkLock(p) ==
    /\ AtStep(p, "lock")
    /\ lock_file' = "none"
    /\ IF at[p][1] = "sweep" THEN Done(p) ELSE Retry(p)
    /\ UNCHANGED <<dir, hold_file, held, project, jvm, loaded, since, excused>>

\* Ghidra's attempt failed: LockException.
OpenFails(p) ==
    /\ CASE at[p][1] = "load" -> Become(p, "reload", "probe")
         [] at[p][1] \in {"open", "eager"} -> Goto(p, "probe")
         [] OTHER -> Done(p)
    /\ UNCHANGED <<dir, lock_file, hold_file, held, project, jvm, loaded, since, excused>>

\* openProject, or createProject where there is none, writes .lock; a plain one
\* of somebody else stops it, and so does a project this JVM has open.
WriteLockFile(p) ==
    /\ AtStep(p, "file")
    /\ \/ /\ lock_file = "plain" \/ p \in jvm
          /\ OpenFails(p)
       \/ /\ lock_file # "plain" /\ p \notin jvm
          /\ lock_file' = "channel" /\ dir' = TRUE
          /\ Goto(p, "channel")
          /\ UNCHANGED <<hold_file, held, project, jvm, loaded, since, excused>>

FreshInode == CHOOSE i \in Inodes \ {0} : i # hold_file /\ \A q \in Procs : held[q] # i

\* Then it locks the channel of .lock~, unless the directory is gone.  A program
\* that does not open leaves the project open, without a handle.
LockChannel(p) ==
    /\ AtStep(p, "channel")
    /\ \/ dir /\ ChannelHeld(p) /\ OpenFails(p)
       \/ ~dir /\ Done(p)
          /\ UNCHANGED <<dir, lock_file, hold_file, held, project, jvm, loaded, since, excused>>
       \/ /\ dir /\ ~ChannelHeld(p)
          /\ hold_file' = IF hold_file = 0 THEN FreshInode ELSE hold_file
          /\ held' = [held EXCEPT ![p] = hold_file']
          /\ project' = [project EXCEPT ![p] = "write"]
          /\ jvm' = jvm \union {p}
          /\ loaded' \in {loaded, loaded \union {p}}
          /\ since' = [q \in Procs |-> IF q = p THEN since[q] ELSE since[q] \union {p}]
          /\ Done(p)
          /\ UNCHANGED <<dir, lock_file, excused>>

\* project.close() of a view does nothing to the locks.
RemoveLockFile(p) ==
    /\ AtStep(p, "release")
    /\ lock_file' = IF project[p] = "write" THEN "none" ELSE lock_file
    /\ Goto(p, "unlock")
    /\ UNCHANGED <<dir, hold_file, held, project, jvm, loaded, since, excused>>

\* A deletion removes the directory right away, a purge probes for others first.
ReleaseChannel(p) ==
    /\ AtStep(p, "unlock")
    /\ IF project[p] = "write"
       THEN hold_file' = 0 /\ held' = [held EXCEPT ![p] = 0] /\ jvm' = jvm \ {p}
       ELSE UNCHANGED <<hold_file, held, jvm>>
    /\ project' = [project EXCEPT ![p] = "closed"]
    /\ loaded' = loaded \ {p}
    /\ since' = [since EXCEPT ![p] = {}]
    /\ CASE at[p][1] = "close" -> Done(p)
         [] at[p][1] = "delete" -> Goto(p, "rmtree")
         [] at[p][1] = "purge" -> Goto(p, "probe")
    /\ UNCHANGED <<dir, lock_file, excused>>

\* shutil.rmtree; a view that the deletion has open is closed before.
RemoveTree(p) ==
    /\ AtStep(p, "rmtree")
    /\ dir' = FALSE /\ lock_file' = "none" /\ hold_file' = 0
    /\ project' = IF project[p] = "view" THEN [project EXCEPT ![p] = "closed"] ELSE project
    /\ loaded' = loaded \ {p}
    /\ excused' = (excused \/ Hits(p))
    /\ Done(p)
    /\ UNCHANGED <<held, jvm, since>>

\* A process ends: the system gives up its lock, the files stay.
Crash(p) ==
    /\ at[p] \notin {New, Dead}
    /\ at' = [at EXCEPT ![p] = Dead]
    /\ held' = [held EXCEPT ![p] = 0]
    /\ jvm' = jvm \ {p}
    /\ project' = [project EXCEPT ![p] = "closed"]
    /\ loaded' = loaded \ {p}
    /\ since' = [since EXCEPT ![p] = {}]
    /\ UNCHANGED <<dir, lock_file, hold_file, excused>>

Next == \E p \in Procs :
    \/ Boot(p) \/ BeginOpen(p) \/ OpenView(p) \/ BeginClose(p) \/ BeginDrop(p)
    \/ Probe(p) \/ ClearProbe(p) \/ UnlinkHold(p) \/ UnlinkLock(p)
    \/ WriteLockFile(p) \/ LockChannel(p) \/ RemoveLockFile(p) \/ ReleaseChannel(p)
    \/ RemoveTree(p) \/ Crash(p)

Spec == Init /\ [][Next]_vars

-----------------------------------------------------------------------------
(* Properties.                                                             *)

\* At most one process has the project open for writing, and its directory is not
\* removed under it, unless a remover's probe came before the owner's lock, or a
\* process probed its own project.
SingleWriter == excused \/ (Cardinality(jvm) <= 1 /\ (jvm = {} \/ dir))

\* What server_lifespan says of its sweep: it removes no lock that a live process
\* holds, its own included.
SweepKeepsLive ==
    \A p \in Procs : at[p] = <<"sweep", "hold">> => p \notin jvm

=============================================================================
