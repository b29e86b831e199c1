----------------------------- MODULE Autostart -----------------------------
(***************************************************************************)
(* Stdio proxies that bring up the shared HTTP backend of one port, the    *)
(* servers they spawn, the pid file and "pyghidra-lite stop".  Every actor *)
(* is a process of its own; they meet in the start lock (flock), the port, *)
(* the pid file and signals.                                               *)
(*                                                                         *)
(* A proxy spawns at most one server in its life, so a server has the name *)
(* of its proxy.  A health check may fail although a server listens (its   *)
(* event loop is busy); it never succeeds without one.  Deadlines may pass *)
(* at any moment.                                                          *)
(***************************************************************************)
EXTENDS Integers, FiniteSets

CONSTANTS
    Proxies,    \* proxy processes, each with the server it may spawn
    Nobody,     \* no holder, no pid file
    MaxStops    \* bound: runs of "pyghidra-lite stop"

ASSUME AutostartAssumption == Nobody \notin Proxies /\ MaxStops \in Nat

VARIABLES
    proxy,      \* where run_proxy stands
    lock,       \* who holds the flock on backend-<port>.lock
    server,     \* what the process spawned by a proxy is doing
    pid_file,   \* whose pid backend-<port>.pid holds
    stop,       \* where stop_backend stands, and the server it read
    stops,      \* history: runs of stop so far
    lapsed      \* history: a proxy went on without the lock, or left a server booting

vars == <<proxy, lock, server, pid_file, stop, stops, lapsed>>

ProxyState == {"new", "want_lock", "lock_wait", "recheck", "gate", "port_wait",
               "read_pid", "unlink", "spawn", "spawned", "polling", "kill",
               "remove_pid", "connected", "failed", "gone"}

\* booting: up to its own _write_pid; ready: up to the bind; draining: the
\* listener is closed, connections are not; ending: in the finally of serve_cmd.
ServerState == {"none", "booting", "ready", "bound", "draining", "ending", "dead"}

Settled == {"connected", "failed", "gone"}

\* Types; and the start lock is held only by a proxy inside _autostart_backend.
TypeOK ==
    /\ proxy \in [Proxies -> ProxyState]
    /\ lock \in Proxies \union {Nobody}
    /\ \A p \in Proxies : lock = p => proxy[p] \notin Settled \union {"new"}
    /\ server \in [Proxies -> ServerState]
    /\ pid_file \in Proxies \union {Nobody}
    /\ stop \in [at : {"idle", "unlink", "found", "wait", "remove", "forget", "stopped"},
                 target : Proxies \union {Nobody}]
    /\ stops \in 0..MaxStops
    /\ lapsed \in BOOLEAN

Init ==
    /\ proxy = [p \in Proxies |-> "new"]
    /\ lock = Nobody
    /\ server = [p \in Proxies |-> "none"]
    /\ pid_file = Nobody
    /\ stop = [at |-> "idle", target |-> Nobody]
    /\ stops = 0
    /\ lapsed = FALSE

-----------------------------------------------------------------------------
(* What a process can observe of the others.                               *)

Starting(s) == server[s] \in {"booting", "ready"}
Bound == {s \in Proxies : server[s] = "bound"}

\* A GET of the backend's URL can be answered (_is_backend_alive).
MayAnswer == Bound # {}

\* Mutant: the port is taken to be free whenever the health check failed.
PortLooksFree == TRUE

\* connect() is refused: nothing listens (_port_is_free).
PortIsFree == Bound = {}

\* os.kill(pid, 0).
PidAlive(s) == server[s] \notin {"none", "dead"}

\* The lock goes when the file is closed: on return, exit or death.
Released(p) == IF lock = p THEN Nobody ELSE lock

Goes(p, from, to) == proxy[p] = from /\ proxy' = [proxy EXCEPT ![p] = to]
Serves(s, from, to) == server[s] = from /\ server' = [server EXCEPT ![s] = to]

-----------------------------------------------------------------------------
(* run_proxy and _autostart_backend.                                       *)

\* The first health check; with auto-start disabled a dead backend is an error.
Start(p) ==
    /\ \/ MayAnswer /\ Goes(p, "new", "connected")
       \/ Goes(p, "new", "want_lock")
       \/ Goes(p, "new", "failed")
    /\ UNCHANGED <<lock, server, pid_file, stop, stops, lapsed>>

HoldsLock(p) == lock \in {p, Nobody}

TryLock(p) ==
    /\ IF HoldsLock(p)
       THEN Goes(p, "want_lock", "recheck") /\ lock' = p
       ELSE Goes(p, "want_lock", "lock_wait") /\ UNCHANGED lock
    /\ UNCHANGED <<server, pid_file, stop, stops, lapsed>>

\* Poll for the backend that the holder of the lock is starting.
LockWaitAnswered(p) ==
    /\ MayAnswer
    /\ Goes(p, "lock_wait", "connected")
    /\ UNCHANGED <<lock, server, pid_file, stop, stops, lapsed>>

\* The deadline passed: go on without the lock.
LockWaitEnds(p) ==
    /\ Goes(p, "lock_wait", "recheck")
    /\ lapsed' = TRUE
    /\ UNCHANGED <<lock, server, pid_file, stop, stops>>

\* The second health check.
Recheck(p) ==
    /\ \/ MayAnswer /\ Goes(p, "recheck", "connected") /\ lock' = Released(p)
       \/ Goes(p, "recheck", "gate") /\ UNCHANGED lock
    /\ UNCHANGED <<server, pid_file, stop, stops, lapsed>>

\* Only a port that refuses connections is worth a new server.
Gate(p) ==
    /\ Goes(p, "gate", IF PortIsFree THEN "read_pid" ELSE "port_wait")
    /\ UNCHANGED <<lock, server, pid_file, stop, stops, lapsed>>

\* Mutant: no deadline for a busy backend.
PortWaitForAnswer(p) ==
    /\ MayAnswer
    /\ Goes(p, "port_wait", "connected")
    /\ lock' = Released(p)
    /\ UNCHANGED <<server, pid_file, stop, stops, lapsed>>

\* Wait for the busy backend; on the deadline use it all the same.
PortWait(p) ==
    /\ Goes(p, "port_wait", "connected")
    /\ lock' = Released(p)
    /\ UNCHANGED <<server, pid_file, stop, stops, lapsed>>

\* _read_pid "cleans stale PID entries": it reads, probes, and then unlinks.
ReadPid(p) ==
    /\ Goes(p, "read_pid",
            IF pid_file = Nobody \/ PidAlive(pid_file) THEN "spawn" ELSE "unlink")
    /\ UNCHANGED <<lock, server, pid_file, stop, stops, lapsed>>

UnlinkPid(p) ==
    /\ Goes(p, "unlink", "spawn")
    /\ pid_file' = Nobody
    /\ UNCHANGED <<lock, server, stop, stops, lapsed>>

Spawn(p) ==
    /\ Goes(p, "spawn", "spawned")
    /\ Serves(p, "none", "booting")
    /\ UNCHANGED <<lock, pid_file, stop, stops, lapsed>>

WriteChildPid(p) ==
    /\ Goes(p, "spawned", "polling")
    /\ pid_file' = p
    /\ UNCHANGED <<lock, server, stop, stops, lapsed>>

\* Some backend answers: not necessarily the one just spawned.
PollAnswered(p) ==
    /\ MayAnswer
    /\ Goes(p, "polling", "connected")
    /\ lock' = Released(p)
    /\ UNCHANGED <<server, pid_file, stop, stops, lapsed>>

PollEnds(p) ==
    /\ Goes(p, "polling", "kill")
    /\ UNCHANGED <<lock, server, pid_file, stop, stops, lapsed>>

\* Mutant: the pid file is removed, the child is not waited for.
LeftAlone(p) == server

\* proc.kill() and proc.wait().
ChildKilled(p) == [server EXCEPT ![p] = "dead"]

KillChild(p) ==
    /\ Goes(p, "kill", "remove_pid")
    /\ server' = ChildKilled(p)
    /\ UNCHANGED <<lock, pid_file, stop, stops, lapsed>>

\* _remove_pid and sys.exit(1).
GiveUp(p) ==
    /\ Goes(p, "remove_pid", "failed")
    /\ pid_file' = Nobody
    /\ lock' = Released(p)
    /\ UNCHANGED <<server, stop, stops, lapsed>>

\* The client ends the proxy while it starts the backend.
ProxyDies(p) ==
    /\ proxy[p] \notin Settled \union {"new"}
    /\ proxy' = [proxy EXCEPT ![p] = "gone"]
    /\ lock' = Released(p)
    /\ lapsed' = (lapsed \/ Starting(p))
    /\ UNCHANGED <<server, pid_file, stop, stops>>

-----------------------------------------------------------------------------
(* serve_cmd of a spawned server.                                          *)

\* Prerequisites, JVM, eager loads, then _write_pid(port, os.getpid()).
Boot(s) ==
    /\ Serves(s, "booting", "ready")
    /\ pid_file' = s
    /\ UNCHANGED <<proxy, lock, stop, stops, lapsed>>

\* Mutant: a server whose port is taken tries to bind for ever.
AfterBind == IF Bound = {} THEN "bound" ELSE "ready"

\* The operating system gives the port to one listener; uvicorn exits without it.
BindOutcome == IF Bound = {} THEN "bound" ELSE "ending"

Bind(s) ==
    /\ Serves(s, "ready", BindOutcome)
    /\ UNCHANGED <<proxy, lock, pid_file, stop, stops, lapsed>>

\* limit_max_requests is reached: the listener is closed first.
Retire(s) ==
    /\ Serves(s, "bound", "draining")
    /\ UNCHANGED <<proxy, lock, pid_file, stop, stops, lapsed>>

\* The last connection is gone; a signal that was caught is raised again.
Drained(s) ==
    /\ Serves(s, "draining", "ending") \/ Serves(s, "draining", "dead")
    /\ UNCHANGED <<proxy, lock, pid_file, stop, stops, lapsed>>

\* The finally of serve_cmd: _remove_pid(port), whoever wrote it, and the end.
Leave(s) ==
    /\ Serves(s, "ending", "dead")
    /\ pid_file' = Nobody
    /\ UNCHANGED <<proxy, lock, stop, stops, lapsed>>

\* A failed prerequisite, a crash of the JVM, an out-of-memory kill.
ServerDies(s) ==
    /\ PidAlive(s)
    /\ server' = [server EXCEPT ![s] = "dead"]
    /\ UNCHANGED <<proxy, lock, pid_file, stop, stops, lapsed>>

-----------------------------------------------------------------------------
(* stop_backend.                                                           *)

StopGoes(from, to) == stop.at = from /\ stop' = [stop EXCEPT !.at = to]

StopRead ==
    /\ stop.at \in {"idle", "stopped"}
    /\ stops < MaxStops
    /\ stops' = stops + 1
    /\ stop' = [at |-> IF pid_file = Nobody THEN "idle"
                       ELSE IF PidAlive(pid_file) THEN "found" ELSE "unlink",
                target |-> pid_file]
    /\ UNCHANGED <<proxy, lock, server, pid_file, lapsed>>

\* SIGTERM: Python's default action until uvicorn has its handlers in place.
Terminated(s) ==
    IF server[s] = "bound" THEN {"draining"}
    ELSE IF server[s] = "draining" THEN {"draining"}
    ELSE IF server[s] = "ending" THEN {"ending", "dead"}
    ELSE {"dead"}

StopTerminate ==
    /\ stop.at = "found"
    /\ IF PidAlive(stop.target)
       THEN /\ StopGoes("found", "wait")
            /\ \E next \in Terminated(stop.target) :
                  server' = [server EXCEPT ![stop.target] = next]
       ELSE StopGoes("found", "forget") /\ UNCHANGED server
    /\ UNCHANGED <<proxy, lock, pid_file, stops, lapsed>>

\* One of the twenty polls finds the process gone.
StopSeesDead ==
    /\ StopGoes("wait", "remove")
    /\ ~PidAlive(stop.target)
    /\ UNCHANGED <<proxy, lock, server, pid_file, stops, lapsed>>

\* Mutant: SIGTERM again where SIGKILL is due.
Reminded(s) == server

Killed(s) == [server EXCEPT ![s] = "dead"]

\* After five seconds: SIGKILL.
StopKill ==
    /\ StopGoes("wait", "remove")
    /\ PidAlive(stop.target)
    /\ server' = Killed(stop.target)
    /\ UNCHANGED <<proxy, lock, pid_file, stops, lapsed>>

\* The three ways to remove the pid file: stale, stopped (True), vanished (False).
StopRemove ==
    /\ \/ StopGoes("unlink", "idle")
       \/ StopGoes("remove", "stopped")
       \/ StopGoes("forget", "idle")
    /\ pid_file' = Nobody
    /\ UNCHANGED <<proxy, lock, server, stops, lapsed>>

-----------------------------------------------------------------------------
ProxyStep(p) ==
    \/ Start(p) \/ TryLock(p) \/ LockWaitAnswered(p) \/ LockWaitEnds(p)
    \/ Recheck(p) \/ Gate(p) \/ PortWait(p) \/ ReadPid(p) \/ UnlinkPid(p)
    \/ Spawn(p) \/ WriteChildPid(p) \/ PollAnswered(p) \/ PollEnds(p)
    \/ KillChild(p) \/ GiveUp(p)

\* What a server does on its own account and without a peer.
ServerStep(s) == Boot(s) \/ Bind(s) \/ Leave(s)

StopStep == StopTerminate \/ StopSeesDead \/ StopKill \/ StopRemove

Next ==
    \/ \E p \in Proxies : ProxyStep(p) \/ ProxyDies(p)
    \/ \E s \in Proxies : ServerStep(s) \/ Retire(s) \/ Drained(s) \/ ServerDies(s)
    \/ StopRead \/ StopStep

Spec == Init /\ [][Next]_vars

\* Processes are scheduled and their deadlines pass.  Connections of a draining
\* server need not end, and nobody has to call stop.
Fairness ==
    /\ \A p \in Proxies : WF_vars(ProxyStep(p)) /\ WF_vars(ServerStep(p))
    /\ WF_vars(StopStep)

FairSpec == Spec /\ Fairness

-----------------------------------------------------------------------------
(* Safety.                                                                 *)

\* As long as no waiter's deadline passed and no proxy left a booting server
\* behind, the start lock and the port gate together keep the number of servers
\* that boot or listen at one, through busy backends, stops, crashes and retiring
\* servers (_autostart_backend).
Up == {s \in Proxies : server[s] \in {"booting", "ready", "bound"}}

OneStart == ~lapsed => Cardinality(Up) <= 1

\* A proxy that gives up leaves nothing behind: its child is dead and the pid file
\* does not name it, though the child writes that file on its own account.
FailedStartLeavesNothing ==
    \A p \in Proxies : proxy[p] = "failed" => /\ server[p] \in {"none", "dead"}
                                              /\ pid_file # p

\* "Returns True if stopped": the process that the pid file named is dead, also
\* when it drained its connections for longer than stop waits.
StopHolds == stop.at = "stopped" => server[stop.target] = "dead"

(* Liveness, under Fairness.                                               *)

\* Every proxy ends up bridging or exits, whatever the others hold or start.
ProxiesSettle ==
    \A p \in Proxies : proxy[p] # "new" ~> proxy[p] \in Settled

\* No server process stays that neither serves nor ends: one that lost the race
\* for the port leaves ("leaving an orphaned serve").
ServersSettle ==
    \A s \in Proxies : []<>(server[s] \notin {"booting", "ready", "ending"})

-----------------------------------------------------------------------------
(* What the repository says of this code, and what it does not do.         *)

\* "Other starter didn't finish in time -- fall through and try ourselves; the
\* port-availability gate below prevents a duplicate": two servers never boot or
\* listen at once, as long as no proxy was ended by its client.
NoDuplicate == (\A p \in Proxies : proxy[p] # "gone") => Cardinality(Up) <= 1
=============================================================================
