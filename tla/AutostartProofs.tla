-------------------------- MODULE AutostartProofs --------------------------
(***************************************************************************)
(* Start, failure and stop of the shared backend, for any number of        *)
(* proxies and stops.                                                      *)
(***************************************************************************)
EXTENDS Autostart, FiniteSetTheorems, TLAPS

\* A server runs only after its proxy has spawned it; the pid file names no process
\* that was not spawned, and none whose proxy has given up.
ChildFollows ==
    \A p \in Proxies :
        /\ proxy[p] \in {"new", "want_lock", "lock_wait", "recheck", "gate", "port_wait",
                         "read_pid", "unlink", "spawn"} => server[p] = "none"
        /\ proxy[p] \in {"remove_pid", "failed"} => server[p] \in {"none", "dead"}
        /\ proxy[p] = "spawned" => server[p] # "none"
        /\ server[p] = "none" => pid_file # p

\* A proxy that wants the lock, or waits for its holder, has not got it.
LockLater == \A p \in Proxies : proxy[p] \in {"want_lock", "lock_wait"} => lock # p

\* stop has a target while it is at work, and is done with it only when that is dead.
StopOnTarget ==
    /\ stop.at # "idle" => stop.target \in Proxies /\ server[stop.target] # "none"
    /\ stop.at \in {"remove", "stopped"} => server[stop.target] = "dead"

\* The proxies between the second health check and the end of the start.
Inside == {"recheck", "gate", "port_wait", "read_pid", "unlink", "spawn", "spawned", "polling",
           "kill", "remove_pid"}

\* Until a proxy passes the lock by or leaves a booting server: a proxy inside holds
\* the lock, a server that boots has its proxy inside, nothing is up where a proxy
\* is about to spawn, and there is one server at most.
OneAtATime ==
    ~lapsed =>
        /\ \A p \in Proxies : proxy[p] \in Inside => lock = p
        /\ \A s \in Proxies : Starting(s) => proxy[s] \in {"spawned", "polling", "kill"}
        /\ \A p \in Proxies : proxy[p] \in {"read_pid", "unlink", "spawn"} => Up = {}
        /\ \A s, t \in Up : s = t

Good == TypeOK /\ LockLater /\ ChildFollows /\ FailedStartLeavesNothing /\ StopOnTarget /\ OneAtATime

\* Every step keeps the types.
LEMMA TypesKept ==
    ASSUME TypeOK, LockLater, Next PROVE TypeOK' /\ LockLater'
<1> USE AutostartAssumption DEF TypeOK, LockLater, ProxyState, ServerState, Settled
<1>1. ASSUME NEW p \in Proxies, Start(p) PROVE TypeOK' /\ LockLater'
  BY <1>1 DEF Start, Goes, MayAnswer
<1>2. ASSUME NEW p \in Proxies, TryLock(p) PROVE TypeOK' /\ LockLater'
  BY <1>2 DEF TryLock, Goes, HoldsLock
<1>3. ASSUME NEW p \in Proxies, LockWaitAnswered(p) PROVE TypeOK' /\ LockLater'
  BY <1>3 DEF LockWaitAnswered, Goes, MayAnswer
<1>4. ASSUME NEW p \in Proxies, LockWaitEnds(p) PROVE TypeOK' /\ LockLater'
  BY <1>4 DEF LockWaitEnds, Goes
<1>5. ASSUME NEW p \in Proxies, Recheck(p) PROVE TypeOK' /\ LockLater'
  BY <1>5 DEF Recheck, Goes, MayAnswer, Released
<1>6. ASSUME NEW p \in Proxies, Gate(p) PROVE TypeOK' /\ LockLater'
  BY <1>6 DEF Gate, Goes, PortIsFree
<1>7. ASSUME NEW p \in Proxies, PortWait(p) PROVE TypeOK' /\ LockLater'
  BY <1>7 DEF PortWait, Goes, Released
<1>8. ASSUME NEW p \in Proxies, ReadPid(p) PROVE TypeOK' /\ LockLater'
  BY <1>8 DEF ReadPid, Goes, PidAlive
<1>9. ASSUME NEW p \in Proxies, UnlinkPid(p) PROVE TypeOK' /\ LockLater'
  BY <1>9 DEF UnlinkPid, Goes
<1>10. ASSUME NEW p \in Proxies, Spawn(p) PROVE TypeOK' /\ LockLater'
  BY <1>10 DEF Spawn, Goes, Serves
<1>11. ASSUME NEW p \in Proxies, WriteChildPid(p) PROVE TypeOK' /\ LockLater'
  BY <1>11 DEF WriteChildPid, Goes
<1>12. ASSUME NEW p \in Proxies, PollAnswered(p) PROVE TypeOK' /\ LockLater'
  BY <1>12 DEF PollAnswered, Goes, MayAnswer, Released
<1>13. ASSUME NEW p \in Proxies, PollEnds(p) PROVE TypeOK' /\ LockLater'
  BY <1>13 DEF PollEnds, Goes
<1>14. ASSUME NEW p \in Proxies, KillChild(p) PROVE TypeOK' /\ LockLater'
  BY <1>14 DEF KillChild, Goes, ChildKilled
<1>15. ASSUME NEW p \in Proxies, GiveUp(p) PROVE TypeOK' /\ LockLater'
  BY <1>15 DEF GiveUp, Goes, Released
<1>16. ASSUME NEW p \in Proxies, ProxyDies(p) PROVE TypeOK' /\ LockLater'
  BY <1>16 DEF ProxyDies, Settled, Released, Starting
<1>17. ASSUME NEW s \in Proxies, Boot(s) PROVE TypeOK' /\ LockLater'
  BY <1>17 DEF Boot, Serves
<1>18. ASSUME NEW s \in Proxies, Bind(s) PROVE TypeOK' /\ LockLater'
  BY <1>18 DEF Bind, Serves, BindOutcome
<1>19. ASSUME NEW s \in Proxies, Retire(s) PROVE TypeOK' /\ LockLater'
  BY <1>19 DEF Retire, Serves
<1>20. ASSUME NEW s \in Proxies, Drained(s) PROVE TypeOK' /\ LockLater'
  BY <1>20 DEF Drained, Serves
<1>21. ASSUME NEW s \in Proxies, Leave(s) PROVE TypeOK' /\ LockLater'
  BY <1>21 DEF Leave, Serves
<1>22. ASSUME NEW s \in Proxies, ServerDies(s) PROVE TypeOK' /\ LockLater'
  BY <1>22 DEF ServerDies, PidAlive
<1>23. ASSUME StopRead PROVE TypeOK' /\ LockLater'
  BY <1>23 DEF StopRead, PidAlive
<1>24. ASSUME StopTerminate PROVE TypeOK' /\ LockLater'
  BY <1>24 DEF StopTerminate, StopGoes, PidAlive, Terminated
<1>25. ASSUME StopSeesDead PROVE TypeOK' /\ LockLater'
  BY <1>25 DEF StopSeesDead, StopGoes, PidAlive
<1>26. ASSUME StopKill PROVE TypeOK' /\ LockLater'
  BY <1>26 DEF StopKill, StopGoes, PidAlive, Killed
<1>27. ASSUME StopRemove PROVE TypeOK' /\ LockLater'
  BY <1>27 DEF StopRemove, StopGoes
<1> QED BY <1>1, <1>2, <1>3, <1>4, <1>5, <1>6, <1>7, <1>8, <1>9, <1>10, <1>11, <1>12, <1>13, <1>14,
           <1>15, <1>16, <1>17, <1>18, <1>19, <1>20, <1>21, <1>22, <1>23, <1>24,
           <1>25, <1>26, <1>27 DEF Next, ProxyStep, ServerStep, StopStep

\* A proxy gives up after its child is dead, and the file names it no more.
LEMMA ChildKept ==
    ASSUME Good, Next PROVE ChildFollows' /\ FailedStartLeavesNothing'
<1> USE AutostartAssumption DEF Good, TypeOK, ChildFollows, FailedStartLeavesNothing
<1>1. ASSUME NEW p \in Proxies, Start(p) PROVE ChildFollows' /\ FailedStartLeavesNothing'
  BY <1>1 DEF Start, Goes, MayAnswer
<1>2. ASSUME NEW p \in Proxies, TryLock(p) PROVE ChildFollows' /\ FailedStartLeavesNothing'
  BY <1>2 DEF TryLock, Goes, HoldsLock
<1>3. ASSUME NEW p \in Proxies, LockWaitAnswered(p) PROVE ChildFollows' /\ FailedStartLeavesNothing'
  BY <1>3 DEF LockWaitAnswered, Goes, MayAnswer
<1>4. ASSUME NEW p \in Proxies, LockWaitEnds(p) PROVE ChildFollows' /\ FailedStartLeavesNothing'
  BY <1>4 DEF LockWaitEnds, Goes
<1>5. ASSUME NEW p \in Proxies, Recheck(p) PROVE ChildFollows' /\ FailedStartLeavesNothing'
  BY <1>5 DEF Recheck, Goes, MayAnswer, Released
<1>6. ASSUME NEW p \in Proxies, Gate(p) PROVE ChildFollows' /\ FailedStartLeavesNothing'
  BY <1>6 DEF Gate, Goes, PortIsFree
<1>7. ASSUME NEW p \in Proxies, PortWait(p) PROVE ChildFollows' /\ FailedStartLeavesNothing'
  BY <1>7 DEF PortWait, Goes, Released
<1>8. ASSUME NEW p \in Proxies, ReadPid(p) PROVE ChildFollows' /\ FailedStartLeavesNothing'
  BY <1>8 DEF ReadPid, Goes, PidAlive
<1>9. ASSUME NEW p \in Proxies, UnlinkPid(p) PROVE ChildFollows' /\ FailedStartLeavesNothing'
  BY <1>9 DEF UnlinkPid, Goes
<1>10. ASSUME NEW p \in Proxies, Spawn(p) PROVE ChildFollows' /\ FailedStartLeavesNothing'
  BY <1>10 DEF Spawn, Goes, Serves
<1>11. ASSUME NEW p \in Proxies, WriteChildPid(p) PROVE ChildFollows' /\ FailedStartLeavesNothing'
  BY <1>11 DEF WriteChildPid, Goes
<1>12. ASSUME NEW p \in Proxies, PollAnswered(p) PROVE ChildFollows' /\ FailedStartLeavesNothing'
  BY <1>12 DEF PollAnswered, Goes, MayAnswer, Released
<1>13. ASSUME NEW p \in Proxies, PollEnds(p) PROVE ChildFollows' /\ FailedStartLeavesNothing'
  BY <1>13 DEF PollEnds, Goes
<1>14. ASSUME NEW p \in Proxies, KillChild(p) PROVE ChildFollows' /\ FailedStartLeavesNothing'
  BY <1>14 DEF KillChild, Goes, ChildKilled
<1>15. ASSUME NEW p \in Proxies, GiveUp(p) PROVE ChildFollows' /\ FailedStartLeavesNothing'
  BY <1>15 DEF GiveUp, Goes, Released
<1>16. ASSUME NEW p \in Proxies, ProxyDies(p) PROVE ChildFollows' /\ FailedStartLeavesNothing'
  BY <1>16 DEF ProxyDies, Settled, Released, Starting
<1>17. ASSUME NEW s \in Proxies, Boot(s) PROVE ChildFollows' /\ FailedStartLeavesNothing'
  BY <1>17 DEF Boot, Serves
<1>18. ASSUME NEW s \in Proxies, Bind(s) PROVE ChildFollows' /\ FailedStartLeavesNothing'
  BY <1>18 DEF Bind, Serves, BindOutcome
<1>19. ASSUME NEW s \in Proxies, Retire(s) PROVE ChildFollows' /\ FailedStartLeavesNothing'
  BY <1>19 DEF Retire, Serves
<1>20. ASSUME NEW s \in Proxies, Drained(s) PROVE ChildFollows' /\ FailedStartLeavesNothing'
  BY <1>20 DEF Drained, Serves
<1>21. ASSUME NEW s \in Proxies, Leave(s) PROVE ChildFollows' /\ FailedStartLeavesNothing'
  BY <1>21 DEF Leave, Serves
<1>22. ASSUME NEW s \in Proxies, ServerDies(s) PROVE ChildFollows' /\ FailedStartLeavesNothing'
  BY <1>22 DEF ServerDies, PidAlive
<1>23. ASSUME StopRead PROVE ChildFollows' /\ FailedStartLeavesNothing'
  BY <1>23 DEF StopRead, PidAlive
<1>24. ASSUME StopTerminate PROVE ChildFollows' /\ FailedStartLeavesNothing'
  BY <1>24 DEF StopTerminate, StopGoes, PidAlive, Terminated
<1>25. ASSUME StopSeesDead PROVE ChildFollows' /\ FailedStartLeavesNothing'
  BY <1>25 DEF StopSeesDead, StopGoes, PidAlive
<1>26. ASSUME StopKill PROVE ChildFollows' /\ FailedStartLeavesNothing'
  BY <1>26 DEF StopKill, StopGoes, PidAlive, Killed
<1>27. ASSUME StopRemove PROVE ChildFollows' /\ FailedStartLeavesNothing'
  BY <1>27 DEF StopRemove, StopGoes
<1> QED BY <1>1, <1>2, <1>3, <1>4, <1>5, <1>6, <1>7, <1>8, <1>9, <1>10, <1>11, <1>12, <1>13, <1>14,
           <1>15, <1>16, <1>17, <1>18, <1>19, <1>20, <1>21, <1>22, <1>23, <1>24,
           <1>25, <1>26, <1>27 DEF Next, ProxyStep, ServerStep, StopStep

\* A process that is dead stays dead.
LEMMA StopKept ==
    ASSUME Good, Next PROVE StopOnTarget'
<1> USE AutostartAssumption DEF Good, TypeOK, ChildFollows, StopOnTarget
<1>1. ASSUME NEW p \in Proxies, Start(p) PROVE StopOnTarget'
  BY <1>1 DEF Start, Goes, MayAnswer
<1>2. ASSUME NEW p \in Proxies, TryLock(p) PROVE StopOnTarget'
  BY <1>2 DEF TryLock, Goes, HoldsLock
<1>3. ASSUME NEW p \in Proxies, LockWaitAnswered(p) PROVE StopOnTarget'
  BY <1>3 DEF LockWaitAnswered, Goes, MayAnswer
<1>4. ASSUME NEW p \in Proxies, LockWaitEnds(p) PROVE StopOnTarget'
  BY <1>4 DEF LockWaitEnds, Goes
<1>5. ASSUME NEW p \in Proxies, Recheck(p) PROVE StopOnTarget'
  BY <1>5 DEF Recheck, Goes, MayAnswer, Released
<1>6. ASSUME NEW p \in Proxies, Gate(p) PROVE StopOnTarget'
  BY <1>6 DEF Gate, Goes, PortIsFree
<1>7. ASSUME NEW p \in Proxies, PortWait(p) PROVE StopOnTarget'
  BY <1>7 DEF PortWait, Goes, Released
<1>8. ASSUME NEW p \in Proxies, ReadPid(p) PROVE StopOnTarget'
  BY <1>8 DEF ReadPid, Goes, PidAlive
<1>9. ASSUME NEW p \in Proxies, UnlinkPid(p) PROVE StopOnTarget'
  BY <1>9 DEF UnlinkPid, Goes
<1>10. ASSUME NEW p \in Proxies, Spawn(p) PROVE StopOnTarget'
  BY <1>10 DEF Spawn, Goes, Serves
<1>11. ASSUME NEW p \in Proxies, WriteChildPid(p) PROVE StopOnTarget'
  BY <1>11 DEF WriteChildPid, Goes
<1>12. ASSUME NEW p \in Proxies, PollAnswered(p) PROVE StopOnTarget'
  BY <1>12 DEF PollAnswered, Goes, MayAnswer, Released
<1>13. ASSUME NEW p \in Proxies, PollEnds(p) PROVE StopOnTarget'
  BY <1>13 DEF PollEnds, Goes
<1>14. ASSUME NEW p \in Proxies, KillChild(p) PROVE StopOnTarget'
  BY <1>14 DEF KillChild, Goes, ChildKilled
<1>15. ASSUME NEW p \in Proxies, GiveUp(p) PROVE StopOnTarget'
  BY <1>15 DEF GiveUp, Goes, Released
<1>16. ASSUME NEW p \in Proxies, ProxyDies(p) PROVE StopOnTarget'
  BY <1>16 DEF ProxyDies, Settled, Released, Starting
<1>17. ASSUME NEW s \in Proxies, Boot(s) PROVE StopOnTarget'
  BY <1>17 DEF Boot, Serves
<1>18. ASSUME NEW s \in Proxies, Bind(s) PROVE StopOnTarget'
  BY <1>18 DEF Bind, Serves, BindOutcome
<1>19. ASSUME NEW s \in Proxies, Retire(s) PROVE StopOnTarget'
  BY <1>19 DEF Retire, Serves
<1>20. ASSUME NEW s \in Proxies, Drained(s) PROVE StopOnTarget'
  BY <1>20 DEF Drained, Serves
<1>21. ASSUME NEW s \in Proxies, Leave(s) PROVE StopOnTarget'
  BY <1>21 DEF Leave, Serves
<1>22. ASSUME NEW s \in Proxies, ServerDies(s) PROVE StopOnTarget'
  BY <1>22 DEF ServerDies, PidAlive
<1>23. ASSUME StopRead PROVE StopOnTarget'
  BY <1>23 DEF StopRead, PidAlive
<1>24. ASSUME StopTerminate PROVE StopOnTarget'
  BY <1>24 DEF StopTerminate, StopGoes, PidAlive, Terminated
<1>25. ASSUME StopSeesDead PROVE StopOnTarget'
  BY <1>25 DEF StopSeesDead, StopGoes, PidAlive
<1>26. ASSUME StopKill PROVE StopOnTarget'
  BY <1>26 DEF StopKill, StopGoes, PidAlive, Killed
<1>27. ASSUME StopRemove PROVE StopOnTarget'
  BY <1>27 DEF StopRemove, StopGoes
<1> QED BY <1>1, <1>2, <1>3, <1>4, <1>5, <1>6, <1>7, <1>8, <1>9, <1>10, <1>11, <1>12, <1>13, <1>14,
           <1>15, <1>16, <1>17, <1>18, <1>19, <1>20, <1>21, <1>22, <1>23, <1>24,
           <1>25, <1>26, <1>27 DEF Next, ProxyStep, ServerStep, StopStep

\* Only the holder of the lock spawns, and only on a free port.
LEMMA OneKept ==
    ASSUME Good, Next PROVE OneAtATime'
<1> USE AutostartAssumption DEF Good, TypeOK, ChildFollows, OneAtATime, Inside, Up, Bound, Starting
<1>1. ASSUME NEW p \in Proxies, Start(p) PROVE OneAtATime'
  BY <1>1 DEF Start, Goes, MayAnswer
<1>2. ASSUME NEW p \in Proxies, TryLock(p) PROVE OneAtATime'
  BY <1>2 DEF TryLock, Goes, HoldsLock
<1>3. ASSUME NEW p \in Proxies, LockWaitAnswered(p) PROVE OneAtATime'
  BY <1>3 DEF LockWaitAnswered, Goes, MayAnswer
<1>4. ASSUME NEW p \in Proxies, LockWaitEnds(p) PROVE OneAtATime'
  BY <1>4 DEF LockWaitEnds, Goes
<1>5. ASSUME NEW p \in Proxies, Recheck(p) PROVE OneAtATime'
  BY <1>5 DEF Recheck, Goes, MayAnswer, Released
<1>6. ASSUME NEW p \in Proxies, Gate(p) PROVE OneAtATime'
  BY <1>6 DEF Gate, Goes, PortIsFree
<1>7. ASSUME NEW p \in Proxies, PortWait(p) PROVE OneAtATime'
  BY <1>7 DEF PortWait, Goes, Released
<1>8. ASSUME NEW p \in Proxies, ReadPid(p) PROVE OneAtATime'
  BY <1>8 DEF ReadPid, Goes, PidAlive
<1>9. ASSUME NEW p \in Proxies, UnlinkPid(p) PROVE OneAtATime'
  BY <1>9 DEF UnlinkPid, Goes
<1>10. ASSUME NEW p \in Proxies, Spawn(p) PROVE OneAtATime'
  BY <1>10 DEF Spawn, Goes, Serves
<1>11. ASSUME NEW p \in Proxies, WriteChildPid(p) PROVE OneAtATime'
  BY <1>11 DEF WriteChildPid, Goes
<1>12. ASSUME NEW p \in Proxies, PollAnswered(p) PROVE OneAtATime'
  BY <1>12 DEF PollAnswered, Goes, MayAnswer, Released
<1>13. ASSUME NEW p \in Proxies, PollEnds(p) PROVE OneAtATime'
  BY <1>13 DEF PollEnds, Goes
<1>14. ASSUME NEW p \in Proxies, KillChild(p) PROVE OneAtATime'
  BY <1>14 DEF KillChild, Goes, ChildKilled
<1>15. ASSUME NEW p \in Proxies, GiveUp(p) PROVE OneAtATime'
  BY <1>15 DEF GiveUp, Goes, Released
<1>16. ASSUME NEW p \in Proxies, ProxyDies(p) PROVE OneAtATime'
  BY <1>16 DEF ProxyDies, Settled, Released, Starting
<1>17. ASSUME NEW s \in Proxies, Boot(s) PROVE OneAtATime'
  BY <1>17 DEF Boot, Serves
<1>18. ASSUME NEW s \in Proxies, Bind(s) PROVE OneAtATime'
  BY <1>18 DEF Bind, Serves, BindOutcome
<1>19. ASSUME NEW s \in Proxies, Retire(s) PROVE OneAtATime'
  BY <1>19 DEF Retire, Serves
<1>20. ASSUME NEW s \in Proxies, Drained(s) PROVE OneAtATime'
  BY <1>20 DEF Drained, Serves
<1>21. ASSUME NEW s \in Proxies, Leave(s) PROVE OneAtATime'
  BY <1>21 DEF Leave, Serves
<1>22. ASSUME NEW s \in Proxies, ServerDies(s) PROVE OneAtATime'
  BY <1>22 DEF ServerDies, PidAlive
<1>23. ASSUME StopRead PROVE OneAtATime'
  BY <1>23 DEF StopRead, PidAlive
<1>24. ASSUME StopTerminate PROVE OneAtATime'
  BY <1>24 DEF StopTerminate, StopGoes, PidAlive, Terminated
<1>25. ASSUME StopSeesDead PROVE OneAtATime'
  BY <1>25 DEF StopSeesDead, StopGoes, PidAlive
<1>26. ASSUME StopKill PROVE OneAtATime'
  BY <1>26 DEF StopKill, StopGoes, PidAlive, Killed
<1>27. ASSUME StopRemove PROVE OneAtATime'
  BY <1>27 DEF StopRemove, StopGoes
<1> QED BY <1>1, <1>2, <1>3, <1>4, <1>5, <1>6, <1>7, <1>8, <1>9, <1>10, <1>11, <1>12, <1>13, <1>14,
           <1>15, <1>16, <1>17, <1>18, <1>19, <1>20, <1>21, <1>22, <1>23, <1>24,
           <1>25, <1>26, <1>27 DEF Next, ProxyStep, ServerStep, StopStep

\* At first nobody has started anything.
LEMMA GoodInit == Init => Good
<1> SUFFICES ASSUME Init PROVE Good
  OBVIOUS
<1> USE AutostartAssumption DEF Init
<1>1. TypeOK
  <2>1. /\ proxy \in [Proxies -> ProxyState] /\ server \in [Proxies -> ServerState]
    BY DEF ProxyState, ServerState
  <2>2. /\ lock \in Proxies \union {Nobody} /\ pid_file \in Proxies \union {Nobody}
        /\ \A p \in Proxies : lock # p
    OBVIOUS
  <2>3. stop \in [at : {"idle", "unlink", "found", "wait", "remove", "forget", "stopped"},
                  target : Proxies \union {Nobody}]
    OBVIOUS
  <2>4. stops \in 0..MaxStops
    OBVIOUS
  <2>5. lapsed \in BOOLEAN
    OBVIOUS
  <2> QED BY <2>1, <2>2, <2>3, <2>4, <2>5 DEF TypeOK
<1>2. LockLater /\ ChildFollows /\ FailedStartLeavesNothing /\ StopOnTarget
  BY DEF LockLater, ChildFollows, FailedStartLeavesNothing, StopOnTarget
<1>3. OneAtATime
  BY DEF OneAtATime, Inside, Up, Starting
<1> QED BY <1>1, <1>2, <1>3 DEF Good

\* Every step keeps the inductive invariant.
LEMMA GoodNext == Good /\ [Next]_vars => Good'
<1>1. ASSUME Good, Next PROVE Good'
  BY <1>1, TypesKept, ChildKept, StopKept, OneKept DEF Good
<1>2. ASSUME Good, UNCHANGED vars PROVE Good'
  BY <1>2 DEF vars, Good, TypeOK, LockLater, ChildFollows, FailedStartLeavesNothing, StopOnTarget,
     OneAtATime, Inside, Up, Starting
<1> QED BY <1>1, <1>2

\* It holds always.
THEOREM GoodAlways == Spec => []Good
BY GoodInit, GoodNext, PTL DEF Spec

\* Values stay in their types; only a proxy that is starting a backend holds the lock.
THEOREM TypeCorrect == Spec => []TypeOK
<1>1. Good => TypeOK
  BY DEF Good
<1> QED BY <1>1, GoodAlways, PTL

\* A proxy that gives up leaves nothing behind.
THEOREM FailedStartIsClean == Spec => []FailedStartLeavesNothing
<1>1. Good => FailedStartLeavesNothing
  BY DEF Good
<1> QED BY <1>1, GoodAlways, PTL

\* What stop says it has stopped is dead.
THEOREM StopIsEffective == Spec => []StopHolds
<1>1. Good => StopHolds
  BY DEF Good, StopOnTarget, StopHolds
<1> QED BY <1>1, GoodAlways, PTL

\* One server boots or listens at a time.
THEOREM OneServer == Spec => []OneStart
<1>1. Good => OneStart
  <2> SUFFICES ASSUME Good, ~lapsed PROVE Cardinality(Up) <= 1
    BY DEF OneStart
  <2>1. \A s, t \in Up : s = t
    BY DEF Good, OneAtATime
  <2>2. CASE Up = {}
    BY <2>2, FS_EmptySet
  <2>3. CASE Up # {}
    <3>1. PICK s : Up = {s}
      BY <2>1, <2>3
    <3> QED BY <3>1, FS_Singleton
  <2> QED BY <2>2, <2>3
<1> QED BY <1>1, GoodAlways, PTL

=============================================================================
