------------------------- MODULE SharedStatusProofs -------------------------
(***************************************************************************)
(* Whose completion the error for a dead worker may not replace, for any   *)
(* number of processes and writes.                                         *)
(***************************************************************************)
EXTENDS SharedStatus, TLAPS

\* A status in progress, and an active record, name their worker.
Named ==
    /\ status.is = "analyzing" => status.by \in Workers
    /\ record.active => record.pid \in Workers

\* From the look at the pid to the error, the monitor has a dead worker before it,
\* and once it has read the file, this is not the worker's completion.
MonitorOK ==
    /\ server \in {"read", "mark"} => seen \in Workers /\ ~Alive(seen)
    /\ server = "mark" => status # [is |-> "complete", by |-> seen]

Good == TypeOK /\ Named /\ MonitorOK

\* Every step keeps the types.
LEMMA TypesKept ==
    ASSUME TypeOK, Named, Next PROVE TypeOK' /\ Named'
<1> USE StatusAssumption DEF TypeOK, Named, Stages, Phases, NoRecord
<1>1. ASSUME NEW w \in Workers, Queue(w) PROVE TypeOK' /\ Named'
  BY <1>1 DEF Queue, job, memory, watch
<1>2. ASSUME NEW w \in Workers, QueueFresh(w) PROVE TypeOK' /\ Named'
  BY <1>2 DEF QueueFresh, job, memory, watch
<1>3. ASSUME NEW w \in Workers, WriteAnalyzing(w) PROVE TypeOK' /\ Named'
  <2>1. PICK now \in {"analyzing", "importing"} : worker' = [worker EXCEPT ![w] = now]
    BY <1>3 DEF WriteAnalyzing
  <2>2. worker' \in [Workers -> {"idle", "queued", "analyzing", "importing", "dead"}]
    BY <2>1
  <2>3. /\ status' = [is |-> "analyzing", by |-> w]
        /\ event' = TRUE /\ tried' = FALSE /\ writes' \in 0..MaxWrites
    BY <1>3 DEF WriteAnalyzing, WriteStatus
  <2>4. status' \in [is : {"none", "analyzing", "complete", "error"}, by : Workers \union {Nobody}]
    BY <2>3
  <2>5. UNCHANGED <<server, seen, record, loaded, project, adding, pending, hot, closed>>
    BY <1>3 DEF WriteAnalyzing, job, memory
  <2> QED BY <2>2, <2>3, <2>4, <2>5
<1>4. ASSUME NEW w \in Workers, EndAnalysis(w) PROVE TypeOK' /\ Named'
  <2>1. worker' \in [Workers -> {"idle", "queued", "analyzing", "importing", "dead"}]
    BY <1>4 DEF EndAnalysis, AfterWork
  <2>2. PICK end \in {"complete", "error"} : WriteStatus(end, w)
    BY <1>4 DEF EndAnalysis
  <2>3. /\ status' = [is |-> end, by |-> w] /\ event' = TRUE /\ tried' = FALSE
        /\ status' \in [is : {"none", "analyzing", "complete", "error"}, by : Workers \union {Nobody}]
    BY <2>2 DEF WriteStatus
  <2>4. UNCHANGED <<server, seen, record, loaded, project, adding, pending, hot, closed, writes>>
    BY <1>4 DEF EndAnalysis, job, memory
  <2> QED BY <2>1, <2>3, <2>4
<1>5. ASSUME NEW w \in Workers, EndSilently(w) PROVE TypeOK' /\ Named'
  BY <1>5 DEF EndSilently, AfterWork, Working, job, memory, watch
<1>6. ASSUME NEW w \in Workers, Die(w) PROVE TypeOK' /\ Named'
  BY <1>6 DEF Die, job, memory, watch
<1>7. ASSUME DeleteElsewhere PROVE TypeOK' /\ Named'
  BY <1>7 DEF DeleteElsewhere, job, memory, watch
<1>8. ASSUME EagerLoad PROVE TypeOK' /\ Named'
  BY <1>8 DEF EagerLoad, job, memory, watch
<1>9. ASSUME Recover PROVE TypeOK' /\ Named'
  BY <1>9 DEF Recover, job, memory, watch
<1>10. ASSUME CheckPid PROVE TypeOK' /\ Named'
  <2>1. seen \in Workers
    BY <1>10 DEF CheckPid
  <2>2. record' \in [pid : Workers \union {Nobody}, active : BOOLEAN]
    <3>1. CASE record' = [pid |-> seen, active |-> TRUE]
      BY <2>1, <3>1
    <3>2. CASE record' = record
      BY <3>2
    <3> QED BY <1>10, <3>1, <3>2 DEF CheckPid
  <2>3. /\ server' \in Phases /\ seen' \in Workers \union {Nobody}
        /\ (server' \in {"recover", "up"}) = (seen' = Nobody)
    BY <1>10, <2>1 DEF CheckPid
  <2>4. record'.active => record'.pid \in Workers
    <3>1. CASE record' = [pid |-> seen, active |-> TRUE]
      BY <2>1, <3>1
    <3>2. CASE record' = record
      BY <3>2
    <3> QED BY <1>10, <3>1, <3>2 DEF CheckPid
  <2>5. UNCHANGED <<status, worker, loaded, project, event, adding, pending, hot, closed, writes,
                    tried>>
    BY <1>10 DEF CheckPid, memory, watch
  <2> QED BY <2>2, <2>3, <2>4, <2>5
<1>11. ASSUME FindDead PROVE TypeOK' /\ Named'
  BY <1>11 DEF FindDead, WorkerIsDead, job, memory, watch
<1>12. ASSUME ReadStatus PROVE TypeOK' /\ Named'
  <2>1. seen \in Workers
    BY <1>12 DEF ReadStatus
  <2>2. record' \in [pid : Workers \union {Nobody}, active : BOOLEAN]
    BY <1>12 DEF ReadStatus
  <2>3. /\ server' \in Phases /\ seen' \in Workers \union {Nobody}
        /\ (server' \in {"recover", "up"}) = (seen' = Nobody)
    <3>1. CASE server' = "up" /\ seen' = Nobody
      BY <3>1
    <3>2. CASE server' = "mark" /\ seen' = seen
      BY <2>1, <3>2
    <3> QED BY <1>12, <3>1, <3>2 DEF ReadStatus
  <2>4. record'.active => record'.pid \in Workers
    <3>1. CASE record' = [record EXCEPT !.active = FALSE]
      BY <3>1
    <3>2. CASE record' = record
      BY <3>2
    <3> QED BY <1>12, <3>1, <3>2 DEF ReadStatus
  <2>5. UNCHANGED <<status, worker, loaded, project, event, adding, pending, hot, closed, writes,
                    tried>>
    BY <1>12 DEF ReadStatus, memory, watch
  <2> QED BY <2>2, <2>3, <2>4, <2>5
<1>13. ASSUME Mark PROVE TypeOK' /\ Named'
  BY <1>13 DEF Mark, WriteStatus, job, memory, watch
<1>14. ASSUME Delete PROVE TypeOK' /\ Named'
  BY <1>14 DEF Delete, job, memory, watch
<1>15. ASSUME SeenAgain PROVE TypeOK' /\ Named'
  <2>1. event' = TRUE /\ tried' = FALSE /\ writes' \in 0..MaxWrites
    BY <1>15 DEF SeenAgain
  <2>2. UNCHANGED <<status, worker, server, seen, record, loaded, project, adding, pending, hot,
                    closed>>
    BY <1>15 DEF SeenAgain, job, memory
  <2>3. event' \in BOOLEAN /\ tried' \in BOOLEAN /\ writes' \in 0..MaxWrites
    BY <2>1
  <2> QED BY <2>2, <2>3
<1>16. ASSUME CheckEvent PROVE TypeOK' /\ Named'
  <2>1. event' \in BOOLEAN /\ adding' \in BOOLEAN
    BY <1>16 DEF CheckEvent
  <2>2. UNCHANGED <<status, worker, server, seen, record, loaded, project, pending, hot, closed,
                    writes, tried>>
    BY <1>16 DEF CheckEvent, job, memory
  <2> QED BY <2>1, <2>2
<1>17. ASSUME AddPending PROVE TypeOK' /\ Named'
  <2>1. hot' \in [Stages -> Nat]
    BY <1>17 DEF AddPending
  <2>2. pending' \in BOOLEAN /\ adding' \in BOOLEAN
    BY <1>17 DEF AddPending
  <2> QED BY <1>17, <2>1, <2>2 DEF AddPending, job, memory, watch
<1>18. ASSUME Schedule PROVE TypeOK' /\ Named'
  BY <1>18 DEF Schedule, Advance, job, memory, watch
<1>19. ASSUME HotLoad PROVE TypeOK' /\ Named'
  <2>1. hot' \in [Stages -> Nat]
    BY <1>19 DEF HotLoad, Advance
  <2>2. project' \in BOOLEAN /\ loaded' \in BOOLEAN /\ (loaded' => project')
    BY <1>19 DEF HotLoad, HotLoadBlocking, memory
  <2> QED BY <1>19, <2>1, <2>2 DEF HotLoad, job
<1>20. ASSUME EndTask PROVE TypeOK' /\ Named'
  <2>1. hot' \in [Stages -> Nat]
    BY <1>20 DEF EndTask, Advance
  <2>2. pending' \in BOOLEAN /\ adding' \in BOOLEAN
    BY <1>20 DEF EndTask, Discard
  <2> QED BY <1>20, <2>1, <2>2 DEF EndTask, job, memory, watch
<1>21. ASSUME DoneCallback PROVE TypeOK' /\ Named'
  <2>1. hot' \in [Stages -> Nat]
    BY <1>21 DEF DoneCallback
  <2>2. pending' \in BOOLEAN /\ adding' \in BOOLEAN
    BY <1>21 DEF DoneCallback, Discard
  <2> QED BY <1>21, <2>1, <2>2 DEF DoneCallback, job, memory, watch
<1>22. ASSUME LoadElsewhere PROVE TypeOK' /\ Named'
  BY <1>22 DEF LoadElsewhere, job, memory, watch
<1>23. ASSUME UnloadElsewhere PROVE TypeOK' /\ Named'
  <2>1. loaded' \in BOOLEAN /\ project' \in BOOLEAN /\ (loaded' => project')
    BY <1>23 DEF UnloadElsewhere
  <2>2. UNCHANGED <<status, worker, server, seen, record, event, adding, pending, hot, closed,
                    writes, tried>>
    BY <1>23 DEF UnloadElsewhere, job, watch
  <2> QED BY <2>1, <2>2
<1>24. ASSUME CloseLoop PROVE TypeOK' /\ Named'
  BY <1>24 DEF CloseLoop, job, memory, watch
<1> QED BY <1>1, <1>2, <1>3, <1>4, <1>5, <1>6, <1>7, <1>8, <1>9, <1>10, <1>11, <1>12,
           <1>13, <1>14, <1>15, <1>16, <1>17, <1>18, <1>19, <1>20, <1>21, <1>22, <1>23,
           <1>24 DEF Next

\* The dead write nothing.
LEMMA MonitorKept ==
    ASSUME Good, Next PROVE MonitorOK'
<1> USE StatusAssumption DEF Good, TypeOK, Named, MonitorOK, Alive
<1>1. ASSUME NEW w \in Workers, Queue(w) PROVE MonitorOK'
  BY <1>1 DEF Queue, job, memory, watch
<1>2. ASSUME NEW w \in Workers, QueueFresh(w) PROVE MonitorOK'
  BY <1>2 DEF QueueFresh, job, memory, watch
<1>3. ASSUME NEW w \in Workers, WriteAnalyzing(w) PROVE MonitorOK'
  BY <1>3 DEF WriteAnalyzing, WriteStatus, job, memory, watch
<1>4. ASSUME NEW w \in Workers, EndAnalysis(w) PROVE MonitorOK'
  BY <1>4 DEF EndAnalysis, AfterWork, Working, WriteStatus, job, memory, watch
<1>5. ASSUME NEW w \in Workers, EndSilently(w) PROVE MonitorOK'
  BY <1>5 DEF EndSilently, AfterWork, Working, job, memory, watch
<1>6. ASSUME NEW w \in Workers, Die(w) PROVE MonitorOK'
  BY <1>6 DEF Die, job, memory, watch
<1>7. ASSUME DeleteElsewhere PROVE MonitorOK'
  BY <1>7 DEF DeleteElsewhere, job, memory, watch
<1>8. ASSUME EagerLoad PROVE MonitorOK'
  BY <1>8 DEF EagerLoad, job, memory, watch
<1>9. ASSUME Recover PROVE MonitorOK'
  BY <1>9 DEF Recover, job, memory, watch
<1>10. ASSUME CheckPid PROVE MonitorOK'
  BY <1>10 DEF CheckPid, job, memory, watch
<1>11. ASSUME FindDead PROVE MonitorOK'
  BY <1>11 DEF FindDead, WorkerIsDead, job, memory, watch
<1>12. ASSUME ReadStatus PROVE MonitorOK'
  BY <1>12 DEF ReadStatus, Completed, job, memory, watch
<1>13. ASSUME Mark PROVE MonitorOK'
  BY <1>13 DEF Mark, WriteStatus, job, memory, watch
<1>14. ASSUME Delete PROVE MonitorOK'
  BY <1>14 DEF Delete, job, memory, watch
<1>15. ASSUME SeenAgain PROVE MonitorOK'
  BY <1>15 DEF SeenAgain, job, memory, watch
<1>16. ASSUME CheckEvent PROVE MonitorOK'
  BY <1>16 DEF CheckEvent, job, memory, watch
<1>17. ASSUME AddPending PROVE MonitorOK'
  BY <1>17 DEF AddPending, job, memory, watch
<1>18. ASSUME Schedule PROVE MonitorOK'
  BY <1>18 DEF Schedule, Advance, job, memory, watch
<1>19. ASSUME HotLoad PROVE MonitorOK'
  BY <1>19 DEF HotLoad, Advance, HotLoadBlocking, job, memory, watch
<1>20. ASSUME EndTask PROVE MonitorOK'
  BY <1>20 DEF EndTask, Advance, Discard, job, memory, watch
<1>21. ASSUME DoneCallback PROVE MonitorOK'
  BY <1>21 DEF DoneCallback, Discard, job, memory, watch
<1>22. ASSUME LoadElsewhere PROVE MonitorOK'
  BY <1>22 DEF LoadElsewhere, job, memory, watch
<1>23. ASSUME UnloadElsewhere PROVE MonitorOK'
  BY <1>23 DEF UnloadElsewhere, job, memory, watch
<1>24. ASSUME CloseLoop PROVE MonitorOK'
  BY <1>24 DEF CloseLoop, job, memory, watch
<1> QED BY <1>1, <1>2, <1>3, <1>4, <1>5, <1>6, <1>7, <1>8, <1>9, <1>10, <1>11, <1>12,
           <1>13, <1>14, <1>15, <1>16, <1>17, <1>18, <1>19, <1>20, <1>21, <1>22, <1>23,
           <1>24 DEF Next

\* At first the server has recovery before it.
LEMMA GoodInit == Init => Good
<1> SUFFICES ASSUME Init PROVE Good
  OBVIOUS
<1> USE StatusAssumption DEF Init
<1>1. TypeOK
  <2>1. /\ status \in [is : {"none", "analyzing", "complete", "error"}, by : Workers \union {Nobody}]
        /\ record \in [pid : Workers \union {Nobody}, active : BOOLEAN]
    BY DEF NoRecord
  <2>2. /\ loaded \in BOOLEAN /\ project \in BOOLEAN /\ (loaded => project) /\ tried \in BOOLEAN
        /\ event \in BOOLEAN /\ adding \in BOOLEAN /\ pending \in BOOLEAN /\ closed \in BOOLEAN
    OBVIOUS
  <2>3. hot \in [Stages -> Nat] /\ writes \in 0..MaxWrites
    BY DEF Stages
  <2> QED BY <2>1, <2>2, <2>3 DEF TypeOK, Phases
<1>2. Named /\ MonitorOK
  BY DEF Named, MonitorOK, NoRecord
<1> QED BY <1>1, <1>2 DEF Good

\* Every step keeps the inductive invariant.
LEMMA GoodNext == Good /\ [Next]_vars => Good'
<1>1. ASSUME Good, Next PROVE Good'
  BY <1>1, TypesKept, MonitorKept DEF Good
<1>2. ASSUME Good, UNCHANGED vars PROVE Good'
  BY <1>2 DEF vars, Good, TypeOK, Named, MonitorOK, Alive
<1> QED BY <1>1, <1>2

\* It holds always.
THEOREM GoodAlways == Spec => []Good
BY GoodInit, GoodNext, PTL DEF Spec

\* Values stay in their types; what is loaded has its project, and the server looks
\* at a pid in some phases only.
THEOREM TypeCorrect == Spec => []TypeOK
<1>1. Good => TypeOK
  BY DEF Good
<1> QED BY <1>1, GoodAlways, PTL

\* The monitor's error never replaces the completion of the worker it is about.
THEOREM CompletionIsKept == Spec => CompletionKept
<1> DEFINE Step == server = "mark" /\ Mark => status # [is |-> "complete", by |-> seen]
<1>1. Good /\ [Next]_vars => [Step]_vars
  BY DEF Good, MonitorOK
<1> QED BY <1>1, GoodAlways, PTL DEF Spec, CompletionKept

=============================================================================
