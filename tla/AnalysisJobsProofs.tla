------------------------- MODULE AnalysisJobsProofs -------------------------
(***************************************************************************)
(* What holds of AnalysisJobs for every set of ids and tasks and every     *)
(* value of the limits.                                                    *)
(***************************************************************************)
EXTENDS AnalysisJobs, FiniteSetTheorems, TLAPS

\* Every action of the module, for the steps below.
USE DEF JobIds, history, UnderWay

LEMMA NilFacts == Nil \notin Tasks /\ Nil \notin JobIds /\ Idle.id = Nil
  BY JobsAssumption DEF Idle

\* Spawn keeps the types of what it writes.
LEMMA SpawnTypes ==
  ASSUME TypeOK, NEW t \in Tasks, NEW i \in JobIds,
         NEW table \in [JobIds -> Tasks \union {Nil}], Spawn(t, i, table)
  PROVE  /\ active_jobs' \in [JobIds -> Tasks \union {Nil}]
         /\ job' \in [Tasks -> [id : JobIds \union {Nil}, status : JobStatus]]
         /\ coro' \in [Tasks -> {"none", "waiting", "polling", "done", "dead", "foreign"}]
         /\ fut' \in [Tasks -> {"none", "submitted", "analyzing", "orphaned",
                                "scanning", "succeeded", "closed", "failed"}]
         /\ lost' \subseteq Tasks
  BY DEF TypeOK, Spawn, JobStatus

\* Closing a program keeps the futures' type.
LEMMA ClosedType ==
  ASSUME TypeOK, NEW a \in AnalysisIds
  PROVE  Closed(a) \in [Tasks -> {"none", "submitted", "analyzing", "orphaned",
                                  "scanning", "succeeded", "closed", "failed"}]
  <1>1. ASSUME NEW t \in Tasks
        PROVE  (IF job[t].id # a THEN fut[t]
                ELSE CASE fut[t] = "analyzing" -> "orphaned"
                       [] fut[t] = "succeeded" -> "closed"
                       [] OTHER -> fut[t])
                 \in {"none", "submitted", "analyzing", "orphaned",
                      "scanning", "succeeded", "closed", "failed"}
    BY DEF TypeOK
  <1> QED BY <1>1 DEF Closed

\* The budget of refused writes is kept.
LEMMA WriteFailsType == ASSUME TypeOK, WriteFails PROVE faults' \in 0..MaxFaults
  BY JobsAssumption DEF TypeOK, WriteFails

\* After a restart the table holds recovered records, and nothing else.
LEMMA RestartRecords ==
  ASSUME TypeOK, CrashRestart
  PROVE  /\ active_jobs' \in [JobIds -> Tasks \union {Nil}]
         /\ timers' = {} /\ loop' = Idle
         /\ \A i \in JobIds : active_jobs'[i] # Nil =>
               /\ i \in AnalysisIds
               /\ coro'[active_jobs'[i]] = "foreign"
               /\ job'[active_jobs'[i]].id = i
               /\ job'[active_jobs'[i]].status = "analyzing"
         /\ \A a \in AnalysisIds :
               /\ status_file'[a] # "analyzing"
               /\ status_file'[a] = "foreign" => active_jobs'[a] # Nil /\ programs'[a] = "absent"
         /\ job' \in [Tasks -> [id : JobIds \union {Nil}, status : JobStatus]]
         /\ \A t \in Tasks :
               /\ coro'[t] \in {"none", "foreign"} /\ fut'[t] = "none"
               /\ job'[t].id # Nil => coro'[t] = "foreign"
         /\ \A t \in Tasks : job'[t].status \in {"none", "analyzing"}
  <1>1. PICK opened \in SUBSET AnalysisIds,
             held \in [Tasks -> AnalysisIds \union {Nil}] :
               /\ RestartTables(held)
               /\ RestartFiles(opened, {a \in AnalysisIds : \E t \in Tasks : held[t] = a})
    BY Zenon DEF CrashRestart
  <1>2. \A i \in JobIds : (\E t \in Tasks : held[t] = i) =>
           /\ (CHOOSE t \in Tasks : held[t] = i) \in Tasks
           /\ held[CHOOSE t \in Tasks : held[t] = i] = i
    OBVIOUS
  <1> QED BY <1>1, <1>2, NilFacts
         DEF RestartTables, RestartFiles, NoJob, JobStatus, Recovered, TypeOK

\* Type correctness of the job table, the tasks, the files and the loop.
THEOREM TypeCorrect == Spec => []TypeOK
  <1>1. Init => TypeOK
    BY JobsAssumption DEF Init, TypeOK, NoJob, Idle, JobStatus
  <1>2. TypeOK /\ [Next]_vars => TypeOK'
    <2> SUFFICES ASSUME TypeOK, [Next]_vars PROVE TypeOK'
      OBVIOUS
    <2>1. ASSUME NEW a \in AnalysisIds, LoadPurge(a) PROVE TypeOK'
      BY <2>1, ClosedType DEF LoadPurge, TypeOK
    <2>2. ASSUME NEW a \in AnalysisIds, LoadLookup(a) PROVE TypeOK'
      BY <2>2 DEF LoadLookup, TypeOK
    <2>3. ASSUME NEW a \in AnalysisIds, LoadFromDisk(a) PROVE TypeOK'
      BY <2>3 DEF LoadFromDisk, TypeOK
    <2>4. ASSUME NEW a \in AnalysisIds, DeleteBegin(a) PROVE TypeOK'
      <3>1. active_jobs' \in [JobIds -> Tasks \union {Nil}] /\ cancelled' \subseteq Tasks
        BY <2>4 DEF DeleteBegin, TypeOK, Popped, Killed
      <3> QED BY <2>4, <3>1, ClosedType DEF DeleteBegin, TypeOK
    <2>5. ASSUME NEW a \in AnalysisIds, Evict(a) PROVE TypeOK'
      BY <2>5, ClosedType DEF Evict, TypeOK
    <2>6. CASE LoadEnqueue
      <3> DEFINE a == loop.id
                 table == IF loop.fresh THEN Popped(a) ELSE active_jobs
                 killed == IF loop.fresh THEN Killed(a) ELSE {}
      <3>1. a \in AnalysisIds /\ a \in JobIds
        BY <2>6 DEF LoadEnqueue, TypeOK
      <3>2. table \in [JobIds -> Tasks \union {Nil}] /\ killed \subseteq Tasks
        BY <3>1 DEF Popped, Killed, TypeOK
      <3>3. CASE UNCHANGED <<job, coro, fut, lost>> /\ active_jobs' = table
                 /\ cancelled' = cancelled \union killed
        BY <2>6, <3>2, <3>3 DEF LoadEnqueue, TypeOK, Idle
      <3>4. ASSUME NEW t \in Tasks, Spawn(t, a, table),
                   cancelled' = (cancelled \union killed) \ {t}
            PROVE  TypeOK'
        <4>1. /\ active_jobs' \in [JobIds -> Tasks \union {Nil}]
              /\ job' \in [Tasks -> [id : JobIds \union {Nil}, status : JobStatus]]
              /\ coro' \in [Tasks -> {"none", "waiting", "polling", "done", "dead", "foreign"}]
              /\ fut' \in [Tasks -> {"none", "submitted", "analyzing", "orphaned",
                                     "scanning", "succeeded", "closed", "failed"}]
              /\ lost' \subseteq Tasks
          BY <3>1, <3>2, <3>4, SpawnTypes
        <4> HIDE DEF table, killed
        <4> QED BY <2>6, <3>2, <3>4, <4>1 DEF LoadEnqueue, TypeOK, Idle
      <3> QED BY <2>6, <3>3, <3>4 DEF LoadEnqueue
    <2>7. CASE DeleteEnd
      BY <2>7 DEF DeleteEnd, TypeOK
    <2>8. CASE CrashRestart
      <3>1. PICK opened \in SUBSET AnalysisIds,
                 held \in [Tasks -> AnalysisIds \union {Nil}] :
                   /\ RestartTables(held)
                   /\ RestartFiles(opened, {a \in AnalysisIds : \E t \in Tasks : held[t] = a})
        BY <2>8, Zenon DEF CrashRestart
      <3>2. project' \in [AnalysisIds -> {"none", "empty", "imported", "analyzed"}]
        BY <3>1 DEF RestartFiles, TypeOK
      <3>3. status_file' \in [AnalysisIds -> {"none", "complete", "error"} \union UnderWay]
        BY <3>1 DEF RestartFiles, TypeOK, Recovered
      <3>4. /\ coro' \in [Tasks -> {"none", "waiting", "polling", "done", "dead", "foreign"}]
            /\ fut' \in [Tasks -> {"none", "submitted", "analyzing", "orphaned",
                                   "scanning", "succeeded", "closed", "failed"}]
            /\ programs' \in [AnalysisIds -> {"absent", "raw", "ready"}]
            /\ restarts' \in 0..MaxRestarts /\ faults' \in 0..MaxFaults
            /\ timers' \subseteq Tasks /\ cancelled' \subseteq Tasks /\ lost' \subseteq Tasks
        BY <2>8, <3>1, JobsAssumption DEF CrashRestart, RestartTables, RestartFiles, TypeOK
      <3>5. /\ loop' \in [id : AnalysisIds \union {Nil}, fresh : BOOLEAN]
            /\ deleting' \in AnalysisIds \union {Nil}
        BY <3>1 DEF RestartTables, Idle
      <3> QED BY <2>8, <3>2, <3>3, <3>4, <3>5, RestartRecords DEF TypeOK
    <2>9. ASSUME NEW i \in ScanIds, ScanSpawn(i) PROVE TypeOK'
      <3>1. PICK t \in Tasks : Spawn(t, i, active_jobs) /\ cancelled' = cancelled \ {t}
        BY <2>9 DEF ScanSpawn
      <3>2. active_jobs \in [JobIds -> Tasks \union {Nil}] /\ i \in JobIds
        BY DEF TypeOK
      <3>3. /\ active_jobs' \in [JobIds -> Tasks \union {Nil}]
            /\ job' \in [Tasks -> [id : JobIds \union {Nil}, status : JobStatus]]
            /\ coro' \in [Tasks -> {"none", "waiting", "polling", "done", "dead", "foreign"}]
            /\ fut' \in [Tasks -> {"none", "submitted", "analyzing", "orphaned",
                                   "scanning", "succeeded", "closed", "failed"}]
            /\ lost' \subseteq Tasks
        BY <3>1, <3>2, SpawnTypes
      <3> QED BY <2>9, <3>1, <3>3 DEF ScanSpawn, TypeOK
    <2>10. ASSUME NEW t \in Tasks, TaskStart(t) PROVE TypeOK'
      BY <2>10 DEF TaskStart, TypeOK, JobStatus
    <2>11. ASSUME NEW t \in Tasks, TaskStartFails(t) PROVE TypeOK'
      BY <2>11 DEF TaskStartFails, TypeOK, JobStatus
    <2>12. ASSUME NEW t \in Tasks, TaskPoll(t) PROVE TypeOK'
      BY <2>12 DEF TaskPoll, Polling, TypeOK, volatile
    <2>13. ASSUME NEW t \in Tasks, NEW outcome \in {"complete", "error"},
                  TaskFinish(t, outcome) PROVE TypeOK'
      BY <2>13 DEF TaskFinish, Polling, TypeOK, JobStatus
    <2>14. ASSUME NEW t \in Tasks, TaskDies(t) PROVE TypeOK'
      BY <2>14, WriteFailsType DEF TaskDies, Polling, TypeOK
    <2>20. ASSUME NEW t \in Tasks, TaskRefused(t) PROVE TypeOK'
      BY <2>20, WriteFailsType DEF TaskRefused, Polling, TypeOK, JobStatus
    <2>21. ASSUME NEW t \in Tasks, StaleRecord(t) PROVE TypeOK'
      BY <2>21 DEF StaleRecord, Popped, TypeOK, JobStatus
    <2>22. ASSUME NEW a \in AnalysisIds, OtherFinishes(a) PROVE TypeOK'
      BY <2>22 DEF OtherFinishes, volatile, TypeOK
    <2>15. ASSUME NEW t \in Tasks, TimerFires(t) PROVE TypeOK'
      BY <2>15 DEF TimerFires, Popped, TypeOK
    <2>16. ASSUME NEW t \in Tasks, ThreadStep(t) PROVE TypeOK'
      <3>1. CASE ThreadImport(t)
        BY <3>1 DEF ThreadImport, TypeOK
      <3>2. CASE ThreadAnalyze(t)
        BY <3>2 DEF ThreadAnalyze, TypeOK
      <3>3. CASE ThreadScan(t)
        BY <3>3 DEF ThreadScan, TypeOK
      <3> QED BY <2>16, <3>1, <3>2, <3>3 DEF ThreadStep
    <2>17. ASSUME NEW t \in Tasks, ScanStart(t) PROVE TypeOK'
      BY <2>17 DEF ScanStart, TypeOK, JobStatus
    <2>18. ASSUME NEW t \in Tasks, ScanFinish(t) PROVE TypeOK'
      <3>1. PICK s \in {"complete", "error"} : job' = [job EXCEPT ![t].status = s]
        BY <2>18, Zenon DEF ScanFinish
      <3>2. job' \in [Tasks -> [id : JobIds \union {Nil}, status : JobStatus]]
        BY <3>1 DEF TypeOK, JobStatus
      <3>3. coro' \in [Tasks -> {"none", "waiting", "polling", "done", "dead", "foreign"}]
            /\ timers' \subseteq Tasks
        BY <2>18 DEF ScanFinish, TypeOK
      <3>4. faults' \in 0..MaxFaults
        BY <2>18, WriteFailsType DEF ScanFinish, TypeOK
      <3> QED BY <2>18, <3>2, <3>3, <3>4 DEF ScanFinish, TypeOK
    <2>19. CASE UNCHANGED vars
      BY <2>19 DEF vars, volatile, TypeOK
    <2> QED
      BY <2>1, <2>2, <2>3, <2>4, <2>5, <2>6, <2>7, <2>8, <2>9, <2>10, <2>11, <2>12,
         <2>13, <2>14, <2>15, <2>16, <2>17, <2>18, <2>19, <2>20, <2>21, <2>22
         DEF Next, Resume
  <1> QED BY <1>1, <1>2, PTL DEF Spec
-----------------------------------------------------------------------------
(* The queue caps.                                                         *)

\* A coroutine that waits for its permit, or for its first step, is queued.
WaitingQueued == \A t \in Tasks : coro[t] = "waiting" => job[t].status = "queued"

CapInv == TypeOK /\ WaitingQueued /\ JobCaps

\* The two sets the caps count.
Analyses == QueuedAnalyses(active_jobs)
Scans == AllActive \intersect ScanIds

LEMMA CountsFinite ==
  ASSUME NEW S \in SUBSET JobIds, NEW T \in SUBSET S
  PROVE  /\ IsFiniteSet(S) /\ IsFiniteSet(T)
         /\ Cardinality(S) \in Nat /\ Cardinality(T) \in Nat
         /\ Cardinality(T) <= Cardinality(S)
  BY JobsAssumption, FS_Subset, FS_CardinalityType

\* Only load(), search() and recovery make a record active: in every other step a
\* record stays or goes, and what is active after the step was active before it.
LEMMA NoNewActivity ==
  ASSUME TypeOK, WaitingQueued, [Next]_vars, ~LoadEnqueue, ~CrashRestart,
         \A i \in ScanIds : ~ScanSpawn(i)
  PROVE  /\ \A i \in JobIds : active_jobs'[i] \in {active_jobs[i], Nil}
         /\ \A t \in Tasks :
               /\ job'[t].status \in {"queued", "analyzing"}
                     => job[t].status \in {"queued", "analyzing"}
               /\ job'[t].status \in {"queued", "analyzing", "running"}
                     => job[t].status \in {"queued", "analyzing", "running"}
               /\ coro[t] = "foreign" => coro'[t] = "foreign"
         /\ WaitingQueued'
  <1> DEFINE Goal == /\ \A i \in JobIds : active_jobs'[i] \in {active_jobs[i], Nil}
                     /\ \A t \in Tasks :
                           /\ job'[t].status \in {"queued", "analyzing"}
                                 => job[t].status \in {"queued", "analyzing"}
                           /\ job'[t].status \in {"queued", "analyzing", "running"}
                                 => job[t].status \in {"queued", "analyzing", "running"}
                           /\ coro[t] = "foreign" => coro'[t] = "foreign"
                     /\ WaitingQueued'
  <1>1. ASSUME UNCHANGED <<job, coro>>,
               \/ UNCHANGED active_jobs
               \/ \E i \in JobIds \union {Nil} : active_jobs' = Popped(i)
        PROVE  Goal
    BY <1>1 DEF TypeOK, WaitingQueued, Popped
  <1>2. ASSUME NEW a \in AnalysisIds,
               LoadPurge(a) \/ LoadLookup(a) \/ LoadFromDisk(a) \/ Evict(a)
               \/ OtherFinishes(a)
        PROVE  Goal
    BY <1>1, <1>2 DEF LoadPurge, LoadLookup, LoadFromDisk, Evict, OtherFinishes, volatile
  <1>3. ASSUME NEW a \in AnalysisIds, DeleteBegin(a) PROVE Goal
    BY <1>1, <1>3 DEF DeleteBegin
  <1>4. CASE DeleteEnd
    BY <1>1, <1>4 DEF DeleteEnd
  <1>5. ASSUME NEW t \in Tasks, TaskRefused(t) PROVE Goal
    BY <1>5 DEF TaskRefused, Polling, TypeOK, WaitingQueued
  <1>16. ASSUME NEW t \in Tasks, StaleRecord(t) PROVE Goal
    BY <1>16 DEF StaleRecord, Popped, TypeOK, WaitingQueued
  <1>6. ASSUME NEW t \in Tasks, TaskStart(t) PROVE Goal
    BY <1>6 DEF TaskStart, TypeOK, WaitingQueued
  <1>7. ASSUME NEW t \in Tasks, TaskStartFails(t) PROVE Goal
    BY <1>7 DEF TaskStartFails, TypeOK, WaitingQueued
  <1>8. ASSUME NEW t \in Tasks, TaskPoll(t) PROVE Goal
    BY <1>8, <1>1 DEF TaskPoll, Polling, volatile
  <1>9. ASSUME NEW t \in Tasks, NEW outcome \in {"complete", "error"},
               TaskFinish(t, outcome) PROVE Goal
    BY <1>9 DEF TaskFinish, Polling, TypeOK, WaitingQueued
  <1>10. ASSUME NEW t \in Tasks, TaskDies(t) PROVE Goal
    BY <1>10 DEF TaskDies, Polling, TypeOK, WaitingQueued
  <1>11. ASSUME NEW t \in Tasks, TimerFires(t) PROVE Goal
    BY <1>11, <1>1 DEF TimerFires, TypeOK
  <1>12. ASSUME NEW t \in Tasks, ThreadStep(t) PROVE Goal
    BY <1>12, <1>1 DEF ThreadStep, ThreadImport, ThreadAnalyze, ThreadScan
  <1>13. ASSUME NEW t \in Tasks, ScanStart(t) PROVE Goal
    BY <1>13 DEF ScanStart, TypeOK, WaitingQueued
  <1>14. ASSUME NEW t \in Tasks, ScanFinish(t) PROVE Goal
    <2>1. PICK s \in {"complete", "error"} : job' = [job EXCEPT ![t].status = s]
      BY <1>14, Zenon DEF ScanFinish
    <2>2. /\ \A u \in Tasks : coro'[u] = "waiting" => coro[u] = "waiting" /\ u # t
          /\ \A u \in Tasks : coro[u] = "foreign" => coro'[u] = "foreign"
          /\ active_jobs' = active_jobs
      BY <1>14 DEF ScanFinish, TypeOK
    <2> QED BY <2>1, <2>2 DEF TypeOK, WaitingQueued
  <1>15. CASE UNCHANGED vars
    BY <1>15, <1>1 DEF vars, volatile
  <1> QED
    BY <1>2, <1>3, <1>4, <1>5, <1>6, <1>7, <1>8, <1>9, <1>10, <1>11, <1>12, <1>13,
       <1>14, <1>15, <1>16 DEF Next, Resume
\* A new task is queued under its id and leaves every other record alone.
LEMMA SpawnRecords ==
  ASSUME TypeOK, WaitingQueued, NEW t \in Tasks, NEW i \in JobIds,
         NEW table \in [JobIds -> Tasks \union {Nil}],
         \A j \in JobIds : table[j] \in {active_jobs[j], Nil},
         Spawn(t, i, table)
  PROVE  /\ WaitingQueued'
         /\ \A j \in JobIds \ {i} :
               /\ active_jobs'[j] = table[j]
               /\ table[j] # Nil => /\ job'[table[j]] = job[table[j]]
                                     /\ coro'[table[j]] = coro[table[j]]
  <1>1. /\ \A u \in Tasks \ {t} : coro'[u] = coro[u] /\ job'[u] = job[u]
        /\ job'[t].status = "queued"
    BY DEF Spawn, TypeOK
  <1>2. WaitingQueued'
    BY <1>1 DEF WaitingQueued
  <1>3. ASSUME NEW j \in JobIds \ {i}
        PROVE  active_jobs'[j] = table[j] /\ (table[j] # Nil => table[j] \in Tasks \ {t})
    BY NilFacts DEF Spawn, Unused
  <1> QED BY <1>1, <1>2, <1>3

\* After a restart nothing is queued and nothing waits.
LEMMA RestartQueue ==
  ASSUME TypeOK, CrashRestart
  PROVE  WaitingQueued'
  BY RestartRecords DEF WaitingQueued

\* The caps hold: the count and the insertion are one step.
THEOREM QueueCaps == Spec => []JobCaps
  <1>1. Init => CapInv
    <2> SUFFICES ASSUME Init PROVE CapInv
      OBVIOUS
    <2>1. TypeOK
      BY JobsAssumption DEF Init, TypeOK, NoJob, Idle, JobStatus
    <2>2. WaitingQueued
      BY DEF Init, WaitingQueued
    <2>3. QueuedAnalyses(active_jobs) = {} /\ AllActive \intersect ScanIds = {}
      BY DEF Init, QueuedAnalyses, AllActive, Records
    <2> QED BY <2>1, <2>2, <2>3, FS_EmptySet, JobsAssumption DEF CapInv, JobCaps
  <1>2. CapInv /\ TypeOK' /\ [Next]_vars => CapInv'
    <2> SUFFICES ASSUME CapInv, TypeOK', [Next]_vars PROVE WaitingQueued' /\ JobCaps'
      BY DEF CapInv
    <2> USE DEF CapInv
    <2>1. /\ Analyses \in SUBSET JobIds /\ Scans \in SUBSET JobIds
          /\ Analyses' \in SUBSET JobIds /\ Scans' \in SUBSET JobIds
          /\ AllActive \in SUBSET JobIds
      BY DEF Analyses, Scans, AllActive, Records, QueuedAnalyses
    <2> DEFINE Foreign == \A i \in Analyses : coro[active_jobs[i]] = "foreign"
    <2>2. JobCaps <=> /\ Cardinality(Analyses) <= MaxQueuedJobs \/ Foreign
                      /\ Cardinality(Scans) <= MaxQueuedJobs
      BY DEF JobCaps, Analyses, Scans
    <2>3. JobCaps' <=> /\ Cardinality(Analyses') <= MaxQueuedJobs \/ Foreign'
                       /\ Cardinality(Scans') <= MaxQueuedJobs
      BY DEF JobCaps, Analyses, Scans
    <2>4. Analyses' \subseteq Analyses /\ Cardinality(Analyses) <= MaxQueuedJobs
            => Cardinality(Analyses') <= MaxQueuedJobs
      BY <2>1, CountsFinite, JobsAssumption
    <2>5. Scans' \subseteq Scans => Cardinality(Scans') <= MaxQueuedJobs
      BY <2>1, <2>2, CountsFinite, JobsAssumption
    <2>6. ASSUME NEW S \in SUBSET JobIds, NEW T \in SUBSET JobIds, NEW i \in JobIds,
                 T \subseteq S \union {i}, Cardinality(S) < MaxQueuedJobs
          PROVE  Cardinality(T) <= MaxQueuedJobs
      <3>1. IsFiniteSet(S) /\ Cardinality(S) \in Nat
        BY CountsFinite
      <3>2. Cardinality(S \union {i}) = IF i \in S THEN Cardinality(S) ELSE Cardinality(S) + 1
        BY <3>1, FS_AddElement, Zenon
      <3>3. S \union {i} \in SUBSET JobIds
        OBVIOUS
      <3>4. Cardinality(T) \in Nat /\ Cardinality(T) <= Cardinality(S \union {i})
        BY <2>6, <3>3, CountsFinite, Zenon
      <3>5. MaxQueuedJobs \in Nat
        BY JobsAssumption
      <3> QED BY <2>6, <3>1, <3>2, <3>4, <3>5
    <2>7. CASE LoadEnqueue
      <3> DEFINE a == loop.id
                 table == IF loop.fresh THEN Popped(a) ELSE active_jobs
      <3>1. a \in AnalysisIds /\ a \in JobIds
        BY <2>7 DEF LoadEnqueue, TypeOK
      <3>2. /\ table \in [JobIds -> Tasks \union {Nil}]
            /\ \A j \in JobIds : table[j] \in {active_jobs[j], Nil}
        BY <3>1 DEF Popped, TypeOK
      <3>3. QueuedAnalyses(table) \subseteq Analyses
        BY <3>2 DEF QueuedAnalyses, Analyses
      <3>4. CASE active_jobs' = table /\ UNCHANGED <<job, coro>>
        <4> HIDE DEF table
        <4>1. Analyses' \subseteq Analyses /\ Scans' \subseteq Scans
          BY <3>2, <3>4 DEF Analyses, QueuedAnalyses, Scans, AllActive, Records
        <4>2. Foreign => Foreign'
          BY <3>2, <3>4 DEF Analyses, QueuedAnalyses
        <4> QED BY <3>4, <4>1, <4>2, <2>2, <2>3, <2>4, <2>5 DEF WaitingQueued
      <3>5. ASSUME NEW t \in Tasks, Spawn(t, a, table), ~QueueFull(table)
            PROVE  WaitingQueued' /\ JobCaps'
        <4> HIDE DEF table, a
        <4>1. /\ WaitingQueued'
              /\ \A j \in JobIds \ {a} :
                    /\ active_jobs'[j] = table[j]
                    /\ table[j] # Nil => job'[table[j]] = job[table[j]]
          BY <3>1, <3>2, <3>5, SpawnRecords
        <4>2. Analyses' \subseteq QueuedAnalyses(table) \union {a}
          BY <4>1 DEF Analyses, QueuedAnalyses
        <4>3. Cardinality(QueuedAnalyses(table)) < MaxQueuedJobs
          BY <3>3, <3>5, <2>1, CountsFinite, JobsAssumption DEF QueueFull
        <4>4. a \notin ScanIds
          BY <3>1, JobsAssumption
        <4>5. Scans' \subseteq Scans
          BY <3>2, <4>1, <4>4 DEF Scans, AllActive, Records
        <4>6. Cardinality(Analyses') <= MaxQueuedJobs
          BY <2>1, <2>6, <3>1, <3>3, <4>2, <4>3
        <4> QED BY <2>3, <2>5, <4>1, <4>5, <4>6
      <3> QED BY <2>7, <3>4, <3>5 DEF LoadEnqueue
    <2>8. ASSUME NEW i \in ScanIds, ScanSpawn(i) PROVE WaitingQueued' /\ JobCaps'
      <3>1. PICK t \in Tasks : Spawn(t, i, active_jobs)
        BY <2>8 DEF ScanSpawn
      <3>2. i \in JobIds /\ active_jobs \in [JobIds -> Tasks \union {Nil}]
            /\ \A j \in JobIds : active_jobs[j] \in {active_jobs[j], Nil}
        BY DEF TypeOK
      <3>3. /\ WaitingQueued'
            /\ \A j \in JobIds \ {i} :
                  /\ active_jobs'[j] = active_jobs[j]
                  /\ active_jobs[j] # Nil => job'[active_jobs[j]] = job[active_jobs[j]]
        BY <3>1, <3>2, SpawnRecords
      <3>4. Analyses' \subseteq AllActive \union {i}
        BY <3>3 DEF Analyses, QueuedAnalyses, AllActive, Records
      <3>5. Scans' \subseteq AllActive \union {i}
        BY <3>3 DEF Scans, AllActive, Records
      <3>6. Cardinality(AllActive) < MaxQueuedJobs
        BY <2>8 DEF ScanSpawn
      <3> QED BY <2>1, <2>3, <2>6, <3>2, <3>3, <3>4, <3>5, <3>6
    <2>10. CASE CrashRestart
      <3>1. Foreign' /\ Scans' = {}
        BY <2>10, RestartRecords, JobsAssumption
           DEF Analyses, QueuedAnalyses, Scans, AllActive, Records
      <3> QED BY <2>3, <2>10, <3>1, RestartQueue, FS_EmptySet, JobsAssumption
    <2>9. CASE ~LoadEnqueue /\ ~CrashRestart /\ \A i \in ScanIds : ~ScanSpawn(i)
      <3>1. /\ \A i \in JobIds : active_jobs'[i] \in {active_jobs[i], Nil}
            /\ \A t \in Tasks :
                  /\ job'[t].status \in {"queued", "analyzing"}
                        => job[t].status \in {"queued", "analyzing"}
                  /\ job'[t].status \in {"queued", "analyzing", "running"}
                        => job[t].status \in {"queued", "analyzing", "running"}
                  /\ coro[t] = "foreign" => coro'[t] = "foreign"
            /\ WaitingQueued'
        BY <2>9, NoNewActivity
      <3>2. \A i \in JobIds : active_jobs'[i] # Nil =>
               active_jobs'[i] = active_jobs[i] /\ active_jobs[i] \in Tasks
        BY <3>1 DEF TypeOK
      <3>3. Analyses' \subseteq Analyses
        BY <3>1, <3>2 DEF Analyses, QueuedAnalyses
      <3>4. Scans' \subseteq Scans
        BY <3>1, <3>2 DEF Scans, AllActive, Records
      <3>5. Foreign => Foreign'
        BY <3>1, <3>2 DEF Analyses, QueuedAnalyses
      <3> QED BY <2>2, <2>3, <2>4, <2>5, <3>1, <3>3, <3>4, <3>5
    <2> QED BY <2>7, <2>8, <2>9, <2>10
  <1> QED BY <1>1, <1>2, TypeCorrect, PTL DEF Spec, CapInv
-----------------------------------------------------------------------------
(* Finished records and active records.                                    *)

RecordsOwnId == \A i \in JobIds : active_jobs[i] # Nil => job[active_jobs[i]].id = i

ExpiryInv == TypeOK /\ WaitingQueued /\ RecordsOwnId /\ TerminalRecordExpires

\* A new task in the table: every other record and its timer are as they were.
LEMMA SpawnKeepsExpiry ==
  ASSUME ExpiryInv, NEW t \in Tasks, NEW i \in JobIds,
         NEW table \in [JobIds -> Tasks \union {Nil}],
         \A j \in JobIds : table[j] \in {active_jobs[j], Nil},
         Spawn(t, i, table), timers' = timers, faults' = faults
  PROVE  RecordsOwnId' /\ TerminalRecordExpires'
  <1> USE DEF ExpiryInv
  <1>1. \A j \in JobIds \ {i} :
           /\ active_jobs'[j] \in {active_jobs[j], Nil}
           /\ active_jobs'[j] # Nil => /\ job'[active_jobs'[j]] = job[active_jobs[j]]
                                        /\ coro'[active_jobs'[j]] = coro[active_jobs[j]]
    BY SpawnRecords
  <1>2. active_jobs'[i] = t /\ job'[t] = [id |-> i, status |-> "queued"]
    BY DEF Spawn, TypeOK
  <1>3. RecordsOwnId'
    BY <1>1, <1>2 DEF RecordsOwnId
  <1>4. \A j \in JobIds : j \in Records(Terminal)' =>
           /\ active_jobs'[j] = active_jobs[j] /\ j \in Records(Terminal)
           /\ coro'[active_jobs[j]] = coro[active_jobs[j]]
    BY <1>1, <1>2 DEF Records, Terminal
  <1> QED BY <1>3, <1>4 DEF TerminalRecordExpires, Records

\* The record of finished work is there only while its own pop is armed: both
\* coroutines set the status and arm the pop in one step, and a pop that fires
\* takes the record of its id with it, whichever task it belongs to.  Recovered
\* records are apart.
THEOREM ExpiryInvariant == Spec => []ExpiryInv
  <1>1. Init => ExpiryInv
    <2>1. Init => TypeOK
      BY JobsAssumption DEF Init, TypeOK, NoJob, Idle, JobStatus
    <2> QED BY <2>1 DEF Init, ExpiryInv, WaitingQueued, RecordsOwnId, TerminalRecordExpires, Records
  <1>2. ExpiryInv /\ TypeOK' /\ [Next]_vars => ExpiryInv'
    <2> SUFFICES ASSUME ExpiryInv, TypeOK', [Next]_vars
                 PROVE  WaitingQueued' /\ RecordsOwnId' /\ TerminalRecordExpires'
      BY DEF ExpiryInv
    <2> USE DEF ExpiryInv
    <2>1. CASE LoadEnqueue
      <3> DEFINE a == loop.id
                 table == IF loop.fresh THEN Popped(a) ELSE active_jobs
      <3>1. a \in JobIds
        BY <2>1 DEF LoadEnqueue, TypeOK
      <3>2. /\ table \in [JobIds -> Tasks \union {Nil}]
            /\ \A j \in JobIds : table[j] \in {active_jobs[j], Nil}
        BY <3>1 DEF Popped, TypeOK
      <3>3. timers' = timers /\ faults' = faults
        BY <2>1 DEF LoadEnqueue
      <3>4. CASE active_jobs' = table /\ UNCHANGED <<job, coro>>
        <4> HIDE DEF table
        <4> QED BY <3>2, <3>3, <3>4 DEF WaitingQueued, RecordsOwnId, TerminalRecordExpires, Records
      <3>5. ASSUME NEW t \in Tasks, Spawn(t, a, table)
            PROVE  WaitingQueued' /\ RecordsOwnId' /\ TerminalRecordExpires'
        <4> HIDE DEF table, a
        <4> QED BY <3>1, <3>2, <3>3, <3>5, SpawnRecords, SpawnKeepsExpiry
      <3> QED BY <2>1, <3>4, <3>5 DEF LoadEnqueue
    <2>2. ASSUME NEW i \in ScanIds, ScanSpawn(i)
          PROVE  WaitingQueued' /\ RecordsOwnId' /\ TerminalRecordExpires'
      <3>1. PICK t \in Tasks : Spawn(t, i, active_jobs)
        BY <2>2 DEF ScanSpawn
      <3>2. /\ i \in JobIds /\ active_jobs \in [JobIds -> Tasks \union {Nil}]
            /\ \A j \in JobIds : active_jobs[j] \in {active_jobs[j], Nil}
            /\ timers' = timers /\ faults' = faults
        BY <2>2 DEF TypeOK, ScanSpawn
      <3> QED BY <3>1, <3>2, SpawnRecords, SpawnKeepsExpiry
    <2>4. ASSUME CrashRestart PROVE WaitingQueued' /\ RecordsOwnId' /\ TerminalRecordExpires'
      <3>1. \A i \in JobIds : active_jobs'[i] # Nil =>
               job'[active_jobs'[i]].id = i /\ coro'[active_jobs'[i]] = "foreign"
        BY <2>4, RestartRecords
      <3> QED BY <2>4, <3>1, RestartQueue DEF RecordsOwnId, TerminalRecordExpires, Records
    <2>3. ASSUME ~LoadEnqueue, ~CrashRestart, \A i \in ScanIds : ~ScanSpawn(i)
          PROVE  WaitingQueued' /\ RecordsOwnId' /\ TerminalRecordExpires'
      <3>1. /\ \A i \in JobIds : active_jobs'[i] \in {active_jobs[i], Nil}
            /\ \A t \in Tasks : coro[t] = "foreign" => coro'[t] = "foreign"
            /\ WaitingQueued'
        BY <2>3, NoNewActivity
      <3> DEFINE Goal == RecordsOwnId' /\ TerminalRecordExpires'
      <3>2. ASSUME UNCHANGED <<job, timers, faults>> PROVE Goal
        BY <3>1, <3>2 DEF TypeOK, RecordsOwnId, TerminalRecordExpires, Records
      <3>3. ASSUME NEW t \in Tasks, UNCHANGED <<active_jobs, timers, faults>>,
                   NEW s \in JobStatus \ Terminal,
                   job' = [job EXCEPT ![t].status = s]
            PROVE  Goal
        BY <3>1, <3>3 DEF TypeOK, RecordsOwnId, TerminalRecordExpires, Records
      <3>4. ASSUME NEW t \in Tasks, UNCHANGED active_jobs, faults' \in {faults, faults + 1},
                   NEW s \in Terminal, job' = [job EXCEPT ![t].status = s],
                   faults' # faults \/ timers' = timers \union {t}
            PROVE  Goal
        <4>1. RecordsOwnId'
          BY <3>4 DEF TypeOK, RecordsOwnId
        <4>2. CASE faults' # faults
          BY <3>4, <4>1, <4>2 DEF TypeOK, TerminalRecordExpires
        <4>3. CASE faults' = faults /\ timers' = timers \union {t}
          BY <3>1, <3>4, <4>1, <4>3 DEF TypeOK, TerminalRecordExpires, Records
        <4> QED BY <3>4, <4>2, <4>3
      <3>5. ASSUME NEW a \in AnalysisIds,
                   LoadPurge(a) \/ LoadLookup(a) \/ LoadFromDisk(a) \/ Evict(a)
                   \/ DeleteBegin(a) \/ OtherFinishes(a)
            PROVE  Goal
        BY <3>2, <3>5
           DEF LoadPurge, LoadLookup, LoadFromDisk, Evict, DeleteBegin, OtherFinishes, volatile
      <3>6. CASE DeleteEnd
        BY <3>1, <3>2, <3>6 DEF DeleteEnd
      <3>7. ASSUME NEW t \in Tasks, TaskRefused(t) PROVE Goal
        BY <3>7 DEF TaskRefused, WriteFails, TypeOK, RecordsOwnId, TerminalRecordExpires, Records
      <3>18. ASSUME NEW t \in Tasks, StaleRecord(t) PROVE Goal
        <4>1. CASE job' = job
          BY <3>1, <3>2, <3>18, <4>1 DEF StaleRecord
        <4>2. CASE active_jobs' = active_jobs /\ job' = [job EXCEPT ![t].status = "complete"]
          BY <3>1, <3>18, <4>2
             DEF StaleRecord, TypeOK, RecordsOwnId, TerminalRecordExpires, Records
        <4> QED BY <3>18, <4>1, <4>2 DEF StaleRecord
      <3>8. ASSUME NEW t \in Tasks, TaskStart(t) PROVE Goal
        BY <3>3, <3>8 DEF TaskStart, JobStatus, Terminal
      <3>9. ASSUME NEW t \in Tasks, TaskStartFails(t) PROVE Goal
        BY <3>3, <3>9 DEF TaskStartFails, JobStatus, Terminal
      <3>10. ASSUME NEW t \in Tasks, TaskPoll(t) PROVE Goal
        BY <3>2, <3>10 DEF TaskPoll, volatile
      <3>11. ASSUME NEW t \in Tasks, NEW outcome \in {"complete", "error"},
                    TaskFinish(t, outcome) PROVE Goal
        BY <3>4, <3>11 DEF TaskFinish, Terminal
      <3>12. ASSUME NEW t \in Tasks, TaskDies(t) PROVE Goal
        BY <3>1, <3>12
           DEF TaskDies, WriteFails, TypeOK, RecordsOwnId, TerminalRecordExpires, Records
      <3>13. ASSUME NEW t \in Tasks, TimerFires(t) PROVE Goal
        <4>1. /\ job' = job /\ faults' = faults /\ timers' = timers \ {t}
              /\ active_jobs' = Popped(job[t].id) /\ coro' = coro
          BY <3>13 DEF TimerFires
        <4>2. \A i \in JobIds : active_jobs'[i] # Nil =>
                 active_jobs'[i] = active_jobs[i] /\ active_jobs[i] # t
          BY <3>1, <4>1 DEF Popped, RecordsOwnId, TypeOK
        <4> QED BY <4>1, <4>2 DEF RecordsOwnId, TerminalRecordExpires, Records
      <3>14. ASSUME NEW t \in Tasks, ThreadStep(t) PROVE Goal
        BY <3>2, <3>14 DEF ThreadStep, ThreadImport, ThreadAnalyze, ThreadScan
      <3>15. ASSUME NEW t \in Tasks, ScanStart(t) PROVE Goal
        BY <3>3, <3>15 DEF ScanStart, JobStatus, Terminal
      <3>16. ASSUME NEW t \in Tasks, ScanFinish(t) PROVE Goal
        <4>1. PICK s \in Terminal : job' = [job EXCEPT ![t].status = s]
          BY <3>16, Zenon DEF ScanFinish, Terminal
        <4>2. /\ active_jobs' = active_jobs /\ faults' \in {faults, faults + 1}
              /\ faults' # faults \/ timers' = timers \union {t}
          BY <3>16 DEF ScanFinish, WriteFails, TypeOK
        <4> QED BY <3>4, <4>1, <4>2
      <3>17. CASE UNCHANGED vars
        BY <3>1, <3>2, <3>17 DEF vars, volatile
      <3> QED
        BY <2>3, <3>1, <3>5, <3>6, <3>7, <3>8, <3>9, <3>10, <3>11, <3>12, <3>13, <3>14,
           <3>15, <3>16, <3>17, <3>18 DEF Next, Resume
    <2> QED BY <2>1, <2>2, <2>3, <2>4
  <1> QED BY <1>1, <1>2, TypeCorrect, PTL DEF Spec, ExpiryInv

\* Every finished record expires, as long as no write was refused.
THEOREM RecordsExpire == Spec => []TerminalRecordExpires
  BY ExpiryInvariant, PTL DEF ExpiryInv

-----------------------------------------------------------------------------
(* Status files.                                                          *)

\* A status that names another living process belongs to a recovered record: the
\* program is not loaded, no load() of it is in its locked section, and no task of
\* this server works for it.
Watched(a) ==
    /\ programs[a] = "absent" /\ loop.id # a
    /\ active_jobs[a] # Nil /\ coro[active_jobs[a]] = "foreign"
    /\ job[active_jobs[a]].status = "analyzing"
    /\ \A t \in Tasks : job[t].id = a => coro[t] = "foreign"

\* A recovered record has neither a future nor a timer.
ForeignIdle ==
    /\ \A t \in Tasks : coro[t] = "foreign" => fut[t] = "none"
    /\ \A t \in timers : coro[t] = "done"

ForeignInv ==
    /\ TypeOK /\ RecordsOwnId /\ ForeignIdle
    /\ \A a \in AnalysisIds : status_file[a] = "foreign" => Watched(a)

\* A step that leaves the table, the tasks and the loop alone.
LEMMA ForeignFrame ==
  ASSUME ForeignInv, UNCHANGED <<active_jobs, job, coro, timers, loop>>,
         \A t \in Tasks : fut[t] = "none" => fut'[t] = "none",
         \A a \in AnalysisIds : status_file'[a] = "foreign" =>
            status_file[a] = "foreign" /\ programs'[a] = programs[a]
  PROVE  ForeignIdle' /\ \A a \in AnalysisIds : status_file'[a] = "foreign" => Watched(a)'
  BY DEF ForeignInv, ForeignIdle, Watched

\* A step of the coroutine of t: its job dict keeps the id, no record moves, and
\* the status it writes, if any, is this server's own.
LEMMA ForeignTask ==
  ASSUME ForeignInv, NEW t \in Tasks, coro[t] \in {"waiting", "polling"},
         NEW s \in JobStatus, NEW c \in {"polling", "done", "dead"},
         UNCHANGED <<active_jobs, programs, loop>>,
         job' = [job EXCEPT ![t].status = s], coro' = [coro EXCEPT ![t] = c],
         \A u \in Tasks \ {t} : fut'[u] = fut[u],
         timers' = timers \/ (timers' = timers \union {t} /\ c = "done"),
         \A a \in AnalysisIds : status_file'[a] = "foreign" => status_file[a] = "foreign"
  PROVE  ForeignIdle' /\ \A a \in AnalysisIds : status_file'[a] = "foreign" => Watched(a)'
  <1>1. \A u \in Tasks \ {t} : job'[u] = job[u] /\ coro'[u] = coro[u]
    BY DEF ForeignInv, TypeOK
  <1>2. job'[t].id = job[t].id /\ coro'[t] = c /\ t \notin timers
    BY DEF ForeignInv, TypeOK, ForeignIdle
  <1>3. ForeignIdle'
    BY <1>1, <1>2 DEF ForeignInv, ForeignIdle, TypeOK
  <1>4. ASSUME NEW a \in AnalysisIds, status_file'[a] = "foreign" PROVE Watched(a)'
    <2>1. Watched(a) /\ active_jobs[a] # t /\ job[t].id # a /\ active_jobs[a] \in Tasks
      BY <1>4 DEF ForeignInv, Watched, TypeOK
    <2> QED BY <1>1, <1>2, <2>1 DEF Watched
  <1> QED BY <1>3, <1>4

\* A new task, of an id that has no foreign status.
LEMMA ForeignSpawn ==
  ASSUME ForeignInv, NEW t \in Tasks, NEW i \in JobIds,
         NEW table \in [JobIds -> Tasks \union {Nil}], Spawn(t, i, table),
         \A j \in JobIds : table[j] = active_jobs[j] \/ j = i,
         i \in AnalysisIds => status_file[i] # "foreign",
         UNCHANGED <<status_file, programs, timers>>, loop'.id = loop.id \/ loop' = Idle
  PROVE  ForeignIdle' /\ \A a \in AnalysisIds : status_file'[a] = "foreign" => Watched(a)'
  <1>1. /\ \A u \in Tasks \ {t} : coro'[u] = coro[u] /\ job'[u] = job[u] /\ fut'[u] = fut[u]
        /\ job'[t].id = i /\ coro'[t] = "waiting" /\ t \notin timers
        /\ \A j \in JobIds \ {i} : active_jobs'[j] = active_jobs[j] /\ active_jobs[j] # t
    BY DEF Spawn, Unused, ForeignInv, TypeOK
  <1>2. ForeignIdle'
    BY <1>1 DEF ForeignInv, ForeignIdle, TypeOK
  <1>3. ASSUME NEW a \in AnalysisIds, status_file'[a] = "foreign" PROVE Watched(a)'
    <2>1. Watched(a) /\ a # i /\ a \in JobIds /\ active_jobs[a] \in Tasks \ {t}
      BY <1>1, <1>3 DEF ForeignInv, Watched, TypeOK
    <2>2. loop'.id # a
      BY <2>1, NilFacts DEF Watched
    <2>3. active_jobs'[a] = active_jobs[a]
      BY <1>1, <2>1
    <2>4. programs'[a] = "absent"
      BY <2>1 DEF Watched
    <2> QED BY <1>1, <2>1, <2>2, <2>3, <2>4 DEF Watched
  <1> QED BY <1>2, <1>3

\* Recovered records stay what they are until the stale monitor, a fresh load or a
\* restart takes them.
THEOREM ForeignInvariant == Spec => []ForeignInv
  <1>1. Init => ForeignInv
    <2>1. Init => TypeOK
      BY JobsAssumption DEF Init, TypeOK, NoJob, Idle, JobStatus
    <2> QED BY <2>1 DEF Init, ForeignInv, RecordsOwnId, ForeignIdle
  <1>2. ForeignInv /\ ExpiryInv' /\ [Next]_vars => ForeignInv'
    <2> DEFINE Goal == ForeignIdle' /\ \A a \in AnalysisIds :
                          status_file'[a] = "foreign" => Watched(a)'
    <2> SUFFICES ASSUME ForeignInv, [Next]_vars PROVE Goal
      BY DEF ForeignInv, ExpiryInv
    <2>1. ASSUME NEW a \in AnalysisIds, LoadPurge(a) PROVE Goal
      <3>1. ForeignIdle'
        BY <2>1 DEF LoadPurge, Closed, ForeignInv, ForeignIdle, TypeOK
      <3>2. ASSUME NEW b \in AnalysisIds, status_file'[b] = "foreign" PROVE Watched(b)'
        <4>1. b # a /\ Watched(b)
          BY <2>1, <3>2 DEF LoadPurge, ForeignInv, TypeOK
        <4> QED BY <2>1, <4>1 DEF LoadPurge, ForeignInv, TypeOK, Watched
      <3> QED BY <3>1, <3>2
    <2>2. ASSUME NEW a \in AnalysisIds, LoadLookup(a) PROVE Goal
      BY <2>2 DEF LoadLookup, ForeignInv, ForeignIdle, Watched
    <2>3. ASSUME NEW a \in AnalysisIds, LoadFromDisk(a) PROVE Goal
      BY <2>3, ForeignFrame DEF LoadFromDisk, ForeignInv, TypeOK
    <2>4. ASSUME NEW a \in AnalysisIds, DeleteBegin(a) PROVE Goal
      <3>1. ForeignIdle'
        BY <2>4 DEF DeleteBegin, Closed, ForeignInv, ForeignIdle, TypeOK
      <3>2. ASSUME NEW b \in AnalysisIds, status_file'[b] = "foreign" PROVE Watched(b)'
        <4>1. b # a /\ Watched(b) /\ a \in JobIds /\ b \in JobIds
          BY <2>4, <3>2 DEF DeleteBegin, ForeignInv, Watched
        <4>2. active_jobs'[b] = active_jobs[b] /\ programs'[b] = programs[b]
          BY <2>4, <4>1 DEF DeleteBegin, Popped, ForeignInv, TypeOK
        <4> QED BY <2>4, <4>1, <4>2 DEF DeleteBegin, Watched
      <3> QED BY <3>1, <3>2
    <2>5. ASSUME NEW a \in AnalysisIds, Evict(a) PROVE Goal
      <3>1. \A t \in Tasks : fut[t] = "none" => fut'[t] = "none"
        BY <2>5 DEF Evict, Closed
      <3>2. \A b \in AnalysisIds : status_file'[b] = "foreign" =>
               status_file[b] = "foreign" /\ programs'[b] = programs[b]
        BY <2>5 DEF Evict, ForeignInv, Watched, TypeOK
      <3> QED BY <2>5, <3>1, <3>2, ForeignFrame DEF Evict
    <2>6. ASSUME NEW a \in AnalysisIds, OtherFinishes(a) PROVE Goal
      BY <2>6, ForeignFrame DEF OtherFinishes, volatile, ForeignInv, TypeOK
    <2>7. CASE LoadEnqueue
      <3> DEFINE a == loop.id
                 table == IF loop.fresh THEN Popped(a) ELSE active_jobs
      <3>1. a \in AnalysisIds /\ a \in JobIds /\ status_file[a] # "foreign"
        BY <2>7 DEF LoadEnqueue, ForeignInv, TypeOK, Watched
      <3>2. /\ table \in [JobIds -> Tasks \union {Nil}]
            /\ \A j \in JobIds : table[j] = active_jobs[j] \/ j = a
        BY <3>1 DEF Popped, ForeignInv, TypeOK
      <3>3. UNCHANGED <<status_file, programs, timers>> /\ loop' = Idle
        BY <2>7 DEF LoadEnqueue
      <3>4. CASE active_jobs' = table /\ UNCHANGED <<job, coro, fut>>
        <4> HIDE DEF table
        <4>1. ForeignIdle'
          BY <3>3, <3>4 DEF ForeignInv, ForeignIdle
        <4>2. ASSUME NEW b \in AnalysisIds, status_file'[b] = "foreign" PROVE Watched(b)'
          <5>1. Watched(b) /\ b # a /\ b \in JobIds
            BY <3>1, <3>3, <4>2 DEF ForeignInv
          <5> QED BY <3>2, <3>3, <3>4, <5>1, NilFacts DEF Watched
        <4> QED BY <4>1, <4>2
      <3>5. ASSUME NEW t \in Tasks, Spawn(t, a, table) PROVE Goal
        <4> HIDE DEF table, a
        <4> QED BY <3>1, <3>2, <3>3, <3>5, ForeignSpawn
      <3> QED BY <2>7, <3>4, <3>5 DEF LoadEnqueue
    <2>8. CASE DeleteEnd
      BY <2>8, ForeignFrame DEF DeleteEnd, ForeignInv, TypeOK
    <2>9. CASE CrashRestart
      <3>1. TypeOK
        BY DEF ForeignInv
      <3>2. ForeignIdle'
        BY <2>9, <3>1, RestartRecords DEF ForeignIdle
      <3>3. ASSUME NEW a \in AnalysisIds, status_file'[a] = "foreign" PROVE Watched(a)'
        <4>1. /\ active_jobs'[a] # Nil /\ programs'[a] = "absent" /\ loop' = Idle
              /\ \A t \in Tasks : job'[t].id # Nil => coro'[t] = "foreign"
              /\ a \in JobIds /\ a # Nil
          BY <2>9, <3>1, <3>3, RestartRecords, NilFacts
        <4>2. coro'[active_jobs'[a]] = "foreign" /\ job'[active_jobs'[a]].status = "analyzing"
          BY <2>9, <3>1, <4>1, RestartRecords
        <4> QED BY <4>1, <4>2, NilFacts DEF Watched
      <3> QED BY <3>2, <3>3
    <2>10. ASSUME NEW i \in ScanIds, ScanSpawn(i) PROVE Goal
      <3>1. PICK t \in Tasks : Spawn(t, i, active_jobs)
        BY <2>10 DEF ScanSpawn
      <3>2. /\ i \in JobIds /\ i \notin AnalysisIds
            /\ active_jobs \in [JobIds -> Tasks \union {Nil}]
            /\ UNCHANGED <<status_file, programs, timers, loop>>
        BY <2>10, JobsAssumption DEF ScanSpawn, ForeignInv, TypeOK
      <3> QED BY <3>1, <3>2, ForeignSpawn
    <2>11. ASSUME NEW t \in Tasks, TaskStart(t) PROVE Goal
      BY <2>11, ForeignTask DEF TaskStart, ForeignInv, TypeOK, JobStatus
    <2>12. ASSUME NEW t \in Tasks, TaskStartFails(t) PROVE Goal
      BY <2>12, ForeignTask DEF TaskStartFails, ForeignInv, TypeOK, JobStatus
    <2>13. ASSUME NEW t \in Tasks, TaskPoll(t) PROVE Goal
      BY <2>13, ForeignFrame DEF TaskPoll, Polling, volatile, ForeignInv, TypeOK
    <2>14. ASSUME NEW t \in Tasks, NEW outcome \in {"complete", "error"},
                  TaskFinish(t, outcome) PROVE Goal
      BY <2>14, ForeignTask DEF TaskFinish, Polling, ForeignInv, TypeOK, JobStatus
    <2>15. ASSUME NEW t \in Tasks, TaskRefused(t) PROVE Goal
      BY <2>15, ForeignTask DEF TaskRefused, Polling, ForeignInv, TypeOK, JobStatus
    <2>16. ASSUME NEW t \in Tasks, TaskDies(t) PROVE Goal
      <3>1. job' = [job EXCEPT ![t].status = job[t].status] /\ job[t].status \in JobStatus
        BY <2>16 DEF TaskDies, ForeignInv, TypeOK
      <3> QED BY <2>16, <3>1, ForeignTask DEF TaskDies, Polling
    <2>17. ASSUME NEW t \in Tasks, ThreadStep(t) PROVE Goal
      <3>1. UNCHANGED <<active_jobs, job, coro, timers, loop, status_file>>
        BY <2>17 DEF ThreadStep, ThreadImport, ThreadAnalyze, ThreadScan
      <3>2. /\ fut[t] # "none"
            /\ \A u \in Tasks \ {t} : fut'[u] = fut[u]
            /\ \A a \in AnalysisIds : programs'[a] # programs[a] => job[t].id = a
        BY <2>17 DEF ThreadStep, ThreadImport, ThreadAnalyze, ThreadScan, ForeignInv, TypeOK
      <3>3. \A a \in AnalysisIds : status_file[a] = "foreign" => programs'[a] = programs[a]
        BY <3>2 DEF ForeignInv, ForeignIdle, Watched
      <3> QED BY <3>1, <3>2, <3>3, ForeignFrame
    <2>18. ASSUME NEW t \in Tasks, TimerFires(t) PROVE Goal
      <3>1. coro[t] = "done" /\ UNCHANGED <<job, coro, fut, status_file, programs, loop>>
        BY <2>18 DEF TimerFires, ForeignInv, ForeignIdle
      <3>2. ForeignIdle'
        BY <2>18, <3>1 DEF TimerFires, ForeignInv, ForeignIdle
      <3>3. ASSUME NEW a \in AnalysisIds, status_file'[a] = "foreign" PROVE Watched(a)'
        <4>1. Watched(a) /\ job[t].id # a
          BY <3>1, <3>3 DEF ForeignInv, Watched
        <4>2. active_jobs'[a] = active_jobs[a]
          BY <2>18, <4>1 DEF TimerFires, Popped, ForeignInv, TypeOK
        <4> QED BY <3>1, <4>1, <4>2 DEF Watched
      <3> QED BY <3>2, <3>3
    <2>19. ASSUME NEW t \in Tasks, StaleRecord(t) PROVE Goal
      <3>1. ForeignIdle'
        BY <2>19 DEF StaleRecord, ForeignInv, ForeignIdle
      <3>2. ASSUME NEW a \in AnalysisIds, status_file'[a] = "foreign" PROVE Watched(a)'
        <4>1. /\ job[t].id \in AnalysisIds => status_file'[job[t].id] # "foreign"
              /\ status_file[a] = "foreign"
          BY <2>19, <3>2 DEF StaleRecord, ForeignInv, TypeOK
        <4>2. Watched(a) /\ job[t].id # a /\ a \in JobIds
          BY <3>2, <4>1 DEF ForeignInv
        <4>3. active_jobs[a] \in Tasks \ {t}
          BY <4>2 DEF ForeignInv, Watched, RecordsOwnId, TypeOK
        <4>4. active_jobs'[a] = active_jobs[a] /\ job'[active_jobs[a]] = job[active_jobs[a]]
              /\ \A u \in Tasks : job'[u].id = job[u].id
          BY <2>19, <4>2, <4>3 DEF StaleRecord, Popped, ForeignInv, TypeOK
        <4> QED BY <2>19, <4>2, <4>4 DEF StaleRecord, Watched
      <3> QED BY <3>1, <3>2
    <2>20. ASSUME NEW t \in Tasks, ScanStart(t) PROVE Goal
      BY <2>20, ForeignTask DEF ScanStart, ForeignInv, TypeOK, JobStatus
    <2>21. ASSUME NEW t \in Tasks, ScanFinish(t) PROVE Goal
      <3>1. PICK s \in {"complete", "error"}, c \in {"done", "dead"} :
              /\ job' = [job EXCEPT ![t].status = s] /\ coro' = [coro EXCEPT ![t] = c]
              /\ timers' = timers \/ (timers' = timers \union {t} /\ c = "done")
        BY <2>21, Zenon DEF ScanFinish
      <3>2. /\ UNCHANGED <<active_jobs, programs, loop, fut, status_file>>
            /\ coro[t] = "polling" /\ s \in JobStatus
        BY <2>21 DEF ScanFinish, JobStatus
      <3> QED BY <3>1, <3>2, ForeignTask
    <2>22. CASE UNCHANGED vars
      BY <2>22, ForeignFrame DEF vars, volatile
    <2> QED
      BY <2>1, <2>2, <2>3, <2>4, <2>5, <2>6, <2>7, <2>8, <2>9, <2>10, <2>11, <2>12, <2>13,
         <2>14, <2>15, <2>16, <2>17, <2>18, <2>19, <2>20, <2>21, <2>22
         DEF Next, Resume
  <1> QED BY <1>1, <1>2, ExpiryInvariant, PTL DEF Spec

\* There is no status file without its directory.
FilesNeedDirs == \A a \in AnalysisIds : project[a] = "none" => status_file[a] = "none"

\* This server's "analyzing" has a coroutine.
OwnWriter ==
    faults = 0 => \A a \in AnalysisIds : status_file[a] = "analyzing" =>
        \E t \in Tasks : coro[t] = "polling" /\ job[t].id = a

WriterInv == TypeOK /\ FilesNeedDirs /\ OwnWriter

\* A step that writes no file and ends no coroutine keeps every writer.
LEMMA WritersStay ==
  ASSUME OwnWriter, faults' = faults,
         \A a \in AnalysisIds : status_file'[a] = "analyzing" => status_file[a] = "analyzing",
         \A t \in Tasks : coro[t] = "polling" => coro'[t] = "polling" /\ job'[t].id = job[t].id
  PROVE  OwnWriter'
  BY DEF OwnWriter

\* Spawning a task ends no coroutine.
LEMMA SpawnKeepsWriters ==
  ASSUME TypeOK, NEW t \in Tasks, NEW i \in JobIds,
         NEW table \in [JobIds -> Tasks \union {Nil}], Spawn(t, i, table)
  PROVE  \A u \in Tasks : coro[u] = "polling" => coro'[u] = "polling" /\ job'[u].id = job[u].id
  BY DEF Spawn, Unused, TypeOK

\* As long as no write was refused, "analyzing" on disk has a coroutine that will
\* replace it: a coroutine that dies between polls lost its directory, and the file
\* with it.
THEOREM WriterInvariant == Spec => []WriterInv
  <1>1. Init => WriterInv
    <2>1. Init => TypeOK
      BY JobsAssumption DEF Init, TypeOK, NoJob, Idle, JobStatus
    <2> QED BY <2>1 DEF Init, WriterInv, FilesNeedDirs, OwnWriter
  <1>2. WriterInv /\ TypeOK' /\ [Next]_vars => WriterInv'
    <2> SUFFICES ASSUME WriterInv, TypeOK', [Next]_vars
                 PROVE  FilesNeedDirs' /\ OwnWriter'
      BY DEF WriterInv
    <2> USE DEF WriterInv
    <2> DEFINE Goal == FilesNeedDirs' /\ OwnWriter'
    <2>1. ASSUME UNCHANGED <<status_file, faults>>,
                 \A a \in AnalysisIds : project'[a] = "none" => project[a] = "none",
                 \A t \in Tasks : coro[t] = "polling" =>
                    coro'[t] = "polling" /\ job'[t].id = job[t].id
          PROVE  Goal
      BY <2>1, WritersStay DEF FilesNeedDirs
    <2>2. ASSUME NEW a \in AnalysisIds, UNCHANGED <<faults, coro, job>>,
                 project' = [project EXCEPT ![a] = "none"],
                 status_file' = [status_file EXCEPT ![a] = "none"]
          PROVE  Goal
      BY <2>2, WritersStay DEF FilesNeedDirs, TypeOK
    <2>3. ASSUME NEW a \in AnalysisIds, LoadPurge(a) PROVE Goal
      BY <2>2, <2>3 DEF LoadPurge
    <2>4. ASSUME NEW a \in AnalysisIds, LoadLookup(a) \/ LoadFromDisk(a) \/ Evict(a)
          PROVE  Goal
      BY <2>1, <2>4 DEF LoadLookup, LoadFromDisk, Evict
    <2>22. ASSUME NEW a \in AnalysisIds, OtherFinishes(a) PROVE Goal
      BY <2>22, WritersStay DEF OtherFinishes, volatile, FilesNeedDirs, TypeOK
    <2>5. ASSUME NEW a \in AnalysisIds, DeleteBegin(a) PROVE Goal
      <3>1. \A b \in AnalysisIds : project'[b] = "none" => project[b] = "none"
        BY <2>5 DEF DeleteBegin, TypeOK
      <3> QED BY <2>1, <2>5, <3>1 DEF DeleteBegin
    <2>6. ASSUME LoadEnqueue PROVE Goal
      <3> DEFINE a == loop.id
                 table == IF loop.fresh THEN Popped(a) ELSE active_jobs
      <3>1. a \in JobIds
        BY <2>6 DEF LoadEnqueue, TypeOK
      <3>2. table \in [JobIds -> Tasks \union {Nil}]
        BY <3>1 DEF Popped, TypeOK
      <3>3. UNCHANGED <<status_file, faults, project>>
        BY <2>6 DEF LoadEnqueue
      <3>4. CASE UNCHANGED <<job, coro>>
        BY <2>1, <3>3, <3>4
      <3>5. ASSUME NEW t \in Tasks, Spawn(t, a, table) PROVE Goal
        <4> HIDE DEF table, a
        <4>1. \A u \in Tasks : coro[u] = "polling" =>
                 coro'[u] = "polling" /\ job'[u].id = job[u].id
          BY <3>1, <3>2, <3>5, SpawnKeepsWriters
        <4> QED BY <2>1, <3>3, <4>1
      <3> QED BY <2>6, <3>4, <3>5 DEF LoadEnqueue
    <2>7. ASSUME DeleteEnd PROVE Goal
      <3>1. deleting \in AnalysisIds
        BY <2>7 DEF DeleteEnd, TypeOK
      <3> QED BY <2>2, <2>7, <3>1 DEF DeleteEnd
    <2>8. ASSUME CrashRestart PROVE Goal
      <3>1. OwnWriter'
        BY <2>8, RestartRecords DEF OwnWriter
      <3>2. PICK opened \in SUBSET AnalysisIds, recovered \in SUBSET AnalysisIds :
                 RestartFiles(opened, recovered)
        BY <2>8, Zenon DEF CrashRestart
      <3>3. FilesNeedDirs'
        BY <3>2 DEF RestartFiles, Recovered, FilesNeedDirs, TypeOK
      <3> QED BY <3>1, <3>3
    <2>9. ASSUME NEW i \in ScanIds, ScanSpawn(i) PROVE Goal
      <3>1. PICK t \in Tasks : Spawn(t, i, active_jobs)
        BY <2>9 DEF ScanSpawn
      <3>2. i \in JobIds /\ active_jobs \in [JobIds -> Tasks \union {Nil}]
        BY DEF TypeOK
      <3>3. \A u \in Tasks : coro[u] = "polling" =>
               coro'[u] = "polling" /\ job'[u].id = job[u].id
        BY <3>1, <3>2, SpawnKeepsWriters
      <3> QED BY <2>1, <2>9, <3>3 DEF ScanSpawn
    <2>10. ASSUME NEW t \in Tasks, TaskStart(t) PROVE Goal
      BY <2>10 DEF TaskStart, TypeOK, FilesNeedDirs, OwnWriter
    <2>11. ASSUME NEW t \in Tasks, TaskStartFails(t) PROVE Goal
      BY <2>1, <2>11 DEF TaskStartFails, TypeOK
    <2>12. ASSUME NEW t \in Tasks, TaskPoll(t) PROVE Goal
      BY <2>12 DEF TaskPoll, Polling, volatile, TypeOK, FilesNeedDirs, OwnWriter
    <2>13. ASSUME NEW t \in Tasks, NEW outcome \in {"complete", "error"},
                  TaskFinish(t, outcome) PROVE Goal
      BY <2>13 DEF TaskFinish, Polling, TypeOK, FilesNeedDirs, OwnWriter
    <2>14. ASSUME NEW t \in Tasks, TaskDies(t) PROVE Goal
      <3>1. FilesNeedDirs'
        BY <2>14 DEF TaskDies, FilesNeedDirs
      <3>2. CASE project[job[t].id] = "none"
        <4>1. status_file[job[t].id] = "none"
          BY <2>14, <3>2 DEF TaskDies, Polling, FilesNeedDirs
        <4>2. \A u \in Tasks \ {t} : coro'[u] = coro[u] /\ job'[u] = job[u]
          BY <2>14 DEF TaskDies, TypeOK
        <4> QED BY <2>14, <3>1, <3>2, <4>1, <4>2 DEF TaskDies, OwnWriter
      <3>3. CASE project[job[t].id] # "none"
        BY <2>14, <3>1, <3>3 DEF TaskDies, WriteFails, TypeOK, OwnWriter
      <3> QED BY <3>2, <3>3
    <2>23. ASSUME NEW t \in Tasks, TaskRefused(t) PROVE Goal
      BY <2>23 DEF TaskRefused, WriteFails, TypeOK, FilesNeedDirs, OwnWriter
    <2>24. ASSUME NEW t \in Tasks, StaleRecord(t) PROVE Goal
      <3>1. coro' = coro /\ faults' = faults /\ \A u \in Tasks : job'[u].id = job[u].id
        BY <2>24 DEF StaleRecord, TypeOK
      <3>2. \A a \in AnalysisIds : status_file'[a] = "analyzing" => status_file[a] = "analyzing"
        BY <2>24 DEF StaleRecord, TypeOK
      <3>3. FilesNeedDirs'
        BY <2>24 DEF StaleRecord, FilesNeedDirs, TypeOK
      <3> QED BY <3>1, <3>2, <3>3, WritersStay
    <2>15. ASSUME NEW t \in Tasks, TimerFires(t) PROVE Goal
      BY <2>1, <2>15 DEF TimerFires
    <2>16. ASSUME NEW t \in Tasks, ThreadImport(t) PROVE Goal
      <3>1. \A b \in AnalysisIds : project'[b] = "none" => project[b] = "none"
        BY <2>16 DEF ThreadImport, TypeOK
      <3> QED BY <2>1, <2>16, <3>1 DEF ThreadImport
    <2>17. ASSUME NEW t \in Tasks, ThreadAnalyze(t) PROVE Goal
      <3>1. \A b \in AnalysisIds : project'[b] = "none" => project[b] = "none"
        BY <2>17 DEF ThreadAnalyze, TypeOK
      <3> QED BY <2>1, <2>17, <3>1 DEF ThreadAnalyze
    <2>18. ASSUME NEW t \in Tasks, ThreadScan(t) PROVE Goal
      BY <2>1, <2>18 DEF ThreadScan
    <2>19. ASSUME NEW t \in Tasks, ScanStart(t) PROVE Goal
      BY <2>1, <2>19 DEF ScanStart, TypeOK
    <2>20. ASSUME NEW t \in Tasks, ScanFinish(t) PROVE Goal
      <3>1. PICK s \in Terminal : job' = [job EXCEPT ![t].status = s]
        BY <2>20, Zenon DEF ScanFinish, Terminal
      <3>2. /\ job[t].id \in ScanIds
            /\ UNCHANGED <<status_file, project>>
            /\ faults' \in {faults, faults + 1}
            /\ \A u \in Tasks \ {t} : coro'[u] = coro[u]
        BY <2>20 DEF ScanFinish, WriteFails, TypeOK
      <3>3. \A u \in Tasks : job'[u].id = job[u].id
        BY <3>1 DEF TypeOK
      <3> QED BY <3>2, <3>3, JobsAssumption DEF TypeOK, FilesNeedDirs, OwnWriter
    <2>21. CASE UNCHANGED vars
      BY <2>1, <2>21 DEF vars, volatile
    <2> QED
      BY <2>3, <2>4, <2>5, <2>6, <2>7, <2>8, <2>9, <2>10, <2>11, <2>12, <2>13, <2>14,
         <2>15, <2>16, <2>17, <2>18, <2>19, <2>20, <2>21, <2>22, <2>23, <2>24
         DEF Next, Resume, ThreadStep
  <1> QED BY <1>1, <1>2, TypeCorrect, PTL DEF Spec, WriterInv

\* No status file is left "analyzing" for good by anything but a refused write and
\* recovery's own exception.
THEOREM AnalyzingAttended == Spec => []AnalyzingHasWriter
  <1>1. OwnWriter /\ ForeignInv => AnalyzingHasWriter
    BY DEF OwnWriter, ForeignInv, Watched, AnalyzingHasWriter
  <1> QED BY <1>1, WriterInvariant, ForeignInvariant, PTL DEF WriterInv
-----------------------------------------------------------------------------
(* One analysis of an id.                                                  *)

\* Work under way is in the job table, unless it was deprived of its record.
WorkIsRecorded ==
    faults = 0 => \A t \in Tasks :
        Working(t) /\ t \notin cancelled \union lost =>
            active_jobs[job[t].id] = t /\ job[t].status \notin Terminal

\* A coroutine that ended with a verdict, or never began, leaves no import behind.
DoneIsOver ==
    faults = 0 => \A t \in Tasks :
        coro[t] \in {"none", "done", "foreign"} =>
            fut[t] \notin {"submitted", "analyzing", "orphaned"}

WorkInv == ExpiryInv /\ ForeignInv /\ DoneIsOver /\ WorkIsRecorded

\* A step that keeps the table, the job dicts and the histories, and gives nobody
\* work.
LEMMA WorkFrame ==
  ASSUME WorkInv, UNCHANGED <<active_jobs, job, coro, cancelled, lost, faults>>,
         \A t \in Tasks : fut'[t] \in {"submitted", "analyzing", "orphaned"} =>
            fut[t] \in {"submitted", "analyzing", "orphaned"}
  PROVE  DoneIsOver' /\ WorkIsRecorded'
  BY DEF WorkInv, DoneIsOver, WorkIsRecorded, Working

\* A step of the coroutine of t: the table and the histories stay.
LEMMA WorkTask ==
  ASSUME WorkInv, NEW t \in Tasks, coro[t] \in {"waiting", "polling"},
         NEW s \in JobStatus, NEW c \in {"polling", "done", "dead"},
         NEW f \in {"none", "submitted", "analyzing", "orphaned",
                    "scanning", "succeeded", "closed", "failed"},
         UNCHANGED <<active_jobs, cancelled, lost, faults>>,
         job' = [job EXCEPT ![t].status = s], coro' = [coro EXCEPT ![t] = c],
         fut' = [fut EXCEPT ![t] = f],
         s \in Terminal => c = "done",
         c = "done" => f \notin {"submitted", "analyzing", "orphaned"}
  PROVE  DoneIsOver' /\ WorkIsRecorded'
  <1>1. /\ \A u \in Tasks \ {t} : job'[u] = job[u] /\ coro'[u] = coro[u] /\ fut'[u] = fut[u]
        /\ job'[t].id = job[t].id /\ job'[t].status = s /\ coro'[t] = c /\ fut'[t] = f
    BY DEF WorkInv, ForeignInv, TypeOK
  <1>2. DoneIsOver'
    BY <1>1 DEF WorkInv, DoneIsOver
  <1>3. ASSUME NEW u \in Tasks, faults' = 0, Working(u)', u \notin (cancelled \union lost)'
        PROVE  active_jobs'[job'[u].id] = u /\ job'[u].status \notin Terminal
    <2>1. CASE u = t
      <3>1. Working(t) /\ c # "done"
        BY <1>1, <1>3, <2>1 DEF Working
      <3> QED BY <1>1, <1>3, <2>1, <3>1 DEF WorkInv, WorkIsRecorded
    <2>2. CASE u # t
      BY <1>1, <1>3, <2>2 DEF WorkInv, WorkIsRecorded, Working
    <2> QED BY <2>1, <2>2
  <1> QED BY <1>2, <1>3 DEF WorkIsRecorded

\* A step after which no write has ever gone well says nothing of the work.
LEMMA WorkFault == ASSUME WorkInv, WriteFails PROVE DoneIsOver' /\ WorkIsRecorded'
  BY DEF WorkInv, ForeignInv, TypeOK, WriteFails, DoneIsOver, WorkIsRecorded

\* A new task in the table: what it replaces there was killed, or was over.
LEMMA WorkSpawn ==
  ASSUME WorkInv, NEW t \in Tasks, NEW i \in JobIds,
         NEW table \in [JobIds -> Tasks \union {Nil}], Spawn(t, i, table),
         \A j \in JobIds : table[j] = active_jobs[j] \/ j = i,
         i \in AnalysisIds /\ active_jobs[i] # Nil =>
            active_jobs[i] \in cancelled' \/ job[active_jobs[i]].status \in Terminal
                                           \/ active_jobs[i] = t,
         cancelled \ {t} \subseteq cancelled', t \notin cancelled', faults' = faults
  PROVE  DoneIsOver' /\ WorkIsRecorded'
  <1>1. /\ \A u \in Tasks \ {t} : coro'[u] = coro[u] /\ job'[u] = job[u] /\ fut'[u] = fut[u]
        /\ job'[t].id = i /\ job'[t].status = "queued" /\ coro'[t] = "waiting"
        /\ fut'[t] = "none" /\ lost' = lost \ {t} /\ active_jobs'[i] = t
        /\ \A j \in JobIds \ {i} : active_jobs'[j] = active_jobs[j]
    BY DEF Spawn, WorkInv, ForeignInv, TypeOK
  <1>2. DoneIsOver'
    BY <1>1 DEF WorkInv, DoneIsOver
  <1>3. ASSUME NEW u \in Tasks, faults' = 0, Working(u)', u \notin (cancelled \union lost)'
        PROVE  active_jobs'[job'[u].id] = u /\ job'[u].status \notin Terminal
    <2>1. CASE u = t
      BY <1>1, <2>1 DEF Terminal
    <2>2. CASE u # t
      <3>1. /\ Working(u) /\ u \notin cancelled \union lost /\ job'[u] = job[u]
            /\ job[u].id \in AnalysisIds
        BY <1>1, <1>3, <2>2 DEF Working
      <3>2. active_jobs[job[u].id] = u /\ job[u].status \notin Terminal
        BY <1>3, <3>1 DEF WorkInv, WorkIsRecorded
      <3>3. job[u].id # i
        BY <1>3, <2>2, <3>1, <3>2, NilFacts
      <3> QED BY <1>1, <3>1, <3>2, <3>3
    <2> QED BY <2>1, <2>2
  <1> QED BY <1>2, <1>3 DEF WorkIsRecorded

\* A record that goes takes its task out of the recorded work: it is over, or it
\* counts as deprived from now on.
LEMMA WorkPop ==
  ASSUME WorkInv, NEW i \in JobIds \union {Nil}, active_jobs' = Popped(i),
         UNCHANGED <<job, coro, faults>>,
         \A t \in Tasks : fut'[t] \in {"submitted", "analyzing", "orphaned"} =>
            fut[t] \in {"submitted", "analyzing", "orphaned"},
         cancelled \union lost \subseteq (cancelled \union lost)',
         faults = 0 => \A t \in Tasks : active_jobs[i] = t /\ i \in JobIds =>
            t \in (cancelled \union lost)' \/ ~Working(t)
  PROVE  DoneIsOver' /\ WorkIsRecorded'
  <1>1. DoneIsOver'
    BY DEF WorkInv, DoneIsOver
  <1>2. ASSUME NEW u \in Tasks, faults' = 0, Working(u)', u \notin (cancelled \union lost)'
        PROVE  active_jobs'[job'[u].id] = u /\ job'[u].status \notin Terminal
    <2>1. Working(u) /\ u \notin cancelled \union lost /\ job[u].id \in JobIds
      BY <1>2 DEF Working
    <2>2. active_jobs[job[u].id] = u /\ job[u].status \notin Terminal
      BY <1>2, <2>1 DEF WorkInv, WorkIsRecorded
    <2>3. job[u].id # i
      BY <1>2, <2>1, <2>2
    <2> QED BY <2>1, <2>2, <2>3 DEF Popped, WorkInv, ForeignInv, TypeOK
  <1> QED BY <1>1, <1>2 DEF WorkIsRecorded

\* Closing a program gives nobody work.
LEMMA ClosedWork ==
  ASSUME NEW a \in AnalysisIds, fut' = Closed(a), TypeOK
  PROVE  \A t \in Tasks : fut'[t] \in {"submitted", "analyzing", "orphaned"} =>
            fut[t] \in {"submitted", "analyzing", "orphaned"}
  BY DEF Closed, TypeOK

THEOREM WorkInvariant == Spec => []WorkInv
  <1>1. Init => DoneIsOver /\ WorkIsRecorded
    BY DEF Init, DoneIsOver, WorkIsRecorded, Working
  <1>2. WorkInv /\ [Next]_vars => DoneIsOver' /\ WorkIsRecorded'
    <2> DEFINE Goal == DoneIsOver' /\ WorkIsRecorded'
    <2> SUFFICES ASSUME WorkInv, [Next]_vars PROVE Goal
      OBVIOUS
    <2>1. ASSUME NEW a \in AnalysisIds, LoadPurge(a) \/ Evict(a) PROVE Goal
      BY <2>1, ClosedWork, WorkFrame DEF LoadPurge, Evict, WorkInv, ForeignInv
    <2>2. ASSUME NEW a \in AnalysisIds,
                 LoadLookup(a) \/ LoadFromDisk(a) \/ OtherFinishes(a)
          PROVE  Goal
      BY <2>2, WorkFrame DEF LoadLookup, LoadFromDisk, OtherFinishes, volatile
    <2>3. ASSUME NEW a \in AnalysisIds, DeleteBegin(a) PROVE Goal
      <3>1. \A t \in Tasks : fut'[t] \in {"submitted", "analyzing", "orphaned"} =>
               fut[t] \in {"submitted", "analyzing", "orphaned"}
        BY <2>3, ClosedWork DEF DeleteBegin, WorkInv, ForeignInv
      <3>2. \A t \in Tasks : active_jobs[a] = t => t \in cancelled'
        BY <2>3, NilFacts DEF DeleteBegin, Killed
      <3> QED BY <2>3, <3>1, <3>2, WorkPop DEF DeleteBegin
    <2>4. CASE LoadEnqueue
      <3> DEFINE a == loop.id
                 table == IF loop.fresh THEN Popped(a) ELSE active_jobs
                 killed == IF loop.fresh THEN Killed(a) ELSE {}
      <3>1. a \in AnalysisIds /\ a \in JobIds
        BY <2>4 DEF LoadEnqueue, WorkInv, ForeignInv, TypeOK
      <3>2. /\ table \in [JobIds -> Tasks \union {Nil}]
            /\ \A j \in JobIds : table[j] = active_jobs[j] \/ j = a
        BY <3>1 DEF Popped, WorkInv, ForeignInv, TypeOK
      <3>3. /\ faults' = faults
            /\ loop.fresh => \A t \in Tasks : active_jobs[a] = t => t \in killed
        BY <2>4, NilFacts DEF LoadEnqueue, Killed
      <3>4. CASE active_jobs' = table /\ cancelled' = cancelled \union killed
                 /\ UNCHANGED <<job, coro, fut, lost>>
        <4>1. CASE loop.fresh
          BY <3>1, <3>3, <3>4, <4>1, WorkPop
        <4>2. CASE ~loop.fresh
          BY <3>3, <3>4, <4>2, WorkFrame
        <4> QED BY <4>1, <4>2
      <3>5. ASSUME NEW t \in Tasks, Spawn(t, a, table), ~InProgress(table, a),
                   cancelled' = (cancelled \union killed) \ {t}
            PROVE  Goal
        <4>1. active_jobs[a] # Nil =>
                 active_jobs[a] \in cancelled' \/ job[active_jobs[a]].status \in Terminal
                                                \/ active_jobs[a] = t
          BY <3>1, <3>3, <3>5 DEF InProgress, WorkInv, ForeignInv, TypeOK
        <4> HIDE DEF table, killed, a
        <4> QED BY <3>1, <3>2, <3>3, <3>5, <4>1, WorkSpawn
      <3> QED BY <2>4, <3>4, <3>5 DEF LoadEnqueue
    <2>5. CASE DeleteEnd
      BY <2>5, WorkFrame DEF DeleteEnd
    <2>6. CASE CrashRestart
      <3>1. \A t \in Tasks : coro'[t] \in {"none", "foreign"} /\ fut'[t] = "none"
        BY <2>6, RestartRecords DEF WorkInv, ForeignInv
      <3> QED BY <3>1 DEF DoneIsOver, WorkIsRecorded, Working
    <2>7. ASSUME NEW i \in ScanIds, ScanSpawn(i) PROVE Goal
      <3>1. PICK t \in Tasks : Spawn(t, i, active_jobs) /\ cancelled' = cancelled \ {t}
        BY <2>7 DEF ScanSpawn
      <3>2. /\ i \in JobIds /\ i \notin AnalysisIds /\ faults' = faults
            /\ active_jobs \in [JobIds -> Tasks \union {Nil}]
        BY <2>7, JobsAssumption DEF ScanSpawn, WorkInv, ForeignInv, TypeOK
      <3> QED BY <3>1, <3>2, WorkSpawn
    <2>8. ASSUME NEW t \in Tasks, TaskStart(t) PROVE Goal
      BY <2>8, WorkTask DEF TaskStart, JobStatus, Terminal
    <2>9. ASSUME NEW t \in Tasks, TaskStartFails(t) PROVE Goal
      <3>1. fut' = [fut EXCEPT ![t] = fut[t]] /\ fut[t] \in
              {"none", "submitted", "analyzing", "orphaned",
               "scanning", "succeeded", "closed", "failed"}
        BY <2>9 DEF TaskStartFails, WorkInv, ForeignInv, TypeOK
      <3> QED BY <2>9, <3>1, WorkTask DEF TaskStartFails, JobStatus, Terminal
    <2>10. ASSUME NEW t \in Tasks, TaskPoll(t) PROVE Goal
      BY <2>10, WorkFrame DEF TaskPoll, volatile
    <2>11. ASSUME NEW t \in Tasks, NEW outcome \in {"complete", "error"},
                  TaskFinish(t, outcome) PROVE Goal
      <3>1. /\ fut' = [fut EXCEPT ![t] = fut[t]]
            /\ fut[t] \in {"succeeded", "closed", "failed"}
        BY <2>11 DEF TaskFinish, Outcomes, WorkInv, ForeignInv, TypeOK
      <3> QED BY <2>11, <3>1, WorkTask DEF TaskFinish, Polling, JobStatus, Terminal
    <2>12. ASSUME NEW t \in Tasks, TaskRefused(t) PROVE Goal
      BY <2>12, WorkFault DEF TaskRefused
    <2>13. ASSUME NEW t \in Tasks, TaskDies(t) PROVE Goal
      <3>1. CASE WriteFails
        BY <3>1, WorkFault
      <3>2. CASE faults' = faults
        <4>1. /\ fut' = [fut EXCEPT ![t] = fut[t]]
              /\ fut[t] \in {"none", "submitted", "analyzing", "orphaned",
                            "scanning", "succeeded", "closed", "failed"}
              /\ job' = [job EXCEPT ![t].status = job[t].status]
              /\ job[t].status \in JobStatus
          BY <2>13 DEF TaskDies, WorkInv, ForeignInv, TypeOK
        <4>2. CASE job[t].status \notin Terminal
          BY <2>13, <3>2, <4>1, <4>2, WorkTask DEF TaskDies, Polling
        <4>3. CASE job[t].status \in Terminal
          <5>1. \A u \in Tasks : Working(u)' => Working(u)
            BY <2>13 DEF TaskDies, Polling, Working, WorkInv, ForeignInv, TypeOK
          <5>2. DoneIsOver'
            BY <2>13, <3>2 DEF TaskDies, WorkInv, DoneIsOver, ForeignInv, TypeOK
          <5> QED BY <2>13, <3>2, <5>1, <5>2 DEF TaskDies, WorkInv, WorkIsRecorded
        <4> QED BY <4>2, <4>3
      <3> QED BY <2>13, <3>1, <3>2 DEF TaskDies
    <2>14. ASSUME NEW t \in Tasks, TimerFires(t) PROVE Goal
      <3>1. coro[t] = "done" /\ UNCHANGED <<job, coro, fut, cancelled, faults>>
        BY <2>14 DEF TimerFires, WorkInv, ForeignInv, ForeignIdle
      <3>2. faults = 0 => ~Working(t)
        BY <3>1 DEF WorkInv, DoneIsOver, Working
      <3>3. /\ active_jobs' = Popped(job[t].id) /\ job[t].id \in JobIds \union {Nil}
            /\ \A u \in Tasks : active_jobs[job[t].id] = u => u \in lost' \/ u = t
            /\ lost \subseteq lost'
        BY <2>14 DEF TimerFires, WorkInv, ForeignInv, TypeOK
      <3> QED BY <3>1, <3>2, <3>3, WorkPop
    <2>15. ASSUME NEW t \in Tasks, StaleRecord(t) PROVE Goal
      <3>1. coro[t] = "foreign" /\ UNCHANGED <<coro, fut, cancelled, lost, faults>>
        BY <2>15 DEF StaleRecord
      <3>2. fut[t] = "none" /\ ~Working(t)
        BY <3>1 DEF WorkInv, ForeignInv, ForeignIdle, Working
      <3>3. CASE job' = job /\ active_jobs' = Popped(job[t].id)
        <4>1. active_jobs[job[t].id] = t /\ job[t].id \in JobIds \union {Nil}
          BY <2>15 DEF StaleRecord, WorkInv, ForeignInv, TypeOK
        <4> QED BY <3>1, <3>2, <3>3, <4>1, WorkPop
      <3>4. CASE active_jobs' = active_jobs /\ job' = [job EXCEPT ![t].status = "complete"]
        <4>1. \A u \in Tasks : (u # t => job'[u] = job[u]) /\ job'[u].id = job[u].id
          BY <3>4 DEF WorkInv, ForeignInv, TypeOK
        <4> QED BY <3>1, <3>2, <3>4, <4>1 DEF WorkInv, DoneIsOver, WorkIsRecorded, Working
      <3> QED BY <2>15, <3>3, <3>4 DEF StaleRecord
    <2>16. ASSUME NEW t \in Tasks, ThreadStep(t) PROVE Goal
      <3>1. UNCHANGED <<active_jobs, job, coro, cancelled, lost, faults>>
        BY <2>16 DEF ThreadStep, ThreadImport, ThreadAnalyze, ThreadScan
      <3>2. \A u \in Tasks : fut'[u] \in {"submitted", "analyzing", "orphaned"} =>
               fut[u] \in {"submitted", "analyzing", "orphaned"}
        BY <2>16 DEF ThreadStep, ThreadImport, ThreadAnalyze, ThreadScan,
                     WorkInv, ForeignInv, TypeOK
      <3> QED BY <3>1, <3>2, WorkFrame
    <2>17. ASSUME NEW t \in Tasks, ScanStart(t) PROVE Goal
      BY <2>17, WorkTask DEF ScanStart, JobStatus, Terminal
    <2>18. ASSUME NEW t \in Tasks, ScanFinish(t) PROVE Goal
      <3>1. CASE WriteFails
        BY <3>1, WorkFault
      <3>2. CASE ~WriteFails
        <4>1. PICK s \in {"complete", "error"} :
                /\ job' = [job EXCEPT ![t].status = s] /\ coro' = [coro EXCEPT ![t] = "done"]
                /\ UNCHANGED faults
          BY <2>18, <3>2, Zenon DEF ScanFinish
        <4>2. /\ fut' = [fut EXCEPT ![t] = fut[t]] /\ fut[t] \in {"succeeded", "failed"}
              /\ coro[t] = "polling" /\ s \in JobStatus
              /\ UNCHANGED <<active_jobs, cancelled, lost>>
          BY <2>18 DEF ScanFinish, WorkInv, ForeignInv, TypeOK, JobStatus
        <4> QED BY <4>1, <4>2, WorkTask
      <3> QED BY <3>1, <3>2
    <2>19. CASE UNCHANGED vars
      BY <2>19, WorkFrame DEF vars, volatile
    <2> QED
      BY <2>1, <2>2, <2>3, <2>4, <2>5, <2>6, <2>7, <2>8, <2>9, <2>10, <2>11, <2>12, <2>13,
         <2>14, <2>15, <2>16, <2>17, <2>18, <2>19 DEF Next, Resume
  <1> QED BY <1>1, <1>2, ExpiryInvariant, ForeignInvariant, PTL DEF Spec, WorkInv

\* Two analyses of one id at once: one of them was deprived of its record.
THEOREM AtMostOneAnalysis == Spec => []OneAnalysis
  <1>1. WorkInv => OneAnalysis
    BY DEF WorkInv, WorkIsRecorded, OneAnalysis
  <1> QED BY <1>1, WorkInvariant, PTL
=============================================================================
