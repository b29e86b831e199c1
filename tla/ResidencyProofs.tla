-------------------------- MODULE ResidencyProofs --------------------------
(***************************************************************************)
(* What stays in memory, for any binaries, threads and limits.             *)
(***************************************************************************)
EXTENDS Residency, FiniteSetTheorems, TLAPS

\* A call that is past its lookup holds the lock, unless it is a search; until it
\* has a handle, there is none to close.
CallsHold ==
    \A t \in Threads :
        /\ ~call[t].search /\ call[t].at \in {"lookup", "load", "again", "op"} => lock = t
        /\ call[t].at \in {"want", "lookup", "load", "again"} => ~call[t].closed
        /\ call[t].at = "wait" => call[t].search

\* A pass starts from nothing; it has chosen one of its candidates, or none, and
\* that one is idle by the time it was sorted at, and under no job while the pass
\* keeps the loop.
PassOK ==
    /\ monitor.at = "sleep" => monitor = AtSleep
    /\ monitor.chosen \subseteq monitor.ids
    /\ monitor.at # "evict" => monitor.chosen = {}
    /\ monitor.now <= clock
    /\ \A b \in monitor.chosen : Idle(b) /\ ~ActiveJob(b)

\* Unless a deletion intervened, the programs outside the candidates are enough.
Spared(keep) == keep \subseteq programs \ monitor.ids /\ Cardinality(keep) = MinLoaded

EnoughSpared ==
    ~monitor.removed =>
        /\ monitor.at = "score" => monitor.ids \subseteq programs
        /\ monitor.at \in {"next", "evict"} => \E keep : Spared(keep)

\* The access times are those of the calls, and the pass works with the current
\* one of every candidate that no call has resolved since.
AccessOK ==
    /\ resolved = last_access
    /\ monitor.at \in {"next", "evict"} =>
        \A b \in monitor.ids \ monitor.touched : monitor.score[b] = last_access[b]

\* Of a job that is under way the status says nothing; of the rest, what is saved and
\* not known to be unlisted is complete.
Published ==
    \A b \in Binaries :
        work[b] \in {"none", "inline", "queued"} \/ b \notin Large =>
            b \in unlisted \/ (b \in saved => status[b] = "complete")

\* A large binary is analyzed by jobs only, and the record of such a job is there
\* until it ends, unless an earlier one's pop has removed it.
Recorded ==
    /\ \A b \in Binaries :
          work[b] \in {"queued", "starting", "analyzed", "failed"} => b \in Large
    /\ \A b \in Large : work[b] \notin {"none", "inline"} => ActiveJob(b) \/ b \in lost

Good == TypeOK /\ CallsHold /\ CallsKeepTheirProgram /\ PassOK /\ EnoughSpared /\ AccessOK
        /\ Published /\ Recorded

\* The call of an idle thread.
LEMMA IdleCall ==
    /\ NoCall \in [at : {"idle", "want", "lookup", "load", "again", "wait", "op"},
                   binary : Binaries, search : BOOLEAN, closed : BOOLEAN]
    /\ NoCall.at = "idle" /\ ~NoCall.search /\ ~NoCall.closed
<1>1. (CHOOSE b \in Binaries : TRUE) \in Binaries
  BY ResidencyAssumption
<1> QED BY <1>1 DEF NoCall

\* Closing handles keeps the calls in their types.
LEMMA HandlesTyped ==
    ASSUME TypeOK, NEW b \in Binaries, CloseHandles(b)
    PROVE  call' \in [Threads -> [at : {"idle", "want", "lookup", "load", "again", "wait", "op"},
                                  binary : Binaries, search : BOOLEAN, closed : BOOLEAN]]
<1>1. \A t \in Threads : call[t] \in
          [at : {"idle", "want", "lookup", "load", "again", "wait", "op"},
           binary : Binaries, search : BOOLEAN, closed : BOOLEAN]
  BY DEF TypeOK
<1>2. \A t \in Threads : [call[t] EXCEPT !.closed = TRUE] \in
          [at : {"idle", "want", "lookup", "load", "again", "wait", "op"},
           binary : Binaries, search : BOOLEAN, closed : BOOLEAN]
  BY <1>1
<1> QED BY <1>1, <1>2 DEF CloseHandles

\* Every step keeps the types.
LEMMA TypesKept ==
    ASSUME TypeOK, Next PROVE TypeOK'
<1> USE ResidencyAssumption DEF TypeOK
<1> DEFINE CallSet == [at : {"idle", "want", "lookup", "load", "again", "wait", "op"},
                       binary : Binaries, search : BOOLEAN, closed : BOOLEAN]
           PassSet == [at : {"sleep", "score", "next", "evict"}, ids : SUBSET Binaries,
                       score : [Binaries -> 0..MaxClock], now : 0..MaxClock,
                       chosen : SUBSET Binaries, touched : SUBSET Binaries, removed : BOOLEAN]
<1>1. ASSUME Tick PROVE TypeOK'
  BY <1>1 DEF Tick, memory, access, disk, jobs
<1>2. ASSUME NEW b \in Binaries, LoadJob(b) PROVE TypeOK'
  BY <1>2 DEF LoadJob, LoopFree, memory, access, disk, jobs
<1>3. ASSUME NEW b \in Binaries, HotLoad(b) PROVE TypeOK'
  BY <1>3 DEF HotLoad, HotLoadBlocking, LoadFromDisk, LockFree, memory, access, disk, jobs
<1>4. ASSUME NEW b \in Binaries, BeginJob(b) PROVE TypeOK'
  BY <1>4 DEF BeginJob, LoopFree, memory, access, disk, jobs
<1>5. ASSUME NEW b \in Binaries, Import(b) PROVE TypeOK'
  BY <1>5 DEF Import, AfterImport, LockFree, memory, access, disk, jobs
<1>6. ASSUME NEW b \in Binaries, Analyze(b) PROVE TypeOK'
  BY <1>6 DEF Analyze, memory, access, disk, jobs
<1>7. ASSUME NEW b \in Binaries, EndJob(b) PROVE TypeOK'
  BY <1>7 DEF EndJob, LoopFree, PublishStatus, Verdicts, memory, access, disk, jobs
<1>8. ASSUME NEW b \in Binaries, Delete(b) PROVE TypeOK'
  <2>1. call' \in [Threads -> CallSet]
    BY <1>8, HandlesTyped DEF Delete
  <2>2. monitor' \in PassSet
    BY <1>8 DEF Delete
  <2> QED BY <1>8, <2>1, <2>2 DEF Delete, access
<1>9. ASSUME NEW b \in Binaries, ForeignComplete(b) PROVE TypeOK'
  BY <1>9 DEF ForeignComplete, memory, access, disk, jobs
<1>10. ASSUME NEW t \in Threads, Call(t) PROVE TypeOK'
  BY <1>10 DEF Call, memory, access, disk, jobs
<1>11. ASSUME NEW t \in Threads, TakeLock(t) PROVE TypeOK'
  BY <1>11 DEF TakeLock, LockFree, memory, access, disk, jobs
<1>12. ASSUME NEW t \in Threads, Lookup(t) PROVE TypeOK'
  <2>1. call' \in [Threads -> CallSet]
    BY <1>12, IdleCall DEF Lookup, Fail
  <2>2. monitor' \in PassSet
    <3>1. monitor' = monitor \/ monitor' = [monitor EXCEPT !.touched = @ \union {call[t].binary}]
      BY <1>12 DEF Lookup, Resolve
    <3>2. call[t].binary \in Binaries /\ monitor \in PassSet
      OBVIOUS
    <3> QED BY <3>1, <3>2
  <2>3. /\ last_access' \in [Binaries -> 0..MaxClock] /\ evicted_ids' \subseteq Binaries
        /\ resolved' \in [Binaries -> 0..MaxClock]
    BY <1>12 DEF Lookup, Resolve, Touch, access
  <2>4. lock' \in Threads \union {Free}
    BY <1>12, IdleCall DEF Lookup, Fail
  <2> QED BY <1>12, <2>1, <2>2, <2>3, <2>4 DEF Lookup, memory, disk, jobs
<1>13. ASSUME NEW t \in Threads, Reload(t) PROVE TypeOK'
  BY <1>13 DEF Reload, HasLock, HotLoadBlocking, LoadFromDisk, memory, access, disk, jobs
<1>14. ASSUME NEW t \in Threads, LookupAgain(t) PROVE TypeOK'
  <2>1. call' \in [Threads -> CallSet]
    BY <1>14, IdleCall DEF LookupAgain, Fail
  <2>2. monitor' \in PassSet
    <3>1. monitor' = monitor \/ monitor' = [monitor EXCEPT !.touched = @ \union {call[t].binary}]
      BY <1>14 DEF LookupAgain, Resolve
    <3>2. call[t].binary \in Binaries /\ monitor \in PassSet
      OBVIOUS
    <3> QED BY <3>1, <3>2
  <2>3. /\ last_access' \in [Binaries -> 0..MaxClock] /\ evicted_ids' \subseteq Binaries
        /\ resolved' \in [Binaries -> 0..MaxClock]
    BY <1>14 DEF LookupAgain, Resolve, Touch, access
  <2>4. lock' \in Threads \union {Free}
    BY <1>14, IdleCall DEF LookupAgain, Fail
  <2> QED BY <1>14, <2>1, <2>2, <2>3, <2>4 DEF LookupAgain, memory, disk, jobs
<1>15. ASSUME NEW t \in Threads, Finish(t) PROVE TypeOK'
  BY <1>15, IdleCall DEF Finish, Fail, memory, access, disk, jobs
<1>16. ASSUME Snapshot PROVE TypeOK'
  BY <1>16 DEF Snapshot, LockFree, memory, access, disk, jobs
<1>17. ASSUME Score PROVE TypeOK'
  <2>1. [b \in Binaries |-> IF b \in monitor.ids THEN last_access[b] ELSE 0]
           \in [Binaries -> 0..MaxClock]
    OBVIOUS
  <2>2. PICK keep \in SUBSET monitor.ids, score \in [Binaries -> 0..MaxClock] :
          monitor' = [monitor EXCEPT !.at = "next", !.ids = @ \ keep, !.now = clock,
                                     !.score = score, !.touched = {}]
    BY <1>17, <2>1 DEF Score
  <2>3. clock \in 0..MaxClock /\ monitor.ids \ keep \in SUBSET Binaries
    OBVIOUS
  <2>4. monitor' = [at |-> "next", ids |-> monitor.ids \ keep, score |-> score, now |-> clock,
                    chosen |-> monitor.chosen, touched |-> {}, removed |-> monitor.removed]
    BY <2>2
  <2>5. monitor' \in PassSet
    BY <2>3, <2>4
  <2> QED BY <1>17, <2>5 DEF Score, memory, access, disk, jobs
<1>18. ASSUME NEW b \in Binaries, NextCandidate(b) PROVE TypeOK'
  BY <1>18 DEF NextCandidate, Idle, ActiveJob, memory, access, disk, jobs
<1>19. ASSUME NEW b \in Binaries, Evict(b) PROVE TypeOK'
  <2>1. call' \in [Threads -> CallSet]
    BY <1>19, HandlesTyped DEF Evict
  <2>2. monitor' \in PassSet
    BY <1>19 DEF Evict
  <2>3. /\ last_access' \in [Binaries -> 0..MaxClock] /\ evicted_ids' \subseteq Binaries
        /\ resolved' \in [Binaries -> 0..MaxClock]
    BY <1>19 DEF Evict, access
  <2>4. programs' \subseteq projects' /\ projects' \subseteq Binaries
    BY <1>19 DEF Evict, memory
  <2> QED BY <1>19, <2>1, <2>2, <2>3, <2>4 DEF Evict, memory, disk, jobs
<1>20. ASSUME Sleep PROVE TypeOK'
  BY <1>20 DEF Sleep, AtSleep, memory, access, disk, jobs
<1>21. ASSUME NEW b \in Binaries, LoadInline(b) PROVE TypeOK'
  BY <1>21 DEF LoadInline, LoopFree, memory, access, disk, jobs
<1>22. ASSUME NEW b \in Binaries, PopRecord(b) PROVE TypeOK'
  BY <1>22 DEF PopRecord, LoopFree, memory, access, disk, jobs
<1> QED BY <1>1, <1>2, <1>3, <1>4, <1>5, <1>6, <1>7, <1>8, <1>9, <1>10, <1>11, <1>12, <1>13,
           <1>14, <1>15, <1>16, <1>17, <1>18, <1>19, <1>20, <1>21, <1>22 DEF Next, Pass, Proceed

\* Who closes a program has the lock, so no call that holds it works on that one.
LEMMA CallsKept ==
    ASSUME Good, Next PROVE CallsHold' /\ CallsKeepTheirProgram'
<1> USE ResidencyAssumption DEF Good, TypeOK, CallsHold, CallsKeepTheirProgram
<1>1. ASSUME Tick PROVE CallsHold' /\ CallsKeepTheirProgram'
  BY <1>1 DEF Tick, memory, access, disk, jobs
<1>2. ASSUME NEW b \in Binaries, LoadJob(b) PROVE CallsHold' /\ CallsKeepTheirProgram'
  BY <1>2 DEF LoadJob, LoopFree, memory, access, disk, jobs
<1>3. ASSUME NEW b \in Binaries, HotLoad(b) PROVE CallsHold' /\ CallsKeepTheirProgram'
  BY <1>3 DEF HotLoad, HotLoadBlocking, LoadFromDisk, LockFree, memory, access, disk, jobs
<1>4. ASSUME NEW b \in Binaries, BeginJob(b) PROVE CallsHold' /\ CallsKeepTheirProgram'
  BY <1>4 DEF BeginJob, LoopFree, memory, access, disk, jobs
<1>5. ASSUME NEW b \in Binaries, Import(b) PROVE CallsHold' /\ CallsKeepTheirProgram'
  BY <1>5 DEF Import, AfterImport, LockFree, memory, access, disk, jobs
<1>6. ASSUME NEW b \in Binaries, Analyze(b) PROVE CallsHold' /\ CallsKeepTheirProgram'
  BY <1>6 DEF Analyze, memory, access, disk, jobs
<1>7. ASSUME NEW b \in Binaries, EndJob(b) PROVE CallsHold' /\ CallsKeepTheirProgram'
  BY <1>7 DEF EndJob, LoopFree, PublishStatus, Verdicts, memory, access, disk, jobs
<1>8. ASSUME NEW b \in Binaries, Delete(b) PROVE CallsHold' /\ CallsKeepTheirProgram'
  BY <1>8 DEF Delete, LockFree, LoopFree, CloseHandles, memory, access, disk, jobs
<1>9. ASSUME NEW b \in Binaries, ForeignComplete(b) PROVE CallsHold' /\ CallsKeepTheirProgram'
  BY <1>9 DEF ForeignComplete, memory, access, disk, jobs
<1>10. ASSUME NEW t \in Threads, Call(t) PROVE CallsHold' /\ CallsKeepTheirProgram'
  BY <1>10 DEF Call, memory, access, disk, jobs
<1>11. ASSUME NEW t \in Threads, TakeLock(t) PROVE CallsHold' /\ CallsKeepTheirProgram'
  <2>1. /\ call'[t].binary = call[t].binary /\ call'[t].search = call[t].search
        /\ call'[t].closed = call[t].closed /\ call[t].at \in {"want", "wait"}
        /\ call'[t].at = IF call[t].at = "want" THEN "lookup" ELSE "op"
    BY <1>11 DEF TakeLock
  <2>2. \A u \in Threads \ {t} : call'[u] = call[u]
    BY <1>11 DEF TakeLock
  <2>3. lock = Free /\ lock' = t /\ programs' = programs
    BY <1>11 DEF TakeLock, LockFree, memory
  <2>4. CallsHold'
    BY <2>1, <2>2, <2>3
  <2>5. CallsKeepTheirProgram'
    BY <2>1, <2>2, <2>3
  <2> QED BY <2>4, <2>5
<1>12. ASSUME NEW t \in Threads, Lookup(t) PROVE CallsHold' /\ CallsKeepTheirProgram'
  <2>1. /\ call[t].at = "lookup" /\ programs' = programs
        /\ \A u \in Threads \ {t} : call'[u] = call[u]
    BY <1>12 DEF Lookup, Fail, memory
  <2>2. \/ /\ call[t].binary \in programs /\ lock' = lock
           /\ call'[t] = [call[t] EXCEPT !.at = IF call[t].search THEN "wait" ELSE "op"]
        \/ call'[t] = NoCall /\ lock' = IF lock = t THEN Free ELSE lock
        \/ call'[t] = [call[t] EXCEPT !.at = "load"] /\ lock' = lock
    BY <1>12 DEF Lookup, Fail
  <2>3. CallsHold'
    BY <2>1, <2>2, IdleCall
  <2>4. CallsKeepTheirProgram'
    BY <2>1, <2>2, IdleCall
  <2> QED BY <2>3, <2>4
<1>13. ASSUME NEW t \in Threads, Reload(t) PROVE CallsHold' /\ CallsKeepTheirProgram'
  <2>1. programs \subseteq programs' /\ lock' = lock
    BY <1>13 DEF Reload, HotLoadBlocking, LoadFromDisk, memory
  <2>2. /\ call[t].at = "load" /\ call'[t] = [call[t] EXCEPT !.at = "again"]
        /\ \A u \in Threads \ {t} : call'[u] = call[u]
    BY <1>13 DEF Reload
  <2>3. CallsHold'
    BY <2>1, <2>2
  <2>4. CallsKeepTheirProgram'
    BY <2>1, <2>2
  <2> QED BY <2>3, <2>4
<1>14. ASSUME NEW t \in Threads, LookupAgain(t) PROVE CallsHold' /\ CallsKeepTheirProgram'
  <2>1. /\ call[t].at = "again" /\ programs' = programs
        /\ \A u \in Threads \ {t} : call'[u] = call[u]
    BY <1>14 DEF LookupAgain, Fail, memory
  <2>2. \/ /\ call[t].binary \in programs /\ lock' = lock
           /\ call'[t] = [call[t] EXCEPT !.at = IF call[t].search THEN "wait" ELSE "op"]
        \/ call'[t] = NoCall /\ lock' = IF lock = t THEN Free ELSE lock
    BY <1>14 DEF LookupAgain, Fail
  <2>3. CallsHold'
    BY <2>1, <2>2, IdleCall
  <2>4. CallsKeepTheirProgram'
    BY <2>1, <2>2, IdleCall
  <2> QED BY <2>3, <2>4
<1>15. ASSUME NEW t \in Threads, Finish(t) PROVE CallsHold' /\ CallsKeepTheirProgram'
  BY <1>15, IdleCall DEF Finish, Fail, memory, access, disk, jobs
<1>16. ASSUME Snapshot PROVE CallsHold' /\ CallsKeepTheirProgram'
  BY <1>16 DEF Snapshot, LockFree, memory, access, disk, jobs
<1>17. ASSUME Score PROVE CallsHold' /\ CallsKeepTheirProgram'
  BY <1>17 DEF Score, Protected, memory, access, disk, jobs
<1>18. ASSUME NEW b \in Binaries, NextCandidate(b) PROVE CallsHold' /\ CallsKeepTheirProgram'
  BY <1>18 DEF NextCandidate, Idle, ActiveJob, memory, access, disk, jobs
<1>19. ASSUME NEW b \in Binaries, Evict(b) PROVE CallsHold' /\ CallsKeepTheirProgram'
  BY <1>19 DEF Evict, EvictLock, LockFree, CloseHandles, memory, access, disk, jobs
<1>20. ASSUME Sleep PROVE CallsHold' /\ CallsKeepTheirProgram'
  BY <1>20 DEF Sleep, AtSleep, memory, access, disk, jobs
<1>21. ASSUME NEW b \in Binaries, LoadInline(b) PROVE CallsHold' /\ CallsKeepTheirProgram'
  BY <1>21 DEF LoadInline, LoopFree, memory, access, disk, jobs
<1>22. ASSUME NEW b \in Binaries, PopRecord(b) PROVE CallsHold' /\ CallsKeepTheirProgram'
  BY <1>22 DEF PopRecord, LoopFree, memory, access, disk, jobs
<1> QED BY <1>1, <1>2, <1>3, <1>4, <1>5, <1>6, <1>7, <1>8, <1>9, <1>10, <1>11, <1>12, <1>13,
           <1>14, <1>15, <1>16, <1>17, <1>18, <1>19, <1>20, <1>21, <1>22 DEF Next, Pass, Proceed

\* What a pass has read stays true of its candidates.
LEMMA PassKept ==
    ASSUME Good, Next PROVE PassOK' /\ AccessOK'
<1> USE ResidencyAssumption DEF Good, TypeOK, PassOK, AccessOK, Idle, ActiveJob, AtSleep
<1>1. ASSUME Tick PROVE PassOK' /\ AccessOK'
  BY <1>1 DEF Tick, memory, access, disk, jobs
<1>2. ASSUME NEW b \in Binaries, LoadJob(b) PROVE PassOK' /\ AccessOK'
  BY <1>2 DEF LoadJob, LoopFree, memory, access, disk, jobs
<1>3. ASSUME NEW b \in Binaries, HotLoad(b) PROVE PassOK' /\ AccessOK'
  BY <1>3 DEF HotLoad, HotLoadBlocking, LoadFromDisk, LockFree, memory, access, disk, jobs
<1>4. ASSUME NEW b \in Binaries, BeginJob(b) PROVE PassOK' /\ AccessOK'
  BY <1>4 DEF BeginJob, LoopFree, memory, access, disk, jobs
<1>5. ASSUME NEW b \in Binaries, Import(b) PROVE PassOK' /\ AccessOK'
  BY <1>5 DEF Import, AfterImport, LockFree, memory, access, disk, jobs
<1>6. ASSUME NEW b \in Binaries, Analyze(b) PROVE PassOK' /\ AccessOK'
  BY <1>6 DEF Analyze, memory, access, disk, jobs
<1>7. ASSUME NEW b \in Binaries, EndJob(b) PROVE PassOK' /\ AccessOK'
  BY <1>7 DEF EndJob, LoopFree, PublishStatus, Verdicts, memory, access, disk, jobs
<1>8. ASSUME NEW b \in Binaries, Delete(b) PROVE PassOK' /\ AccessOK'
  BY <1>8 DEF Delete, LockFree, LoopFree, CloseHandles, memory, access, disk, jobs
<1>9. ASSUME NEW b \in Binaries, ForeignComplete(b) PROVE PassOK' /\ AccessOK'
  BY <1>9 DEF ForeignComplete, memory, access, disk, jobs
<1>10. ASSUME NEW t \in Threads, Call(t) PROVE PassOK' /\ AccessOK'
  BY <1>10 DEF Call, memory, access, disk, jobs
<1>11. ASSUME NEW t \in Threads, TakeLock(t) PROVE PassOK' /\ AccessOK'
  BY <1>11 DEF TakeLock, LockFree, memory, access, disk, jobs
<1>12. ASSUME NEW t \in Threads, Lookup(t) PROVE PassOK' /\ AccessOK'
  <2> DEFINE b == call[t].binary
  <2>1. /\ b \in Binaries /\ UNCHANGED <<clock, records>>
        /\ \/ UNCHANGED <<monitor, last_access, resolved>>
           \/ /\ last_access' = [last_access EXCEPT ![b] = clock]
              /\ resolved' = [resolved EXCEPT ![b] = clock]
              /\ IF monitor.at = "sleep" THEN monitor' = monitor
                 ELSE monitor' = [monitor EXCEPT !.touched = @ \union {b}]
    BY <1>12 DEF Lookup, Resolve, Touch, LoopFree, access, jobs
  <2>2. PassOK'
    BY <2>1
  <2>3. AccessOK'
    BY <2>1
  <2> QED BY <2>2, <2>3
<1>13. ASSUME NEW t \in Threads, Reload(t) PROVE PassOK' /\ AccessOK'
  BY <1>13 DEF Reload, HasLock, HotLoadBlocking, LoadFromDisk, memory, access, disk, jobs
<1>14. ASSUME NEW t \in Threads, LookupAgain(t) PROVE PassOK' /\ AccessOK'
  BY <1>14 DEF LookupAgain, Resolve, Touch, Fail, LoopFree, memory, access, disk, jobs
<1>15. ASSUME NEW t \in Threads, Finish(t) PROVE PassOK' /\ AccessOK'
  BY <1>15, IdleCall DEF Finish, Fail, memory, access, disk, jobs
<1>16. ASSUME Snapshot PROVE PassOK' /\ AccessOK'
  BY <1>16 DEF Snapshot, LockFree, memory, access, disk, jobs
<1>17. ASSUME Score PROVE PassOK' /\ AccessOK'
  BY <1>17 DEF Score, Protected, memory, access, disk, jobs
<1>18. ASSUME NEW b \in Binaries, NextCandidate(b) PROVE PassOK' /\ AccessOK'
  BY <1>18 DEF NextCandidate, Idle, ActiveJob, memory, access, disk, jobs
<1>19. ASSUME NEW b \in Binaries, Evict(b) PROVE PassOK' /\ AccessOK'
  BY <1>19 DEF Evict, EvictLock, LockFree, CloseHandles, memory, access, disk, jobs
<1>20. ASSUME Sleep PROVE PassOK' /\ AccessOK'
  BY <1>20 DEF Sleep, AtSleep, memory, access, disk, jobs
<1>21. ASSUME NEW b \in Binaries, LoadInline(b) PROVE PassOK' /\ AccessOK'
  BY <1>21 DEF LoadInline, LoopFree, memory, access, disk, jobs
<1>22. ASSUME NEW b \in Binaries, PopRecord(b) PROVE PassOK' /\ AccessOK'
  BY <1>22 DEF PopRecord, LoopFree, memory, access, disk, jobs
<1> QED BY <1>1, <1>2, <1>3, <1>4, <1>5, <1>6, <1>7, <1>8, <1>9, <1>10, <1>11, <1>12, <1>13,
           <1>14, <1>15, <1>16, <1>17, <1>18, <1>19, <1>20, <1>21, <1>22 DEF Next, Pass, Proceed

\* Only an eviction of a candidate, or a deletion, closes a program.
LEMMA SparedKept ==
    ASSUME Good, Next PROVE EnoughSpared'
<1> USE ResidencyAssumption DEF Good, TypeOK, PassOK, EnoughSpared, Spared
<1>1. ASSUME Tick PROVE EnoughSpared'
  BY <1>1 DEF Tick, memory, access, disk, jobs
<1>2. ASSUME NEW b \in Binaries, LoadJob(b) PROVE EnoughSpared'
  BY <1>2 DEF LoadJob, LoopFree, memory, access, disk, jobs
<1>3. ASSUME NEW b \in Binaries, HotLoad(b) PROVE EnoughSpared'
  BY <1>3 DEF HotLoad, HotLoadBlocking, LoadFromDisk, LockFree, memory, access, disk, jobs
<1>4. ASSUME NEW b \in Binaries, BeginJob(b) PROVE EnoughSpared'
  BY <1>4 DEF BeginJob, LoopFree, memory, access, disk, jobs
<1>5. ASSUME NEW b \in Binaries, Import(b) PROVE EnoughSpared'
  BY <1>5 DEF Import, AfterImport, LockFree, memory, access, disk, jobs
<1>6. ASSUME NEW b \in Binaries, Analyze(b) PROVE EnoughSpared'
  BY <1>6 DEF Analyze, memory, access, disk, jobs
<1>7. ASSUME NEW b \in Binaries, EndJob(b) PROVE EnoughSpared'
  BY <1>7 DEF EndJob, LoopFree, PublishStatus, Verdicts, memory, access, disk, jobs
<1>8. ASSUME NEW b \in Binaries, Delete(b) PROVE EnoughSpared'
  BY <1>8 DEF Delete, LockFree, LoopFree, CloseHandles, memory, access, disk, jobs
<1>9. ASSUME NEW b \in Binaries, ForeignComplete(b) PROVE EnoughSpared'
  BY <1>9 DEF ForeignComplete, memory, access, disk, jobs
<1>10. ASSUME NEW t \in Threads, Call(t) PROVE EnoughSpared'
  BY <1>10 DEF Call, memory, access, disk, jobs
<1>11. ASSUME NEW t \in Threads, TakeLock(t) PROVE EnoughSpared'
  BY <1>11 DEF TakeLock, LockFree, memory, access, disk, jobs
<1>12. ASSUME NEW t \in Threads, Lookup(t) PROVE EnoughSpared'
  BY <1>12 DEF Lookup, Resolve, Touch, Fail, LoopFree, memory, access, disk, jobs
<1>13. ASSUME NEW t \in Threads, Reload(t) PROVE EnoughSpared'
  BY <1>13 DEF Reload, HasLock, HotLoadBlocking, LoadFromDisk, memory, access, disk, jobs
<1>14. ASSUME NEW t \in Threads, LookupAgain(t) PROVE EnoughSpared'
  <2>1. monitor' = monitor \/ monitor' = [monitor EXCEPT !.touched = @ \union {call[t].binary}]
    BY <1>14 DEF LookupAgain, Resolve
  <2>2. programs' = programs
    BY <1>14 DEF LookupAgain, memory
  <2>3. /\ monitor'.at = monitor.at /\ monitor'.ids = monitor.ids
        /\ monitor'.removed = monitor.removed
    BY <2>1
  <2> QED BY <2>2, <2>3
<1>15. ASSUME NEW t \in Threads, Finish(t) PROVE EnoughSpared'
  BY <1>15, IdleCall DEF Finish, Fail, memory, access, disk, jobs
<1>16. ASSUME Snapshot PROVE EnoughSpared'
  BY <1>16 DEF Snapshot, LockFree, memory, access, disk, jobs
<1>17. ASSUME Score PROVE EnoughSpared'
  BY <1>17 DEF Score, Protected, memory, access, disk, jobs
<1>18. ASSUME NEW b \in Binaries, NextCandidate(b) PROVE EnoughSpared'
  BY <1>18 DEF NextCandidate, Idle, ActiveJob, memory, access, disk, jobs
<1>19. ASSUME NEW b \in Binaries, Evict(b) PROVE EnoughSpared'
  BY <1>19 DEF Evict, EvictLock, LockFree, CloseHandles, memory, access, disk, jobs
<1>20. ASSUME Sleep PROVE EnoughSpared'
  BY <1>20 DEF Sleep, AtSleep, memory, access, disk, jobs
<1>21. ASSUME NEW b \in Binaries, LoadInline(b) PROVE EnoughSpared'
  BY <1>21 DEF LoadInline, LoopFree, memory, access, disk, jobs
<1>22. ASSUME NEW b \in Binaries, PopRecord(b) PROVE EnoughSpared'
  BY <1>22 DEF PopRecord, LoopFree, memory, access, disk, jobs
<1> QED BY <1>1, <1>2, <1>3, <1>4, <1>5, <1>6, <1>7, <1>8, <1>9, <1>10, <1>11, <1>12, <1>13,
           <1>14, <1>15, <1>16, <1>17, <1>18, <1>19, <1>20, <1>21, <1>22 DEF Next, Pass, Proceed

\* The verdict is written before the import is over.
LEMMA PublishedKept ==
    ASSUME Good, Next PROVE Published'
<1> USE ResidencyAssumption DEF Good, TypeOK, Published, Recorded, ActiveJob
<1>1. ASSUME Tick PROVE Published'
  BY <1>1 DEF Tick, memory, access, disk, jobs
<1>2. ASSUME NEW b \in Binaries, LoadJob(b) PROVE Published'
  BY <1>2 DEF LoadJob, LoopFree, memory, access, disk, jobs
<1>3. ASSUME NEW b \in Binaries, HotLoad(b) PROVE Published'
  BY <1>3 DEF HotLoad, HotLoadBlocking, LoadFromDisk, LockFree, memory, access, disk, jobs
<1>4. ASSUME NEW b \in Binaries, BeginJob(b) PROVE Published'
  BY <1>4 DEF BeginJob, LoopFree, memory, access, disk, jobs
<1>5. ASSUME NEW b \in Binaries, Import(b) PROVE Published'
  BY <1>5 DEF Import, AfterImport, LockFree, memory, access, disk, jobs
<1>6. ASSUME NEW b \in Binaries, Analyze(b) PROVE Published'
  BY <1>6 DEF Analyze, memory, access, disk, jobs
<1>7. ASSUME NEW b \in Binaries, EndJob(b) PROVE Published'
  BY <1>7 DEF EndJob, LoopFree, PublishStatus, Verdicts, memory, access, disk, jobs
<1>8. ASSUME NEW b \in Binaries, Delete(b) PROVE Published'
  BY <1>8 DEF Delete, LockFree, LoopFree, CloseHandles, memory, access, disk, jobs
<1>9. ASSUME NEW b \in Binaries, ForeignComplete(b) PROVE Published'
  BY <1>9 DEF ForeignComplete, memory, access, disk, jobs
<1>10. ASSUME NEW t \in Threads, Call(t) PROVE Published'
  BY <1>10 DEF Call, memory, access, disk, jobs
<1>11. ASSUME NEW t \in Threads, TakeLock(t) PROVE Published'
  BY <1>11 DEF TakeLock, LockFree, memory, access, disk, jobs
<1>12. ASSUME NEW t \in Threads, Lookup(t) PROVE Published'
  BY <1>12 DEF Lookup, Resolve, Touch, Fail, LoopFree, memory, access, disk, jobs
<1>13. ASSUME NEW t \in Threads, Reload(t) PROVE Published'
  BY <1>13 DEF Reload, HasLock, HotLoadBlocking, LoadFromDisk, memory, access, disk, jobs
<1>14. ASSUME NEW t \in Threads, LookupAgain(t) PROVE Published'
  BY <1>14 DEF LookupAgain, Resolve, Touch, Fail, LoopFree, memory, access, disk, jobs
<1>15. ASSUME NEW t \in Threads, Finish(t) PROVE Published'
  BY <1>15, IdleCall DEF Finish, Fail, memory, access, disk, jobs
<1>16. ASSUME Snapshot PROVE Published'
  BY <1>16 DEF Snapshot, LockFree, memory, access, disk, jobs
<1>17. ASSUME Score PROVE Published'
  BY <1>17 DEF Score, Protected, memory, access, disk, jobs
<1>18. ASSUME NEW b \in Binaries, NextCandidate(b) PROVE Published'
  BY <1>18 DEF NextCandidate, Idle, ActiveJob, memory, access, disk, jobs
<1>19. ASSUME NEW b \in Binaries, Evict(b) PROVE Published'
  BY <1>19 DEF Evict, EvictLock, LockFree, CloseHandles, memory, access, disk, jobs
<1>20. ASSUME Sleep PROVE Published'
  BY <1>20 DEF Sleep, AtSleep, memory, access, disk, jobs
<1>21. ASSUME NEW b \in Binaries, LoadInline(b) PROVE Published'
  BY <1>21 DEF LoadInline, LoopFree, memory, access, disk, jobs
<1>22. ASSUME NEW b \in Binaries, PopRecord(b) PROVE Published'
  BY <1>22 DEF PopRecord, LoopFree, memory, access, disk, jobs
<1> QED BY <1>1, <1>2, <1>3, <1>4, <1>5, <1>6, <1>7, <1>8, <1>9, <1>10, <1>11, <1>12, <1>13,
           <1>14, <1>15, <1>16, <1>17, <1>18, <1>19, <1>20, <1>21, <1>22 DEF Next, Pass, Proceed

\* A job has its record from load() on.
LEMMA RecordedKept ==
    ASSUME Good, Next PROVE Recorded'
<1> USE ResidencyAssumption DEF Good, TypeOK, Recorded, ActiveJob
<1>1. ASSUME Tick PROVE Recorded'
  BY <1>1 DEF Tick, memory, access, disk, jobs
<1>2. ASSUME NEW b \in Binaries, LoadJob(b) PROVE Recorded'
  BY <1>2 DEF LoadJob, LoopFree, memory, access, disk, jobs
<1>3. ASSUME NEW b \in Binaries, HotLoad(b) PROVE Recorded'
  BY <1>3 DEF HotLoad, HotLoadBlocking, LoadFromDisk, LockFree, memory, access, disk, jobs
<1>4. ASSUME NEW b \in Binaries, BeginJob(b) PROVE Recorded'
  BY <1>4 DEF BeginJob, LoopFree, memory, access, disk, jobs
<1>5. ASSUME NEW b \in Binaries, Import(b) PROVE Recorded'
  BY <1>5 DEF Import, AfterImport, LockFree, memory, access, disk, jobs
<1>6. ASSUME NEW b \in Binaries, Analyze(b) PROVE Recorded'
  BY <1>6 DEF Analyze, memory, access, disk, jobs
<1>7. ASSUME NEW b \in Binaries, EndJob(b) PROVE Recorded'
  BY <1>7 DEF EndJob, LoopFree, PublishStatus, Verdicts, memory, access, disk, jobs
<1>8. ASSUME NEW b \in Binaries, Delete(b) PROVE Recorded'
  BY <1>8 DEF Delete, LockFree, LoopFree, CloseHandles, memory, access, disk, jobs
<1>9. ASSUME NEW b \in Binaries, ForeignComplete(b) PROVE Recorded'
  BY <1>9 DEF ForeignComplete, memory, access, disk, jobs
<1>10. ASSUME NEW t \in Threads, Call(t) PROVE Recorded'
  BY <1>10 DEF Call, memory, access, disk, jobs
<1>11. ASSUME NEW t \in Threads, TakeLock(t) PROVE Recorded'
  BY <1>11 DEF TakeLock, LockFree, memory, access, disk, jobs
<1>12. ASSUME NEW t \in Threads, Lookup(t) PROVE Recorded'
  BY <1>12 DEF Lookup, Resolve, Touch, Fail, LoopFree, memory, access, disk, jobs
<1>13. ASSUME NEW t \in Threads, Reload(t) PROVE Recorded'
  BY <1>13 DEF Reload, HasLock, HotLoadBlocking, LoadFromDisk, memory, access, disk, jobs
<1>14. ASSUME NEW t \in Threads, LookupAgain(t) PROVE Recorded'
  BY <1>14 DEF LookupAgain, Resolve, Touch, Fail, LoopFree, memory, access, disk, jobs
<1>15. ASSUME NEW t \in Threads, Finish(t) PROVE Recorded'
  BY <1>15, IdleCall DEF Finish, Fail, memory, access, disk, jobs
<1>16. ASSUME Snapshot PROVE Recorded'
  BY <1>16 DEF Snapshot, LockFree, memory, access, disk, jobs
<1>17. ASSUME Score PROVE Recorded'
  BY <1>17 DEF Score, Protected, memory, access, disk, jobs
<1>18. ASSUME NEW b \in Binaries, NextCandidate(b) PROVE Recorded'
  BY <1>18 DEF NextCandidate, Idle, ActiveJob, memory, access, disk, jobs
<1>19. ASSUME NEW b \in Binaries, Evict(b) PROVE Recorded'
  BY <1>19 DEF Evict, EvictLock, LockFree, CloseHandles, memory, access, disk, jobs
<1>20. ASSUME Sleep PROVE Recorded'
  BY <1>20 DEF Sleep, AtSleep, memory, access, disk, jobs
<1>21. ASSUME NEW b \in Binaries, LoadInline(b) PROVE Recorded'
  BY <1>21 DEF LoadInline, LoopFree, memory, access, disk, jobs
<1>22. ASSUME NEW b \in Binaries, PopRecord(b) PROVE Recorded'
  BY <1>22 DEF PopRecord, LoopFree, memory, access, disk, jobs
<1> QED BY <1>1, <1>2, <1>3, <1>4, <1>5, <1>6, <1>7, <1>8, <1>9, <1>10, <1>11, <1>12, <1>13,
           <1>14, <1>15, <1>16, <1>17, <1>18, <1>19, <1>20, <1>21, <1>22 DEF Next, Pass, Proceed

\* A server starts with what it has preloaded.
LEMMA GoodInit == Init => Good
<1> SUFFICES ASSUME Init PROVE Good
  OBVIOUS
<1> USE ResidencyAssumption DEF Init, AtSleep
<1>1. TypeOK
  BY IdleCall DEF TypeOK
<1>2. CallsHold /\ CallsKeepTheirProgram
  BY IdleCall DEF CallsHold, CallsKeepTheirProgram
<1>3. PassOK /\ AccessOK /\ EnoughSpared
  BY DEF PassOK, AccessOK, EnoughSpared
<1>4. Published /\ Recorded
  BY DEF Published, Recorded
<1> QED BY <1>1, <1>2, <1>3, <1>4 DEF Good

\* Every step keeps the inductive invariant.
LEMMA GoodNext == Good /\ [Next]_vars => Good'
<1>1. ASSUME Good, Next PROVE Good'
  BY <1>1, TypesKept, CallsKept, PassKept, SparedKept, PublishedKept, RecordedKept DEF Good
<1>2. ASSUME Good, UNCHANGED vars PROVE Good'
  BY <1>2 DEF vars, memory, access, disk, jobs, Good, TypeOK, CallsHold, CallsKeepTheirProgram, PassOK, Idle, ActiveJob, AtSleep,
     EnoughSpared, Spared, AccessOK, Published, Recorded
<1> QED BY <1>1, <1>2

\* It holds always.
THEOREM GoodAlways == Spec => []Good
BY GoodInit, GoodNext, PTL DEF Spec

\* Values stay in their types; what is loaded has its project; only a tool thread
\* keeps the lock between two steps.
THEOREM TypeCorrect == Spec => []TypeOK
<1>1. Good => TypeOK
  BY DEF Good
<1> QED BY <1>1, GoodAlways, PTL

\* A call that holds the lock works on an open program.
THEOREM CallsAreSafe == Spec => []CallsKeepTheirProgram
<1>1. Good => CallsKeepTheirProgram
  BY DEF Good
<1> QED BY <1>1, GoodAlways, PTL

\* A listed program that was evicted can be reloaded.
THEOREM ListedCanReload == Spec => []ListedEvictedReloads
<1>1. Good => ListedEvictedReloads
  BY DEF Good, TypeOK, Published, ListedEvictedReloads, Reloads
<1> QED BY <1>1, GoodAlways, PTL

\* A program is closed at the monitor's hand by the eviction of what it has chosen.
LEMMA OnlyEvicts ==
    ASSUME Good, Next, NEW b \in Binaries, Evicts(b)
    PROVE  Evict(b) /\ b \in programs
<1> USE DEF Evicts, Good, TypeOK
<1>1. PICK c \in Binaries : Evict(c)
  BY DEF Next, Pass, Proceed, Tick, LoadJob, LoadInline, HotLoad, BeginJob, Import, Analyze, EndJob,
     PopRecord, Delete, ForeignComplete, Call, TakeLock, Lookup, Reload, LookupAgain, Finish, Resolve,
     Snapshot, Score, NextCandidate, Sleep, LoopFree
<1>2. b = c
  BY <1>1 DEF Evict, memory
<1> QED BY <1>1, <1>2

\* An eviction leaves MinLoaded programs, unless a deletion intervened.
THEOREM EvictionIsBounded == Spec => EvictionKeepsMin
<1> DEFINE Step == \A b \in Binaries : Evicts(b) =>
                      Cardinality(programs') >= MinLoaded \/ monitor.removed
<1>1. Good /\ [Next]_vars => [Step]_vars
  <2> SUFFICES ASSUME Good, Next, NEW b \in Binaries, Evicts(b), ~monitor.removed
               PROVE  Cardinality(programs') >= MinLoaded
    OBVIOUS
  <2>1. Evict(b) /\ b \in programs
    BY OnlyEvicts
  <2>2. PICK keep : Spared(keep)
    BY <2>1 DEF Good, EnoughSpared, Evict
  <2>3. keep \subseteq programs'
    BY <2>1, <2>2 DEF Evict, Good, PassOK, Spared
  <2>4. IsFiniteSet(programs')
    BY <2>1, FS_Subset, ResidencyAssumption DEF Evict, Good, TypeOK
  <2>5. Cardinality(keep) <= Cardinality(programs') /\ Cardinality(programs') \in Nat
    BY <2>3, <2>4, FS_Subset, FS_CardinalityType
  <2> QED BY <2>2, <2>5, ResidencyAssumption DEF Spared
<1> QED BY <1>1, GoodAlways, PTL DEF Spec, EvictionKeepsMin

\* What was resolved lately is closed only when the call came after the sort.
THEOREM RecentIsSafe == Spec => RecentlyResolvedStays
<1> DEFINE Step == \A b \in Binaries : Evicts(b) =>
                      resolved[b] + EvictAfter <= clock \/ b \in monitor.touched
<1>1. Good /\ [Next]_vars => [Step]_vars
  <2> SUFFICES ASSUME Good, Next, NEW b \in Binaries, Evicts(b), b \notin monitor.touched
               PROVE  resolved[b] + EvictAfter <= clock
    OBVIOUS
  <2>1. Evict(b)
    BY OnlyEvicts
  <2>2. monitor.score[b] = resolved[b]
    BY <2>1 DEF Evict, Good, PassOK, AccessOK
  <2>3. monitor.now - monitor.score[b] >= EvictAfter /\ monitor.now <= clock
    BY <2>1 DEF Evict, Good, PassOK, Idle
  <2>4. /\ monitor.now \in Int /\ clock \in Int /\ resolved[b] \in Int
        /\ EvictAfter \in Int
    BY ResidencyAssumption DEF Good, TypeOK
  <2> QED BY <2>2, <2>3, <2>4
<1> QED BY <1>1, GoodAlways, PTL DEF Spec, RecentlyResolvedStays

\* The program of a job is closed under its analysis only when an earlier job's pop
\* has removed the record.
THEOREM AnalysisIsSafe == Spec => AnalysisKeepsProgram
<1> DEFINE Step == \A b \in Large : Evicts(b) /\ work[b] = "analyzing" => b \in lost
<1>1. Good /\ [Next]_vars => [Step]_vars
  <2> SUFFICES ASSUME Good, Next, NEW b \in Large, Evicts(b), work[b] = "analyzing"
               PROVE  b \in lost
    OBVIOUS
  <2>1. b \in Binaries
    BY ResidencyAssumption
  <2>2. Evict(b)
    BY <2>1, OnlyEvicts
  <2>3. ~ActiveJob(b)
    BY <2>2 DEF Evict, Good, PassOK
  <2> QED BY <2>3 DEF Good, Recorded
<1> QED BY <1>1, GoodAlways, PTL DEF Spec, AnalysisKeepsProgram

=============================================================================
