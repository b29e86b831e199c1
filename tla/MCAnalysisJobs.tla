--------------------------- MODULE MCAnalysisJobs ---------------------------
(* TLC instances of AnalysisJobs.  Tasks and ids are interchangeable.       *)
EXTENDS AnalysisJobs, TLC

Symmetry ==
    Permutations(Tasks) \union Permutations(AnalysisIds) \union Permutations(ScanIds)

\* What is left of a task that nothing refers to has no effect on any step: two
\* states that differ only there count as one.
Garbage == {t \in Tasks : Unused(t, active_jobs)}
View ==
    <<active_jobs, timers, status_file, project, programs, loop, deleting, history,
      cancelled \ Garbage, lost \ Garbage,
      [t \in Tasks \ Garbage |-> <<job[t], coro[t], fut[t]>>]>>
=============================================================================
