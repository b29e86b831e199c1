SPECIFICATION FairSpec
CONSTANTS
    AnalysisIds = {a1}
    ScanIds = {s1}
    Tasks = {t1, t2}
    Nil = Nil
    WorkerSlots = 1
    ImportThreads = 1
    MaxQueuedJobs = 2
    Preload = FALSE
    SharedDir = FALSE
    MaxFaults = 1
    MaxRestarts = 0
PROPERTIES QueuedTasksRun AnalyzingEnds
INVARIANTS OneAnalysis
