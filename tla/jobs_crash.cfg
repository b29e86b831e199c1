SPECIFICATION Spec
CONSTANTS
    AnalysisIds = {a1}
    ScanIds = {}
    Tasks = {t1, t2}
    Nil = Nil
    WorkerSlots = 2
    ImportThreads = 2
    MaxQueuedJobs = 2
    Preload = FALSE
    SharedDir = FALSE
    MaxFaults = 0
    MaxRestarts = 1
INVARIANTS ReadyIsAnalyzed
