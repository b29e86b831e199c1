SPECIFICATION Spec
CONSTANTS
    AnalysisIds = {a1, a2}
    ScanIds = {s1, s2}
    Tasks = {t1, t2}
    Nil = Nil
    WorkerSlots = 1
    ImportThreads = 1
    MaxQueuedJobs = 1
    Preload = TRUE
    SharedDir = TRUE
    MaxFaults = 0
    MaxRestarts = 1
SYMMETRY Symmetry
VIEW View
INVARIANTS TypeOK JobCaps AnalyzingHasWriter TerminalRecordExpires
