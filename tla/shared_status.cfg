SPECIFICATION FairSpec
CONSTANTS
    Workers = {w1, w2}
    Nobody = Nobody
    MaxWrites = 3
PROPERTIES CompletionKept DeadAnalysisMarked PendingDrains CompletionIsLoaded
CHECK_DEADLOCK FALSE
