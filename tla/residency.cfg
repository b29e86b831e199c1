SPECIFICATION Spec
VIEW View
CONSTANTS
    Binaries = {small, large}
    Large = {large}
    Preloaded = {large}
    Threads = {t1}
    Free = Free
    MinLoaded = 1
    EvictAfter = 1
    MaxClock = 2
    MaxPops = 2
INVARIANTS CallsKeepTheirProgram ListedEvictedReloads
CHECK_DEADLOCK FALSE
PROPERTIES EvictionKeepsMin RecentlyResolvedStays AnalysisKeepsProgram
