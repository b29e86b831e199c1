SPECIFICATION FairSpec
CONSTANTS
    MaxMessages = 3
    PoolSize = 2
INVARIANT PostedOnce
PROPERTIES NotesInOrder BoundedAnswered ServiceResumes
CHECK_DEADLOCK FALSE
