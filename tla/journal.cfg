SPECIFICATION JournalSpec
CONSTANTS
    Servers = {s1}
    MaxBackups = 3
    FileCap = 2
    MaxRecords = 12
    MaxFaults = 2
INVARIANTS JournalTypeOK NoHole FilesInOrder BoundedDisk
PROPERTIES LogSpec
