SPECIFICATION Spec
CONSTANTS
    Graphs <- MCGraphs
    Scans <- MCScans
    Patterns <- MCPatterns
    Listings <- MCListings
    Transferals <- MCTransferals
    Lookups <- MCLookups
INVARIANTS
    GraphExact SearchExact SliceExact TransferUnique LookupOrderFree
CHECK_DEADLOCK FALSE
