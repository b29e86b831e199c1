SPECIFICATION FairSpec
CONSTANTS
    Proxies = {p1, p2}
    Nobody = Nobody
    MaxStops = 2
INVARIANTS OneStart FailedStartLeavesNothing StopHolds
PROPERTIES ProxiesSettle ServersSettle
CHECK_DEADLOCK FALSE
