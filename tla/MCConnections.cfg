SPECIFICATION Spec
CONSTANTS
    None = None
    Requests = {r1, r2, r3}
    Tenants = {"t1", "t2"}
    Ids <- MCIds
    Names = {"n1", "n2", "n3"}
    Products = {"p1", "p2"}
    Targets = {"d1", "d2"}
    Calls <- MCCalls
    StoredFirst <- MCStoredFirst
    Keys <- MCKeys
    Tokens = 1
    TTL = 1
    MaxTime = 2
    MaxFaults = 1
SYMMETRY Symmetric
INVARIANTS StoredConnectionsSound OneWinner TestsWithinRate
PROPERTIES GateProtectsJobs ServedSchemaIsFresh
CHECK_DEADLOCK FALSE
