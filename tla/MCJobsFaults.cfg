SPECIFICATION BudgetSpec
CONSTANTS
    Jobs = {j1, j2, j3}
    Workers = {w1, w2}
    Repairers = {p1}
    None = None
    TheHash = h1
    Hashes <- MCHashes
    RequestHash <- MCRequestHash
    FaultKinds = {"read", "blind", "write", "ambiguous", "broker", "confirm", "stream", "storage", "signature", "tenant", "channel", "panic", "cancel", "crash"}
    MaxFaults = 3
    MaxPublishAttempts = 1
SYMMETRY Symmetry
INVARIANTS TypeOK CompletedHasResult MarkerMatchesStatus EventAfterCommit UniqueActiveHash
