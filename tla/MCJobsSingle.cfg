SPECIFICATION Spec
CONSTANTS
    Jobs = {j1, j2}
    Workers = {w1, w2}
    Repairers = {p1}
    None = None
    TheHash = h1
    Hashes <- MCHashes
    RequestHash <- MCRequestHash
    FaultKinds = {"read", "write", "broker", "stream", "storage", "signature", "tenant", "panic", "cancel", "crash"}
    MaxFaults = 3
    MaxPublishAttempts = 2
SYMMETRY Symmetry
INVARIANTS EventNeverLost IntegrityMatchesObject
PROPERTIES ImplementsContract
