SPECIFICATION MCSpec
CONSTANTS
    Jobs = {j1}
    Workers = {w1, w2}
    Repairers = {p1}
    None = None
    TheHash = h1
    Hashes <- MCHashes
    RequestHash <- MCRequestHash
    FaultKinds = {"read", "write", "broker", "confirm", "stream", "storage", "channel", "cancel", "crash"}
    MaxFaults = 3
    MaxPublishAttempts = 1
PROPERTIES TerminalEventDelivered JobsTerminate
