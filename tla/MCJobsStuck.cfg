SPECIFICATION FairSpec
CONSTANTS
    Jobs = {j1}
    Workers = {w1}
    Repairers = {p1}
    None = None
    TheHash = h1
    Hashes <- MCHashes
    RequestHash <- MCRequestHash
    FaultKinds = {"crash"}
    MaxFaults = 1
    MaxPublishAttempts = 1
PROPERTIES ProcessingResumes
