SPECIFICATION Spec
CONSTANTS
    None = None
    Producers = {p1, p2}
    Messages = {m1, m2}
    MaxPublishAttempts = 2
    Concurrency = 2
    Threshold = 3
    MaxFailures = 3
    MaxChannels = 5
INVARIANTS FailureCostsOneAttempt OneHandlerPerMessage ReturnedMeansClean
PROPERTIES ImplementsPublish NobodyWaitsForGood
