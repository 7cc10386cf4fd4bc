SPECIFICATION FairSpec
CONSTANTS
    N = 3
    Window = 2
    MaxBatches = 2
    RowCounts = {0, 2}
    SizeLimit = 3
    Modes = {"store", "direct"}
    Failures <- AllFailures
    MaxFailures = 1
INVARIANTS FinalizedIsComplete CanceledOnlyByHost NothingLeftBehind
PROPERTIES Terminates
