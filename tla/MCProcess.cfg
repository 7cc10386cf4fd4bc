SPECIFICATION BudgetSpec
CONSTANTS
    Configs <- MCConfigs
    ProbePeriod = 2
    MaxOutages = 1
    MaxFaults = 1
    MaxSignals = 1
INVARIANTS NotReadyWhenClosing ClosedExactlyOnce ClientsFitForUse
PROPERTIES AnswersTruthful ServesAgain
