SPECIFICATION Spec
CONSTANTS
    Configs <- SingleTenantManager
    ProbePeriod = 2
    MaxOutages = 1
    MaxFaults = 0
    MaxSignals = 0
PROPERTIES ManagerServesAgain
