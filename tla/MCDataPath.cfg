SPECIFICATION Spec
CONSTANTS
    Failed = Failed
    Upper <- MCUpper
    Lower <- MCLower
    Texts <- MCTexts
    Patterns <- MCPatterns
    Prefixes <- MCPrefixes
    TopLevel <- MCTopLevel
    HashOf <- MCHashOf
    Limits <- MCLimits
    Databases <- MCDatabases
    Requests <- MCRequests
    CurrentSchema = "OWN"
    Database = "shop"
    CrmConfig = "plugin_crm"
    ScanLimit = 3
    Deployments <- MCDeployments
    Wanted <- MCWanted
    Accounts <- MCAccounts
    PageSize = 2
INVARIANTS FiltersNeverDropped AnswersComplete PlanIsExecutable ManagerAndWorkerAgree DialsAsConfigured ListedIsExtractable
CHECK_DEADLOCK FALSE
