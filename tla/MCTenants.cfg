SPECIFICATION FairSpec
CONSTANTS
    Tenants = {t1}
    GraceTicks = 2
    MaxLoops = 5
    MaxChanges = 2
INVARIANTS OneLoopPerRegistration NothingStartsAfterClose
PROPERTIES StopOnlyAfterGrace ActiveTenantServed AbsentTenantForgotten
CHECK_DEADLOCK FALSE
