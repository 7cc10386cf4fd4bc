SPECIFICATION FairSpec
CONSTANTS
    Tenants = {t1}
    GraceTicks = 1
    MaxLoops = 5
    MaxChanges = 1
PROPERTIES StopTearsDown
CHECK_DEADLOCK FALSE
