SPECIFICATION FairSpec
CHECK_DEADLOCK FALSE
CONSTANTS
    Workloads <- AllLoads
    OpeningLimit = 3
    Events = {1, 2}
    LastDay = 2
    FirstConfig <- TwoDays
    FirstTask <- OneTask
    DaysPerMonth = 2
    ValidDayTime = 2
    ValidMonthDays = 1
    Catalog <- Items
    FirstListings <- OneListing
    FirstTiers <- SomeTiers
    Honors <- TwoHonors
INVARIANTS
    PoolReconciled
    EarnedIsPaidOnce
    BoughtIsKept
    OneOfEachSlot
    HonorsAreEarned
PROPERTIES
    PurchasesComplete
