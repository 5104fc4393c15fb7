SPECIFICATION FairSpec
CONSTANTS
    u1 = u1
    u2 = u2
    Users = {u1, u2}
    Requests = {1, 2}
    Levels = {1, 2}
    energyRequired <- LevelCost
    topContributionThreshold = 1
    randomBeneficiaries = 1
    Prompt = TRUE
    NoLaunch = NoLaunch
    Calls <- AllCalls
    Loads <- AllLoads
INVARIANTS
    EventsArePaid
    FuelLaunchesOnce
    PaidAsLaunched
PROPERTIES
    RocketsLand
CHECK_DEADLOCK FALSE
