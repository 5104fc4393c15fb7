SPECIFICATION Spec
CHECK_DEADLOCK FALSE
CONSTANTS
    Workloads <- SweepLoads
    People <- Friendly
    DeadTokens <- Stale
    VanityIds <- Sold
    MaxRetry = 3
    MaxAttempts = 2
    Host = "h"
    Admins <- Moderators
    Banned <- Blocked1
    Layout <- Rooms3
    Seats <- Two
    FirstFamily <- OneFamily
    SoloDays = 1
    FirstAgencies <- TwoAgencies
    Managers <- Staff
    RoomOwner <- OwnersOf
    MonthStarts <- Months
    BoardSize = 2
PROPERTIES
    SweptAreSolo
