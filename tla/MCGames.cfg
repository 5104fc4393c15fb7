SPECIFICATION FairSpec
CONSTANTS
    Bets = {b1}
    apple = apple
    mango = mango
    Items <- TwoItems
    multiplier <- Multipliers
    rtpPercent = 100
    NoItem = NoItem
    Tasks = {t1, t2}
    MaxRounds = 2
    MaxCrashes = 1
    MaxLoops = 2
    Polls = FALSE
    Admins = FALSE
INVARIANTS
    LoopIsOne
    WindowIsKept
    WinnersArePaid
PROPERTIES
    RoundsGoForward
    RoundsComplete
CHECK_DEADLOCK FALSE
