SPECIFICATION Spec
CONSTANTS
    Bets = {b1}
    apple = apple
    mango = mango
    Items <- OneItem
    multiplier <- OneMultiplier
    rtpPercent = 100
    NoItem = NoItem
    Tasks = {t1, t2}
    MaxRounds = 1
    MaxCrashes = 1
    MaxLoops = 2
    Polls = FALSE
    Admins = FALSE
INVARIANTS
    CrashedAfterPayout
CHECK_DEADLOCK FALSE
