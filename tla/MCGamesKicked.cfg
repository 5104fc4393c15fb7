SPECIFICATION Spec
CONSTANTS
    Bets = {b1}
    apple = apple
    mango = mango
    Items <- OneItem
    multiplier <- OneMultiplier
    rtpPercent = 100
    NoItem = NoItem
    Tasks = {t1, t2}
    MaxRounds = 2
    MaxCrashes = 0
    MaxLoops = 2
    Polls = TRUE
    Admins = TRUE
SYMMETRY Symmetry
INVARIANTS
    KickedRoundsHold
CHECK_DEADLOCK FALSE
