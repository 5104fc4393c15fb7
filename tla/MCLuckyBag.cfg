SPECIFICATION SideBySide
CONSTANTS
    Users = {u1, u2, u3}
    Bags = {b1}
    Requests = {r1, r2, r3, r4, r5}
    totalCoins = 4
    slotCount = 2
    Cuts <- MCCuts
    maxConcurrentPerRoom = 1
    Opening = 4
    NoUser = NoUser
    NoBag = NoBag
    Totals <- MCTotals
    Slots <- MCSlots
    Tiers <- MCTiers
SYMMETRY Symmetry
INVARIANTS
    SlotsTakenOnce
    PaidAsClaimed
    RemainingCoversSlots
    PoolHandedOut
PROPERTIES
    CancelsOnce
CHECK_DEADLOCK FALSE
