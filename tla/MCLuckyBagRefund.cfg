SPECIFICATION SideBySide
CONSTANTS
    Users = {u1, u2}
    Bags = {b1}
    Requests = {r1, r2, r3}
    totalCoins = 2
    slotCount = 1
    Cuts <- OneSlot
    maxConcurrentPerRoom = 1
    Opening = 2
    NoUser = NoUser
    NoBag = NoBag
    Totals = {0}
    Slots = {1}
    Tiers = {}
SYMMETRY Symmetry
INVARIANTS
    NeverPaysMoreThanTotal
CHECK_DEADLOCK FALSE
