SPECIFICATION WalletSpec
CONSTANTS
    u1 = u1
    u2 = u2
    Users <- MCUsers
    Requests = {r1, r2, r3}
    Opening <- MCOpening
    Calls <- MCCalls
SYMMETRY RequestSymmetry
INVARIANTS
    BooksBalance
    DebtBoundedByReversals
    BookedOnce
PROPERTIES
    FrozenMovesOnlyBack
    ImplementsLedger
