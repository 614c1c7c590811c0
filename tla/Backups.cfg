SPECIFICATION Spec
CONSTANTS
    timer = timer
    release = release
    courier1 = courier1
    courier2 = courier2
    Backers = {timer, release}
    Couriers = {courier1, courier2}
    MaxRuns = 3
    Shares <- MCShares
    Keep = 1
    KeepOffhost = 1
    Week <- MCWeek
    Weeks = 1
    FreshRuns = 0
SYMMETRY Symmetry
INVARIANTS
    RetentionKeeps
    NamedIsKept
    ReceiptIsHonest
    UndoIsPossible
CHECK_DEADLOCK FALSE
