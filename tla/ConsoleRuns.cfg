SPECIFICATION CPSpec
CONSTANTS
    Disks = {d1, d2}
    NoInventory = NoInventory
    Tokens = {t1, t2, t3, t4}
    Faults = {"term", "hangup", "swap"}
    Attempts = 2
    Repeats = 1
SYMMETRY Symmetry
INVARIANTS
    NoMarkerMissed
    NothingHalfTyped
    ConfirmationIsFresh
    FlashNeverTorn
PROPERTIES
    PromiseKept
CHECK_DEADLOCK FALSE
