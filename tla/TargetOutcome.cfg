SPECIFICATION FairSpec
CONSTANTS
    Disks = {d1, d2}
    NoInventory = NoInventory
    Tokens = {t1, t2}
    Faults = {"step", "swap"}
PROPERTIES
    OutcomeReported
CHECK_DEADLOCK FALSE
