SPECIFICATION ProvisioningSpec
CONSTANTS
    Disks = {d1, d2}
    NoInventory = NoInventory
    Tokens = {t1, t2, t3, t4, t5}
    Faults = {"hangup", "swap"}
    Attempts = 2
    Probes = 2
    Losses = 1
SYMMETRY Symmetry
INVARIANTS
    OnlyShownInventoryWritten
    ShownInventoryIsFresh
PROPERTIES
    PromiseKept
CHECK_DEADLOCK FALSE
