SPECIFICATION Spec
CONSTANTS
    Disks = {d1, d2}
    NoInventory = NoInventory
    Tokens = {t1, t2}
    Faults = {"step", "term", "hangup", "power", "swap"}
SYMMETRY Symmetry
INVARIANTS
    TypeOK
    BackupCoversLoss
    SuccessMeansProvisioned
    InstallerSuccessMeansInstalled
    MarkersInOrder
PROPERTIES
    WritesOnlyConfirmed
CHECK_DEADLOCK FALSE
