SPECIFICATION Spec
CONSTANTS
    Disks = {d1, d2}
    NoInventory = NoInventory
    Tokens = {t1, t2}
    Faults = {"step"}
INVARIANTS
    ExistingBackupKept
CHECK_DEADLOCK FALSE
