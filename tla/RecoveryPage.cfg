SPECIFICATION HostFairSpec
CONSTANTS
    Disks = {d1}
    NoInventory = NoInventory
    Tokens = {t1, t2, t3, t4, t5}
    Attempts = 2
    Probes = 2
PROPERTIES
    OutcomeIsFinal
    OutcomeShown
    RecoveryReturns
CHECK_DEADLOCK FALSE
