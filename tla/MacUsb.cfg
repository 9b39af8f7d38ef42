SPECIFICATION MacUsbSpec
CONSTANTS
    Paths = {p1, p2}
    Locations = {l1, l2}
    None = None
    Deadline = 6
    Refresh = 2
    Stable = 2
    Plugs = 2
    Boards = {b1, b2}
    NoBoard = NoBoard
    BootromCount = 2
    ArtifactCount = 4
    Runs = 2
    Touches = 2
SYMMETRY PathSymmetry
INVARIANTS
    ListingUnderstood
    ChosenIsRecovery
    AmbiguityRefused
    StageTwoToGreeter
    SentMeansLoaded
CHECK_DEADLOCK FALSE
