SPECIFICATION BootFairSpec
CONSTANTS
    b1 = b1
    b2 = b2
    p1 = p1
    p2 = p2
    p3 = p3
    pid1 = pid1
    pid3 = pid3
    Boards = {b1, b2}
    Profiles = {p1, p2, p3}
    BoardPid <- MCBoardPid
    ProfilePid <- MCProfilePid
    Serial <- MCSerial
    NoSerial = NoSerial
    Clicks = 3
    Calls = {1, 2, 3}
    Transports = {1, 2, 3}
    Makes = 2
    Objects = 2
    Resets = 0
    BootromCount = 2
    ArtifactCount = 4
    None = None
INVARIANTS
    OneAttempt
    CompleteMeansLoaded
PROPERTIES
    BootReturns
CHECK_DEADLOCK FALSE
