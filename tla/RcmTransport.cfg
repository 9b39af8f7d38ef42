SPECIFICATION RcmSpec
CONSTANTS
    b1 = b1
    b2 = b2
    p1 = p1
    p2 = p2
    pid1 = pid1
    pid2 = pid2
    s1 = s1
    Boards = {b1, b2}
    Profiles = {p1, p2}
    BoardPid <- MCBoardPid
    ProfilePid <- MCProfilePid
    Serial <- MCSerial
    NoSerial = NoSerial
    Calls = {c1, c2, c3}
    Transports = {r1}
    Makes = 1
    Objects = 2
    Resets = 1
    BootromCount = 2
    ArtifactCount = 3
    None = None
SYMMETRY Symmetry
INVARIANTS
    RcmTypeOK
    StageTwoOnlyToMb1
    HandoffOnce
    StageTwoSameBoard
    ArtifactsFitBoard
CHECK_DEADLOCK FALSE
