SPECIFICATION Spec
CONSTANTS
    k1 = k1
    k2 = k2
    Keeper = {k1, k2}
    Other = Other
    NoFile = NoFile
    Digits = 2
    Taken <- MCTaken
    OtherName <- MCOthers
    MaxCreated <- MCCreated
    Killed = {k1, k2}
    MaxCleaned = 1
    Io = TRUE
    Word = 4
    Base = 64
    Size = 42
    Mine = k1
    Process = {p1, p2}
    NoProcess = NoProcess
    Image <- MCImage
    Call <- MCCall
    Buffer <- MCBuffer
    StatBuffer <- MCStat
    RealCwd <- MCReal
    MockCwd <- MCMock
    MockMode = 100
    Slash = 36
    MaxQueries = 1
CONSTRAINT MCBound
CHECK_DEADLOCK FALSE
SYMMETRY Symmetric
INVARIANTS
    OwnMockIsStarted
    CommandIsSeen
    MockIsOwn
    RanOutMeansFull
PROPERTIES
    ForeignFilesKept
    AnswersAreWritten
