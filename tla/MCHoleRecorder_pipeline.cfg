\* Commands that run at once or one after the other, and processes that execute none and exit.
SPECIFICATION Spec
CONSTANTS
    build = build
    push = push
    echo = echo
    isBuild = isBuild
    isPush = isPush
    isEcho = isEcho
    regex = regex
    silent = silent
    MaxSteps = 1
    Command <- AllCommands
    Matcher <- Matchers
    Accepts <- AcceptedBy
    ExactMatch <- ExactMatches
    NoCommand = NoCommand
    Output = {silent}
    NoOutput = silent
    ExitCode = {0, 1, 3}
    Codes = 2
    NoValue = NoValue
    Test <- AnyTest
    Unmocked = {echo}
    MaxReceived = 2
    Pid = {p1, p2}
    NoPid = NoPid
SYMMETRY Permuted
INVARIANTS
    RecordingIsTrue
