\* Scripts that run up to four commands in any order and nesting.
SPECIFICATION Spec
CONSTANTS
    build = build
    push = push
    echo = echo
    isBuild = isBuild
    isPush = isPush
    isEcho = isEcho
    regex = regex
    silent = silent
    MaxSteps = 2
    Command <- AllCommands
    Matcher <- Matchers
    Accepts <- AcceptedBy
    ExactMatch <- ExactMatches
    NoCommand = NoCommand
    Output = {silent}
    NoOutput = silent
    ExitCode = {0, 1, 3}
    Codes = 2
    NoValue = NoValue
    Test <- AnyTest
    Unmocked = {echo}
    MaxReceived = 4
    Pid = {p1, p2}
    NoPid = NoPid
SYMMETRY Permuted
INVARIANTS
    StepsAreObeyed
    SequenceIsRecorded
    RecordedOnlyIfConforming
    DeviationIsReported
    MockedUpToHole
    ExitcodeIsTrue
    RecordedTestPasses
